---------------------------- MODULE EPLayer_proofs ----------------------------
(* TLAPS proofs about EPLayer, for any set of ranks, any number of layers    *)
(* and every configuration, from LayerAssumption and SetupAssumption alone.  *)
(*                                                                           *)
(* All ranks queue the same collectives in the same order: where a rank's    *)
(* two threads are (InTurn) fixes how many collectives it has queued         *)
(* (Complete), and the i-th one is always the one due in a round (InCourse). *)
(*                                                                           *)
(* A timer's begin and end meet in one layer (InSpan).                       *)
(*                                                                           *)
(* No operation finds a buffer of another layer.  The operations of a        *)
(* microbatch are numbered through all layers.  What is queued, on two       *)
(* streams, is a section of that numbering; two operations next to each      *)
(* other in it are on one stream or joined by an event (Fine), so whatever   *)
(* a stream runs is the next in number, and the number of the last one that  *)
(* was run tells the layer every buffer is of (Filled).                      *)
EXTENDS EPLayer, SequenceTheorems, TLAPS

\* How the log of at most two operations is built up.
LEMMA LogUnfolds ==
  ASSUME NEW ops, NEW n \in 0..2, Len(ops) = n
  PROVE  \E f : /\ Log(ops) = f[n] /\ f[0] = << >>
                /\ \A i \in 1..n : f[i] = IF ops[i].kind \in Collectives
                                          THEN Append(f[i - 1], ops[i]) ELSE f[i - 1]
<1> DEFINE Grown(i, x) == IF ops[i].kind \in Collectives THEN Append(x, ops[i]) ELSE x
           Rec(f) == f = [i \in 0..n |-> IF i = 0 THEN << >> ELSE Grown(i, f[i - 1])]
           a == Grown(1, << >>)
           b == Grown(2, a)
           g == [i \in 0..n |-> IF i = 0 THEN << >> ELSE IF i = 1 THEN a ELSE b]
           h == CHOOSE f : Rec(f)
<1>1. Log(ops) = h[n]
  BY DEF Log
<1>2. Rec(g)
  <2>1. ASSUME NEW i \in 0..n
        PROVE  g[i] = IF i = 0 THEN << >> ELSE Grown(i, g[i - 1])
    <3>1. CASE i = 0
      BY <3>1
    <3>2. CASE i = 1
      <4>1. g[0] = << >> /\ g[1] = a /\ i - 1 = 0
        BY <3>2, SMT
      <4> HIDE DEF g
      <4> QED BY <3>2, <4>1
    <3>3. CASE i = 2
      <4> HIDE DEF a, Grown
      <4>1. g[1] = a /\ g[2] = b /\ i - 1 = 1
        BY <3>3, SMT
      <4> HIDE DEF g
      <4> QED BY <3>3, <4>1
    <3> QED BY <3>1, <3>2, <3>3, SMT
  <2> HIDE DEF g, Grown
  <2> DEFINE g2 == [i \in 0..n |-> IF i = 0 THEN << >> ELSE Grown(i, g[i - 1])]
  <2>2. g = g2
    <3>1. g = [i \in 0..n |-> g[i]]
      BY DEF g
    <3> QED BY <2>1, <3>1
  <2> QED BY <2>2
<1>3. Rec(h)
  BY <1>2
<1> HIDE DEF h
<1>4. h[0] = << >>
  BY <1>3
<1>5. \A i \in 1..n : h[i] = IF ops[i].kind \in Collectives THEN Append(h[i - 1], ops[i])
                              ELSE h[i - 1]
  <2> SUFFICES ASSUME NEW i \in 1..n PROVE h[i] = Grown(i, h[i - 1])
    OBVIOUS
  <2> HIDE DEF Grown
  <2>1. i \in 0..n /\ i # 0
    BY SMT
  <2> QED BY <1>3, <2>1
<1> QED BY <1>1, <1>4, <1>5

\* What is logged of no, one or two operations.
LEMMA LogShort ==
  ASSUME NEW o, NEW p
  PROVE  /\ Log(<< >>) = << >>
         /\ Log(<< o >>) = IF o.kind \in Collectives THEN << o >> ELSE << >>
         /\ Log(<< o, p >>) = IF o.kind \in Collectives
                              THEN IF p.kind \in Collectives THEN << o, p >> ELSE << o >>
                              ELSE IF p.kind \in Collectives THEN << p >> ELSE << >>
<1> DEFINE Coll(x) == x.kind \in Collectives
<1> HIDE DEF Coll
<1>1. Log(<< >>) = << >>
  <2>1. Len(<< >>) = 0 /\ 0 \in 0..2
    OBVIOUS
  <2> QED BY <2>1, LogUnfolds
<1>2. Log(<< o >>) = IF Coll(o) THEN << o >> ELSE << >>
  <2>1. Len(<< o >>) = 1 /\ 1 \in 0..2 /\ << o >>[1] = o /\ 1 \in 1..1 /\ 1 - 1 = 0
    OBVIOUS
  <2>2. PICK f : /\ Log(<< o >>) = f[1] /\ f[0] = << >>
                 /\ f[1] = IF Coll(o) THEN Append(f[0], o) ELSE f[0]
    BY <2>1, LogUnfolds DEF Coll
  <2>3. Append(<< >>, o) = << o >>
    OBVIOUS
  <2> QED BY <2>2, <2>3
<1>3. Log(<< o, p >>) = IF Coll(o) THEN IF Coll(p) THEN << o, p >> ELSE << o >>
                        ELSE IF Coll(p) THEN << p >> ELSE << >>
  <2>1. Len(<< o, p >>) = 2 /\ 2 \in 0..2 /\ << o, p >>[1] = o /\ << o, p >>[2] = p
        /\ 1 \in 1..2 /\ 2 \in 1..2 /\ 1 - 1 = 0 /\ 2 - 1 = 1
    OBVIOUS
  <2>2. PICK f : /\ Log(<< o, p >>) = f[2] /\ f[0] = << >>
                 /\ f[1] = IF Coll(o) THEN Append(f[0], o) ELSE f[0]
                 /\ f[2] = IF Coll(p) THEN Append(f[1], p) ELSE f[1]
    BY <2>1, LogUnfolds DEF Coll
  <2>3. Append(<< >>, o) = << o >> /\ Append(<< >>, p) = << p >>
    OBVIOUS
  <2>4. Append(<< o >>, p) = << o, p >>
    <3> DEFINE S == {o, p}
    <3>1. o \in S /\ p \in S
      OBVIOUS
    <3> HIDE DEF S
    <3>2. << o >> \in Seq(S) /\ Len(<< o >>) = 1
      BY <3>1
    <3>3. /\ Append(<< o >>, p) \in Seq(S) /\ Len(Append(<< o >>, p)) = 2
          /\ Append(<< o >>, p)[1] = o /\ Append(<< o >>, p)[2] = p
      BY <3>1, <3>2
    <3>4. << o, p >> \in Seq(S) /\ Len(<< o, p >>) = 2 /\ << o, p >>[1] = o /\ << o, p >>[2] = p
      BY <3>1
    <3>5. \A i \in 1..2 : Append(<< o >>, p)[i] = << o, p >>[i]
      <4>1. \A i \in 1..2 : i = 1 \/ i = 2
        BY SMT
      <4> QED BY <3>3, <3>4, <4>1
    <3>6. Append(<< o >>, p) = [i \in 1..2 |-> Append(<< o >>, p)[i]]
      BY <3>3
    <3>7. << o, p >> = [i \in 1..2 |-> << o, p >>[i]]
      BY <3>4
    <3> QED BY <3>5, <3>6, <3>7, Zenon
  <2> QED BY <2>2, <2>3, <2>4
<1> QED BY <1>1, <1>2, <1>3 DEF Coll

-----------------------------------------------------------------------------
(* The state of the ranks, and what a step of a host thread leaves alone.    *)

Places == {"start", "dispatch", "spin", "experts", "combine", "finish", "sum", "done"}
Kinds == {"input", "dispatch", "experts", "combine", "copy", "shared", "sum"}
Dests == {"none", "ws", "output"}
OpArgs == {None} \cup Dests \cup (Nat \X Dests)
Ops == [kind : Kinds \cup {"barrier"}, ubatch : Ubatches, layer : Nat, after : Nat, arg : OpArgs]

ThreadTypes ==
    /\ setup \in Setups
    /\ turn \in [Ranks -> Ubatches]
    /\ pc \in [Ranks -> [Ubatches -> Places]]
    /\ layer \in [Ranks -> [Ubatches -> Nat \ {0}]]
    /\ mark \in [Ranks -> [Ubatches -> Nat]]
    /\ handle \in [Ranks -> [Ubatches -> Nat]]
    /\ rows \in [Ranks -> [Ubatches -> Dests]]
    /\ handles \in [Ranks -> [{0, 1} -> Nat]]

DeviceTypes ==
    /\ queue \in [Ranks -> [Streams -> Seq(Ops)]]
    /\ put \in [Ranks -> [Streams -> Nat]]
    /\ \A r \in Ranks : \A s \in Streams : Len(queue[r][s]) <= put[r][s]
    /\ mem \in [Ranks -> [Ubatches -> [Buffers -> Int]]]
    /\ issued \in [Ranks -> Seq(Ops)]

EPTypes == ThreadTypes /\ DeviceTypes

\* Nothing of another rank changes, nor of another microbatch but its turn and its queues.
HostFrame(r, u) ==
    /\ setup' = setup /\ mem' = mem
    /\ \A q \in Ranks \ {r} :
        /\ turn'[q] = turn[q] /\ pc'[q] = pc[q] /\ layer'[q] = layer[q] /\ mark'[q] = mark[q]
        /\ handle'[q] = handle[q] /\ rows'[q] = rows[q] /\ handles'[q] = handles[q]
        /\ queue'[q] = queue[q] /\ put'[q] = put[q] /\ issued'[q] = issued[q]
    /\ \A v \in Ubatches \ {u} :
        /\ pc'[r][v] = pc[r][v] /\ layer'[r][v] = layer[r][v] /\ mark'[r][v] = mark[r][v]
        /\ handle'[r][v] = handle[r][v] /\ rows'[r][v] = rows[r][v]
        /\ handles'[r][v] = handles[r][v]

\* What queuing adds.
LEMMA QueueAdds ==
  ASSUME EPTypes, NEW r \in Ranks, NEW compute \in Seq(Ops), NEW comm \in Seq(Ops),
         Queue(r, compute, comm), Log(compute) \in Seq(Ops), Log(comm) \in Seq(Ops)
  PROVE  /\ DeviceTypes' \/ setup' # setup
         /\ queue'[r]["compute"] = queue[r]["compute"] \o compute
         /\ queue'[r]["comm"] = queue[r]["comm"] \o comm
         /\ put'[r]["compute"] = put[r]["compute"] + Len(compute)
         /\ put'[r]["comm"] = put[r]["comm"] + Len(comm)
         /\ issued'[r] = issued[r] \o Log(compute) \o Log(comm)
         /\ mem' = mem
         /\ \A q \in Ranks \ {r} :
                queue'[q] = queue[q] /\ put'[q] = put[q] /\ issued'[q] = issued[q]
<1> USE DEF EPTypes, DeviceTypes, Streams
<1>1. /\ queue' \in [Ranks -> [Streams -> Seq(Ops)]]
      /\ queue'[r]["compute"] = queue[r]["compute"] \o compute
      /\ queue'[r]["comm"] = queue[r]["comm"] \o comm
      /\ \A q \in Ranks \ {r} : queue'[q] = queue[q]
  <2> DEFINE a == queue[r]["compute"] \o compute
             b == queue[r]["comm"] \o comm
  <2>1. a \in Seq(Ops) /\ b \in Seq(Ops)
    OBVIOUS
  <2>2. queue' = [queue EXCEPT ![r] = [[queue[r] EXCEPT !["compute"] = a] EXCEPT !["comm"] = b]]
    BY DEF Queue
  <2> HIDE DEF a, b
  <2>3. [[queue[r] EXCEPT !["compute"] = a] EXCEPT !["comm"] = b] \in [Streams -> Seq(Ops)]
    BY <2>1
  <2> QED BY <2>1, <2>2, <2>3 DEF a, b
<1>2. /\ put' \in [Ranks -> [Streams -> Nat]]
      /\ put'[r]["compute"] = put[r]["compute"] + Len(compute)
      /\ put'[r]["comm"] = put[r]["comm"] + Len(comm)
      /\ \A q \in Ranks \ {r} : put'[q] = put[q]
  <2> DEFINE a == put[r]["compute"] + Len(compute)
             b == put[r]["comm"] + Len(comm)
  <2>1. a \in Nat /\ b \in Nat
    OBVIOUS
  <2>2. put' = [put EXCEPT ![r] = [[put[r] EXCEPT !["compute"] = a] EXCEPT !["comm"] = b]]
    BY DEF Queue
  <2> HIDE DEF a, b
  <2>3. [[put[r] EXCEPT !["compute"] = a] EXCEPT !["comm"] = b] \in [Streams -> Nat]
    BY <2>1
  <2> QED BY <2>1, <2>2, <2>3 DEF a, b
<1>3. /\ issued'[r] = issued[r] \o Log(compute) \o Log(comm)
      /\ issued' \in [Ranks -> Seq(Ops)]
      /\ \A q \in Ranks \ {r} : issued'[q] = issued[q]
  <2> DEFINE a == issued[r] \o Log(compute) \o Log(comm)
  <2>1. a \in Seq(Ops)
    OBVIOUS
  <2>2. issued' = [issued EXCEPT ![r] = a]
    BY DEF Queue
  <2> HIDE DEF a
  <2> QED BY <2>1, <2>2 DEF a
<1>4. mem' = mem
  BY DEF Queue
<1>5. \A q \in Ranks : \A s \in Streams : Len(queue'[q][s]) <= put'[q][s]
  <2>1. ASSUME NEW q \in Ranks, NEW s \in Streams PROVE Len(queue'[q][s]) <= put'[q][s]
    <3>1. CASE q # r
      BY <1>1, <1>2, <3>1
    <3>2. CASE q = r
      <4>1. Len(queue[r]["compute"] \o compute) = Len(queue[r]["compute"]) + Len(compute)
            /\ Len(queue[r]["comm"] \o comm) = Len(queue[r]["comm"]) + Len(comm)
        OBVIOUS
      <4>2. Len(queue[r]["compute"]) <= put[r]["compute"] /\ Len(queue[r]["comm"]) <= put[r]["comm"]
        OBVIOUS
      <4>3. Len(queue'[r]["compute"]) <= put'[r]["compute"]
        <5>1. Len(queue'[r]["compute"]) = Len(queue[r]["compute"]) + Len(compute)
          BY <1>1, <4>1
        <5>2. put'[r]["compute"] = put[r]["compute"] + Len(compute)
          BY <1>2
        <5> DEFINE a == Len(queue[r]["compute"])
                   b == put[r]["compute"]
                   c == Len(compute)
        <5>3. a \in Nat /\ b \in Nat /\ c \in Nat /\ a <= b
          BY <4>2
        <5> HIDE DEF a, b, c
        <5>4. a + c <= b + c
          BY <5>3, SMT
        <5> QED BY <5>1, <5>2, <5>4 DEF a, b, c
      <4>4. Len(queue'[r]["comm"]) <= put'[r]["comm"]
        <5>1. Len(queue'[r]["comm"]) = Len(queue[r]["comm"]) + Len(comm)
          BY <1>1, <4>1
        <5>2. put'[r]["comm"] = put[r]["comm"] + Len(comm)
          BY <1>2
        <5> DEFINE a == Len(queue[r]["comm"])
                   b == put[r]["comm"]
                   c == Len(comm)
        <5>3. a \in Nat /\ b \in Nat /\ c \in Nat /\ a <= b
          BY <4>2
        <5> HIDE DEF a, b, c
        <5>4. a + c <= b + c
          BY <5>3, SMT
        <5> QED BY <5>1, <5>2, <5>4 DEF a, b, c
      <4> QED BY <3>2, <4>3, <4>4
    <3> QED BY <3>1, <3>2
  <2> QED BY <2>1
<1>6. setup' = setup => Ubatches' = Ubatches /\ Ops' = Ops
  BY DEF Ubatches, Ops
<1> QED BY <1>1, <1>2, <1>3, <1>4, <1>5, <1>6

\* Short sequences of operations.
LEMMA ShortSequences ==
  ASSUME NEW o \in Ops, NEW p \in Ops
  PROVE  /\ << >> \in Seq(Ops) /\ << o >> \in Seq(Ops) /\ << o, p >> \in Seq(Ops)
         /\ Log(<< >>) \in Seq(Ops) /\ Log(<< o >>) \in Seq(Ops) /\ Log(<< o, p >>) \in Seq(Ops)
         /\ Len(<< >>) = 0 /\ Len(<< o >>) = 1 /\ Len(<< o, p >>) = 2
<1>1. << >> \in Seq(Ops) /\ << o >> \in Seq(Ops) /\ << o, p >> \in Seq(Ops) /\ << p >> \in Seq(Ops)
  OBVIOUS
<1> QED BY <1>1, LogShort

\* Every kind of operation.
AllKinds == Kinds \cup {"barrier"}

\* An operation's fields.
LEMMA OpTyped ==
  ASSUME NEW k \in Kinds \cup {"barrier"}, NEW u \in Ubatches, NEW l \in Nat, NEW after \in Nat,
         NEW arg \in OpArgs
  PROVE  /\ Op(k, u, l, after, arg) \in Ops
         /\ Op(k, u, l, after, arg).kind = k /\ Op(k, u, l, after, arg).ubatch = u
         /\ Op(k, u, l, after, arg).layer = l /\ Op(k, u, l, after, arg).after = after
         /\ Op(k, u, l, after, arg).arg = arg
BY DEF Op, Ops

\* Whom a yield gives the turn to.
NextTurn(u) == IF setup.dbo THEN 1 - u ELSE u

\* The switches of a configuration.
LEMMA SetupTyped ==
  ASSUME setup \in Setups
  PROVE  /\ setup.dbo \in BOOLEAN /\ setup.async \in BOOLEAN
         /\ setup.dbo => setup.async
BY LayerAssumption, SetupAssumption

\* A yield gives the turn to a thread that is there.
LEMMA NextTurnTyped ==
  ASSUME setup \in Setups, NEW u \in Ubatches
  PROVE  NextTurn(u) \in Ubatches /\ (~ setup.async => NextTurn(u) = u)
BY SetupTyped DEF Ubatches, NextTurn

Queued(r, compute, comm) ==
    /\ queue'[r]["compute"] = queue[r]["compute"] \o compute
    /\ queue'[r]["comm"] = queue[r]["comm"] \o comm
    /\ put'[r]["compute"] = put[r]["compute"] + Len(compute)
    /\ put'[r]["comm"] = put[r]["comm"] + Len(comm)
    /\ issued'[r] = issued[r] \o Log(compute) \o Log(comm)

\* What each step queues.
StartQueues(r, u) ==
    LET input == Op("input", u, layer[r][u], 0, None)
    IN  Queued(r, IF setup.async THEN << input >>
                  ELSE << input, Op("dispatch", u, layer[r][u], 0, None) >>, << >>)
DispatchQueues(r, u) ==
    Queued(r, << >>, << Op("dispatch", u, layer[r][u], mark[r][u], None) >>)
ExpertsQueues(r, u) ==
    Queued(r, << Op("experts", u, layer[r][u], IF setup.async THEN mark[r][u] ELSE 0,
                    rows'[r][u]) >>, << >>)
CombineQueues(r, u) ==
    LET combine(after) == Op("combine", u, layer[r][u], after, << handle[r][u], rows[r][u] >>)
        barrier == Op("barrier", u, layer[r][u], 0, None)
    IN  /\ ~ setup.async => Queued(r, << combine(0) >>, << >>)
        /\ setup.async /\ setup.timer # "barrier" => Queued(r, << >>, << combine(mark[r][u]) >>)
        /\ setup.dbo /\ setup.timer = "barrier" =>
                Queued(r, << >>, << barrier, combine(mark[r][u]) >>)
        /\ setup.async /\ ~ setup.dbo /\ setup.timer = "barrier" =>
                Queued(r, << barrier >>, << combine(put[r]["compute"] + 1) >>)
FinishQueues(r, u) ==
    LET copy(after) == Op("copy", u, layer[r][u], after, None)
        run == Op("shared", u, layer[r][u], 0, None)
    IN  /\ setup.dbo => Queued(r, << run >>, << copy(0) >>)
        /\ ~ setup.async => Queued(r, << copy(0), run >>, << >>)
        /\ setup.async /\ ~ setup.dbo =>
              \/ Queued(r, << copy(put[r]["comm"]), run >>, << >>)
              \/ Queued(r, << run, copy(put[r]["comm"]) >>, << >>)
SumQueues(r, u) == Queued(r, << Op("sum", u, layer[r][u], mark[r][u], None) >>, << >>)

\* A thread begins a layer.
LEMMA StartDoes ==
  ASSUME EPTypes, NEW r \in Ranks, NEW u \in Ubatches, Start(r, u)
  PROVE  /\ EPTypes' /\ HostFrame(r, u)
         /\ turn[r] = u /\ pc[r][u] = "start"
         /\ turn'[r] = NextTurn(u)
         /\ pc'[r][u] = IF setup.async THEN "dispatch" ELSE "experts"
         /\ layer'[r][u] = layer[r][u] /\ mark'[r][u] = put'[r]["compute"]
         /\ handles'[r][u] = handles[r][u]
         /\ StartQueues(r, u)
<1>1. u \in {0, 1} /\ None \in OpArgs /\ 0 \in Nat /\ layer[r][u] \in Nat
  BY DEF EPTypes, ThreadTypes, Ubatches, OpArgs
<1> DEFINE l == layer[r][u]
           input == Op("input", u, l, 0, None)
           dispatch == Op("dispatch", u, l, 0, None)
           compute == IF setup.async THEN << input >> ELSE << input, dispatch >>
<1>2. input \in Ops /\ dispatch \in Ops
  BY <1>1, OpTyped DEF Kinds
<1>3. Queue(r, compute, << >>) /\ setup' = setup
  BY DEF Start
<1>4. /\ mark' = [mark EXCEPT ![r][u] = put'[r].compute]
      /\ turn' = IF setup.async THEN [turn EXCEPT ![r] = NextTurn(u)] ELSE turn
      /\ pc' = [pc EXCEPT ![r][u] = IF setup.async THEN "dispatch" ELSE "experts"]
      /\ layer' = layer /\ handle' = handle /\ rows' = rows /\ handles' = handles
      /\ turn[r] = u /\ pc[r][u] = "start"
  BY DEF Start, Mark, Yield, Goto, Stay, At, NextTurn
<1> HIDE DEF input, dispatch
<1>5. /\ compute \in Seq(Ops) /\ << >> \in Seq(Ops) /\ Log(compute) \in Seq(Ops)
      /\ Log(<< >>) \in Seq(Ops)
  BY <1>2, ShortSequences
<1> HIDE DEF compute
<1>6. /\ DeviceTypes' /\ Queued(r, compute, << >>) /\ mem' = mem
      /\ \A q \in Ranks \ {r} :
                queue'[q] = queue[q] /\ put'[q] = put[q] /\ issued'[q] = issued[q]
  BY <1>3, <1>5, QueueAdds DEF Queued
<1>7. put'[r].compute \in Nat /\ put'[r].compute = put'[r]["compute"]
  BY <1>6 DEF DeviceTypes, Streams
<1>8. NextTurn(u) \in Ubatches /\ (~ setup.async => NextTurn(u) = u)
  BY NextTurnTyped DEF EPTypes, ThreadTypes
<1>9. ThreadTypes' /\ HostFrame(r, u)
  <2>1. Ubatches' = Ubatches
    BY <1>3 DEF Ubatches
  <2> QED BY <2>1, <1>3, <1>4, <1>6, <1>7, <1>8 DEF EPTypes, ThreadTypes, Places, HostFrame
<1>10. StartQueues(r, u)
  BY <1>6 DEF StartQueues, compute, input, dispatch
<1> QED BY <1>4, <1>6, <1>7, <1>8, <1>9, <1>10 DEF EPTypes, ThreadTypes

\* A thread queues its dispatch.
LEMMA DispatchDoes ==
  ASSUME EPTypes, NEW r \in Ranks, NEW u \in Ubatches, Dispatch(r, u)
  PROVE  /\ EPTypes' /\ HostFrame(r, u)
         /\ turn[r] = u /\ pc[r][u] = "dispatch" /\ turn'[r] = u /\ pc'[r][u] = "spin"
         /\ layer'[r][u] = layer[r][u] /\ mark'[r][u] = mark[r][u]
         /\ handles'[r][u] = handles[r][u]
         /\ DispatchQueues(r, u)
<1>1. u \in {0, 1} /\ None \in OpArgs /\ 0 \in Nat /\ layer[r][u] \in Nat /\ mark[r][u] \in Nat
  BY DEF EPTypes, ThreadTypes, Ubatches, OpArgs
<1> DEFINE comm == << Op("dispatch", u, layer[r][u], mark[r][u], None) >>
<1>2. Queue(r, << >>, comm) /\ setup' = setup
  BY DEF Dispatch
<1>3. /\ pc' = [pc EXCEPT ![r][u] = "spin"]
      /\ turn' = turn /\ mark' = mark
      /\ layer' = layer /\ handle' = handle /\ rows' = rows /\ handles' = handles
      /\ turn[r] = u /\ pc[r][u] = "dispatch"
  BY DEF Dispatch, Goto, At
<1>4. /\ comm \in Seq(Ops) /\ << >> \in Seq(Ops)
      /\ Log(comm) \in Seq(Ops) /\ Log(<< >>) \in Seq(Ops)
  <2>1. Op("dispatch", u, layer[r][u], mark[r][u], None) \in Ops
    BY <1>1, OpTyped DEF Kinds
  <2> QED BY <2>1, ShortSequences
<1> HIDE DEF comm
<1>5. /\ DeviceTypes' /\ Queued(r, << >>, comm) /\ mem' = mem
      /\ \A q \in Ranks \ {r} :
                queue'[q] = queue[q] /\ put'[q] = put[q] /\ issued'[q] = issued[q]
  BY <1>2, <1>4, QueueAdds DEF Queued
<1>6. ThreadTypes' /\ HostFrame(r, u)
  <2>1. Ubatches' = Ubatches
    BY <1>2 DEF Ubatches
  <2> QED BY <2>1, <1>2, <1>3, <1>5 DEF EPTypes, ThreadTypes, Places, HostFrame
<1>7. DispatchQueues(r, u)
  BY <1>5 DEF DispatchQueues, comm
<1> QED BY <1>3, <1>5, <1>6, <1>7 DEF EPTypes, ThreadTypes

\* A thread has its counts, and a handle.
LEMMA ReceiveDoes ==
  ASSUME EPTypes, NEW r \in Ranks, NEW u \in Ubatches, Receive(r, u)
  PROVE  /\ EPTypes' /\ HostFrame(r, u)
         /\ turn[r] = u /\ pc[r][u] = "spin" /\ turn'[r] = u /\ pc'[r][u] = "experts"
         /\ layer'[r][u] = layer[r][u] /\ mark'[r][u] = put[r]["comm"]
         /\ handles'[r][u] = layer[r][u]
         /\ queue' = queue /\ put' = put /\ issued' = issued
<1>1. u \in {0, 1} /\ None \in OpArgs /\ 0 \in Nat /\ layer[r][u] \in Nat /\ mark[r][u] \in Nat
  BY DEF EPTypes, ThreadTypes, Ubatches, OpArgs
<1>2. /\ pc' = [pc EXCEPT ![r][u] = "experts"]
      /\ mark' = [mark EXCEPT ![r][u] = put[r].comm]
      /\ handles' = [handles EXCEPT ![r][u] = layer[r][u]]
      /\ turn' = turn /\ setup' = setup
      /\ layer' = layer /\ handle' = handle /\ rows' = rows
      /\ queue' = queue /\ put' = put /\ issued' = issued /\ mem' = mem
      /\ turn[r] = u /\ pc[r][u] = "spin"
  BY DEF Receive, Goto, At, Stay, Mark, Dispatched, Slot, device
<1>3. put[r].comm \in Nat /\ put[r].comm = put[r]["comm"]
  BY DEF EPTypes, DeviceTypes, Streams
<1>4. Ubatches' = Ubatches /\ Ops' = Ops
  BY <1>2 DEF Ubatches, Ops
<1>5. DeviceTypes'
  BY <1>2, <1>4 DEF EPTypes, DeviceTypes
<1>6. ThreadTypes'
  BY <1>1, <1>2, <1>3, <1>4 DEF EPTypes, ThreadTypes, Places
<1>7. HostFrame(r, u) /\ mark'[r][u] = put[r]["comm"] /\ handles'[r][u] = layer[r][u]
  <2>1. \A v \in Ubatches : v \in {0, 1}
    BY DEF Ubatches
  <2> QED BY <1>1, <1>2, <1>3, <2>1 DEF EPTypes, ThreadTypes, HostFrame
<1> QED BY <1>2, <1>5, <1>6, <1>7 DEF EPTypes, ThreadTypes

\* A thread queues its experts, and reads the handle.
LEMMA ExpertsDoes ==
  ASSUME EPTypes, NEW r \in Ranks, NEW u \in Ubatches, Experts(r, u)
  PROVE  /\ EPTypes' /\ HostFrame(r, u)
         /\ turn[r] = u /\ pc[r][u] = "experts" /\ pc'[r][u] = "combine"
         /\ turn'[r] = NextTurn(u)
         /\ layer'[r][u] = layer[r][u] /\ mark'[r][u] = put'[r]["compute"]
         /\ handles'[r][u] = handles[r][u]
         /\ handle'[r][u] = IF setup.async THEN handles[r][u] ELSE layer[r][u]
         /\ rows'[r][u] \in Dests
         /\ ExpertsQueues(r, u)
<1>1. u \in {0, 1} /\ None \in OpArgs /\ 0 \in Nat /\ layer[r][u] \in Nat /\ mark[r][u] \in Nat
  BY DEF EPTypes, ThreadTypes, Ubatches, OpArgs
<1>2. PICK m \in Received(r) :
        /\ Queue(r, << Op("experts", u, layer[r][u], IF setup.async THEN mark[r][u] ELSE 0, m) >>,
                 << >>)
        /\ rows' = [rows EXCEPT ![r][u] = m]
        /\ Goto(r, u, AfterExperts(r, u, m))
  BY DEF Experts
<1> DEFINE after == IF setup.async THEN mark[r][u] ELSE 0
           compute == << Op("experts", u, layer[r][u], after, m) >>
<1>3. m \in Dests /\ m \in OpArgs /\ after \in Nat
  BY <1>1 DEF Received, Dests, OpArgs
<1>4. /\ handle' = [handle EXCEPT ![r][u] = IF setup.async THEN handles[r][u] ELSE layer[r][u]]
      /\ mark' = [mark EXCEPT ![r][u] = put'[r].compute]
      /\ turn' = IF setup.async THEN [turn EXCEPT ![r] = NextTurn(u)] ELSE turn
      /\ pc' = [pc EXCEPT ![r][u] = "combine"]
      /\ setup' = setup /\ layer' = layer /\ handles' = handles
      /\ turn[r] = u /\ pc[r][u] = "experts"
  BY <1>2 DEF Experts, Goto, At, Stay, Mark, Yield, Slot, AfterExperts, NextTurn
<1>5. /\ compute \in Seq(Ops) /\ << >> \in Seq(Ops) /\ Log(compute) \in Seq(Ops)
      /\ Log(<< >>) \in Seq(Ops)
  <2> HIDE DEF after
  <2>1. "experts" \in Kinds \cup {"barrier"}
    BY DEF Kinds
  <2>2. Op("experts", u, layer[r][u], after, m) \in Ops
    BY <1>1, <1>3, <2>1, OpTyped
  <2> QED BY <2>2, ShortSequences
<1> HIDE DEF compute
<1>6. /\ DeviceTypes' /\ Queued(r, compute, << >>) /\ mem' = mem
      /\ \A q \in Ranks \ {r} :
                queue'[q] = queue[q] /\ put'[q] = put[q] /\ issued'[q] = issued[q]
  <2>1. Queue(r, compute, << >>)
    BY <1>2 DEF compute
  <2> QED BY <1>4, <1>5, <2>1, QueueAdds DEF Queued
<1>7. put'[r].compute \in Nat /\ put'[r].compute = put'[r]["compute"]
  BY <1>6 DEF DeviceTypes, Streams
<1>8. NextTurn(u) \in Ubatches /\ (~ setup.async => NextTurn(u) = u) /\ handles[r][u] \in Nat
  BY <1>1, NextTurnTyped DEF EPTypes, ThreadTypes
<1>9. ThreadTypes'
  <2>1. Ubatches' = Ubatches
    BY <1>4 DEF Ubatches
  <2> QED BY <2>1, <1>1, <1>2, <1>3, <1>4, <1>7, <1>8 DEF EPTypes, ThreadTypes, Places
<1>10. HostFrame(r, u)
  BY <1>2, <1>4, <1>6 DEF EPTypes, ThreadTypes, HostFrame
<1>11. rows'[r][u] = m
  BY <1>2 DEF EPTypes, ThreadTypes
<1>12. ExpertsQueues(r, u)
  BY <1>6, <1>11 DEF ExpertsQueues, compute
<1> QED BY <1>3, <1>4, <1>6, <1>7, <1>8, <1>9, <1>10, <1>11, <1>12 DEF EPTypes, ThreadTypes

\* A thread queues its combine, behind the timer's barrier if there is one.
LEMMA CombineDoes ==
  ASSUME EPTypes, NEW r \in Ranks, NEW u \in Ubatches, Combine(r, u)
  PROVE  /\ EPTypes' /\ HostFrame(r, u)
         /\ turn[r] = u /\ pc[r][u] = "combine" /\ turn'[r] = u /\ pc'[r][u] = "finish"
         /\ layer'[r][u] = layer[r][u] /\ mark'[r][u] = mark[r][u]
         /\ handles'[r][u] = handles[r][u]
         /\ CombineQueues(r, u)
<1>1. u \in {0, 1} /\ None \in OpArgs /\ 0 \in Nat /\ layer[r][u] \in Nat /\ mark[r][u] \in Nat
  BY DEF EPTypes, ThreadTypes, Ubatches, OpArgs
<1> DEFINE combine(after) == Op("combine", u, layer[r][u], after, << handle[r][u], rows[r][u] >>)
           barrier == Op("barrier", u, layer[r][u], 0, None)
<1>2. /\ pc' = [pc EXCEPT ![r][u] = "finish"]
      /\ handle' = [handle EXCEPT ![r][u] = None]
      /\ rows' = [rows EXCEPT ![r][u] = "none"]
      /\ setup' = setup /\ layer' = layer /\ handles' = handles /\ mark' = mark /\ turn' = turn
      /\ turn[r] = u /\ pc[r][u] = "combine"
  BY DEF Combine, Goto, At
<1>3. put[r].compute = put[r]["compute"] /\ put[r]["compute"] \in Nat
  BY DEF EPTypes, DeviceTypes, Streams
<1>4. setup.dbo => setup.async
  BY SetupAssumption DEF EPTypes, ThreadTypes
<1>5. << handle[r][u], rows[r][u] >> \in OpArgs
  BY DEF EPTypes, ThreadTypes, OpArgs
<1>6. barrier \in Ops /\ \A a \in Nat : combine(a) \in Ops
  <2>1. barrier \in Ops
    BY <1>1, OpTyped DEF Kinds
  <2>2. ASSUME NEW a \in Nat PROVE combine(a) \in Ops
    <3> DEFINE arg == << handle[r][u], rows[r][u] >>
    <3>1. arg \in OpArgs /\ "combine" \in Kinds \cup {"barrier"}
      BY <1>5 DEF Kinds
    <3> HIDE DEF arg
    <3>2. Op("combine", u, layer[r][u], a, arg) \in Ops
      BY <1>1, <3>1, OpTyped
    <3> QED BY <3>2 DEF arg
  <2> QED BY <2>1, <2>2
<1>7. [combine(mark[r][u]) EXCEPT !.after = put[r].compute + 1] = combine(put[r]["compute"] + 1)
  BY <1>3 DEF Op
<1> HIDE DEF combine, barrier
<1>8. /\ ~ setup.async => Queue(r, << combine(0) >>, << >>)
      /\ setup.async /\ setup.timer # "barrier" => Queue(r, << >>, << combine(mark[r][u]) >>)
      /\ setup.dbo /\ setup.timer = "barrier" =>
              Queue(r, << >>, << barrier, combine(mark[r][u]) >>)
      /\ setup.async /\ ~ setup.dbo /\ setup.timer = "barrier" =>
              Queue(r, << barrier >>, << combine(put[r]["compute"] + 1) >>)
  <2>1. CASE ~ setup.async
    <3>1. CombineOps(r, u) = [compute |-> << >>, comm |-> << combine(0) >>]
      BY <2>1 DEF CombineOps, combine
    <3>2. Queue(r, << >> \o << combine(0) >>, << >>)
      BY <2>1, <3>1 DEF Combine
    <3> QED BY <1>4, <2>1, <3>2
  <2>2. CASE setup.async /\ setup.timer # "barrier"
    <3>1. CombineOps(r, u) = [compute |-> << >>, comm |-> << combine(mark[r][u]) >>]
      BY <2>2 DEF CombineOps, combine
    <3>2. Queue(r, << >>, << combine(mark[r][u]) >>)
      BY <2>2, <3>1 DEF Combine
    <3> QED BY <2>2, <3>2
  <2>3. CASE setup.dbo /\ setup.timer = "barrier"
    <3>1. CombineOps(r, u) = [compute |-> << >>, comm |-> << barrier, combine(mark[r][u]) >>]
      BY <1>4, <2>3 DEF CombineOps, combine, barrier
    <3>2. Queue(r, << >>, << barrier, combine(mark[r][u]) >>)
      BY <1>4, <2>3, <3>1 DEF Combine
    <3> QED BY <1>4, <2>3, <3>2
  <2>4. CASE setup.async /\ ~ setup.dbo /\ setup.timer = "barrier"
    <3>1. CombineOps(r, u) = [compute |-> << barrier >>,
                              comm |-> << combine(put[r]["compute"] + 1) >>]
      BY <1>7, <2>4 DEF CombineOps, combine, barrier
    <3>2. Queue(r, << barrier >>, << combine(put[r]["compute"] + 1) >>)
      BY <2>4, <3>1 DEF Combine
    <3> QED BY <2>4, <3>2
  <2> QED BY <1>4, <2>1, <2>2, <2>3, <2>4
<1>9. ASSUME NEW compute \in Seq(Ops), NEW comm \in Seq(Ops), Log(compute) \in Seq(Ops),
             Log(comm) \in Seq(Ops), Queue(r, compute, comm)
      PROVE  /\ DeviceTypes' /\ Queued(r, compute, comm) /\ mem' = mem
             /\ \A q \in Ranks \ {r} :
                    queue'[q] = queue[q] /\ put'[q] = put[q] /\ issued'[q] = issued[q]
  BY <1>2, <1>9, QueueAdds DEF Queued
<1>10. ASSUME NEW a \in Nat
       PROVE  /\ << >> \in Seq(Ops) /\ << combine(a) >> \in Seq(Ops) /\ << barrier >> \in Seq(Ops)
              /\ << barrier, combine(a) >> \in Seq(Ops)
              /\ Log(<< >>) \in Seq(Ops) /\ Log(<< combine(a) >>) \in Seq(Ops)
              /\ Log(<< barrier >>) \in Seq(Ops) /\ Log(<< barrier, combine(a) >>) \in Seq(Ops)
  BY <1>6, ShortSequences
<1>11. put[r]["compute"] + 1 \in Nat
  BY <1>3
<1>12. /\ ~ setup.async => Queued(r, << combine(0) >>, << >>)
       /\ setup.async /\ setup.timer # "barrier" => Queued(r, << >>, << combine(mark[r][u]) >>)
       /\ setup.dbo /\ setup.timer = "barrier" =>
               Queued(r, << >>, << barrier, combine(mark[r][u]) >>)
       /\ setup.async /\ ~ setup.dbo /\ setup.timer = "barrier" =>
               Queued(r, << barrier >>, << combine(put[r]["compute"] + 1) >>)
  BY <1>1, <1>8, <1>9, <1>10, <1>11
<1>13. /\ DeviceTypes' /\ mem' = mem
       /\ \A q \in Ranks \ {r} :
              queue'[q] = queue[q] /\ put'[q] = put[q] /\ issued'[q] = issued[q]
  BY <1>1, <1>4, <1>8, <1>9, <1>10, <1>11
<1>14. ThreadTypes' /\ HostFrame(r, u)
  <2>1. Ubatches' = Ubatches
    BY <1>2 DEF Ubatches
  <2>2. None \in Nat /\ "none" \in Dests
    BY DEF None, Dests
  <2> QED BY <2>1, <2>2, <1>2, <1>13 DEF EPTypes, ThreadTypes, Places, HostFrame
<1>15. CombineQueues(r, u)
  BY <1>12 DEF CombineQueues, combine, barrier
<1> QED BY <1>2, <1>13, <1>14, <1>15 DEF EPTypes, ThreadTypes

\* A thread queues the shared experts and the copy of the combined rows.
LEMMA FinishDoes ==
  ASSUME EPTypes, NEW r \in Ranks, NEW u \in Ubatches, Finish(r, u)
  PROVE  /\ EPTypes' /\ HostFrame(r, u)
         /\ turn[r] = u /\ pc[r][u] = "finish" /\ pc'[r][u] = "sum"
         /\ turn'[r] = NextTurn(u)
         /\ layer'[r][u] = layer[r][u]
         /\ mark'[r][u] = IF setup.dbo THEN put'[r]["comm"] ELSE 0
         /\ handles'[r][u] = handles[r][u]
         /\ FinishQueues(r, u)
<1>1. u \in {0, 1} /\ None \in OpArgs /\ 0 \in Nat /\ layer[r][u] \in Nat /\ mark[r][u] \in Nat
  BY DEF EPTypes, ThreadTypes, Ubatches, OpArgs
<1> DEFINE copy(after) == Op("copy", u, layer[r][u], after, None)
           run == Op("shared", u, layer[r][u], 0, None)
<1>2. /\ pc' = [pc EXCEPT ![r][u] = "sum"]
      /\ mark' = [mark EXCEPT ![r][u] = IF setup.dbo THEN put'[r].comm ELSE 0]
      /\ turn' = [turn EXCEPT ![r] = NextTurn(u)]
      /\ setup' = setup /\ layer' = layer /\ handles' = handles /\ handle' = handle /\ rows' = rows
      /\ turn[r] = u /\ pc[r][u] = "finish"
  BY DEF Finish, Goto, At, Mark, Yield, NextTurn
<1>3. put[r].comm = put[r]["comm"] /\ put[r]["comm"] \in Nat
  BY DEF EPTypes, DeviceTypes, Streams
<1>4. (setup.dbo => setup.async) /\ NextTurn(u) \in Ubatches
  BY SetupTyped, NextTurnTyped DEF EPTypes, ThreadTypes
<1>5. run \in Ops /\ \A a \in Nat : copy(a) \in Ops
  BY <1>1, OpTyped DEF Kinds
<1>6. /\ setup.dbo => Queue(r, << run >>, << copy(0) >>)
      /\ ~ setup.async => Queue(r, << copy(0), run >>, << >>)
      /\ setup.async /\ ~ setup.dbo => \/ Queue(r, << copy(put[r]["comm"]), run >>, << >>)
                                     \/ Queue(r, << run, copy(put[r]["comm"]) >>, << >>)
  BY <1>3, <1>4 DEF Finish, CopyAfter
<1> HIDE DEF copy, run
<1>7. ASSUME NEW compute \in Seq(Ops), NEW comm \in Seq(Ops), Log(compute) \in Seq(Ops),
             Log(comm) \in Seq(Ops), Queue(r, compute, comm)
      PROVE  /\ DeviceTypes' /\ Queued(r, compute, comm) /\ mem' = mem
             /\ \A q \in Ranks \ {r} :
                    queue'[q] = queue[q] /\ put'[q] = put[q] /\ issued'[q] = issued[q]
  BY <1>2, <1>7, QueueAdds DEF Queued
<1>8. ASSUME NEW a \in Nat
      PROVE  /\ << >> \in Seq(Ops) /\ << copy(a) >> \in Seq(Ops) /\ << run >> \in Seq(Ops)
             /\ << run, copy(a) >> \in Seq(Ops) /\ << copy(a), run >> \in Seq(Ops)
             /\ Log(<< >>) \in Seq(Ops) /\ Log(<< copy(a) >>) \in Seq(Ops)
             /\ Log(<< run >>) \in Seq(Ops) /\ Log(<< run, copy(a) >>) \in Seq(Ops)
             /\ Log(<< copy(a), run >>) \in Seq(Ops)
  BY <1>5, ShortSequences
<1>9. /\ setup.dbo => Queued(r, << run >>, << copy(0) >>)
      /\ ~ setup.async => Queued(r, << copy(0), run >>, << >>)
      /\ setup.async /\ ~ setup.dbo => \/ Queued(r, << copy(put[r]["comm"]), run >>, << >>)
                                     \/ Queued(r, << run, copy(put[r]["comm"]) >>, << >>)
  BY <1>1, <1>3, <1>6, <1>7, <1>8
<1>10. /\ DeviceTypes' /\ mem' = mem
       /\ \A q \in Ranks \ {r} :
              queue'[q] = queue[q] /\ put'[q] = put[q] /\ issued'[q] = issued[q]
  BY <1>1, <1>3, <1>4, <1>6, <1>7, <1>8
<1>11. put'[r].comm = put'[r]["comm"] /\ put'[r]["comm"] \in Nat
  BY <1>10 DEF DeviceTypes, Streams
<1>12. ThreadTypes' /\ HostFrame(r, u)
  <2>1. Ubatches' = Ubatches
    BY <1>2 DEF Ubatches
  <2> QED BY <2>1, <1>1, <1>2, <1>4, <1>10, <1>11 DEF EPTypes, ThreadTypes, Places, HostFrame
<1>13. FinishQueues(r, u)
  BY <1>9 DEF FinishQueues, copy, run
<1> QED BY <1>2, <1>4, <1>10, <1>11, <1>12, <1>13 DEF EPTypes, ThreadTypes

\* A thread adds the halves, and goes to the next layer or gives its turn away.
LEMMA SumDoes ==
  ASSUME EPTypes, NEW r \in Ranks, NEW u \in Ubatches, Sum(r, u)
  PROVE  /\ EPTypes' /\ HostFrame(r, u)
         /\ turn[r] = u /\ pc[r][u] = "sum"
         /\ IF layer[r][u] < Layers
            THEN layer'[r][u] = layer[r][u] + 1 /\ turn'[r] = u /\ pc'[r][u] = "start"
            ELSE /\ layer'[r][u] = layer[r][u] /\ pc'[r][u] = "done"
                 /\ turn'[r] = NextTurn(u)
         /\ mark'[r][u] = mark[r][u] /\ handles'[r][u] = handles[r][u]
         /\ SumQueues(r, u)
<1>1. u \in {0, 1} /\ None \in OpArgs /\ 0 \in Nat /\ layer[r][u] \in Nat /\ mark[r][u] \in Nat
  BY DEF EPTypes, ThreadTypes, Ubatches, OpArgs
<1> DEFINE compute == << Op("sum", u, layer[r][u], mark[r][u], None) >>
<1>2. Queue(r, compute, << >>) /\ setup' = setup
  BY DEF Sum
<1> DEFINE more == layer[r][u] < Layers
           place == IF more THEN "start" ELSE "done"
           l == IF more THEN layer[r][u] + 1 ELSE layer[r][u]
           next == IF more THEN u ELSE NextTurn(u)
<1>3. /\ pc' = [pc EXCEPT ![r][u] = place]
      /\ layer' = [layer EXCEPT ![r][u] = l]
      /\ turn' = [turn EXCEPT ![r] = next]
      /\ mark' = mark /\ handle' = handle /\ rows' = rows /\ handles' = handles
      /\ turn[r] = u /\ pc[r][u] = "sum"
  <2>1. CASE more
    <3>1. layer' = [layer EXCEPT ![r][u] = layer[r][u] + 1] /\ turn' = turn
          /\ pc' = [pc EXCEPT ![r][u] = "start"] /\ turn[r] = u
      BY <2>1 DEF Sum, Goto, Stay, At
    <3>2. turn = [turn EXCEPT ![r] = u]
      BY <3>1 DEF EPTypes, ThreadTypes
    <3> QED BY <2>1, <3>1, <3>2 DEF Sum, At
  <2>2. CASE ~ more
    <3>1. layer' = layer /\ turn' = [turn EXCEPT ![r] = NextTurn(u)]
          /\ pc' = [pc EXCEPT ![r][u] = "done"]
      BY <2>2 DEF Sum, Goto, Yield, NextTurn
    <3>2. layer = [layer EXCEPT ![r][u] = layer[r][u]]
      BY DEF EPTypes, ThreadTypes
    <3> QED BY <2>2, <3>1, <3>2 DEF Sum, At
  <2> QED BY <2>1, <2>2
<1>4. /\ compute \in Seq(Ops) /\ << >> \in Seq(Ops)
      /\ Log(compute) \in Seq(Ops) /\ Log(<< >>) \in Seq(Ops)
  <2>1. Op("sum", u, layer[r][u], mark[r][u], None) \in Ops
    BY <1>1, OpTyped DEF Kinds
  <2> QED BY <2>1, ShortSequences
<1> HIDE DEF compute
<1>5. /\ DeviceTypes' /\ Queued(r, compute, << >>) /\ mem' = mem
      /\ \A q \in Ranks \ {r} :
                queue'[q] = queue[q] /\ put'[q] = put[q] /\ issued'[q] = issued[q]
  BY <1>2, <1>4, QueueAdds DEF Queued
<1>6. place \in Places /\ l \in Nat \ {0} /\ next \in Ubatches
  <2>1. place \in Places
    BY DEF Places
  <2>2. l \in Nat \ {0}
    BY <1>1 DEF EPTypes, ThreadTypes
  <2>3. next \in Ubatches
    BY NextTurnTyped DEF EPTypes, ThreadTypes
  <2> QED BY <2>1, <2>2, <2>3
<1>7. IF layer[r][u] < Layers THEN l = layer[r][u] + 1 /\ next = u /\ place = "start"
      ELSE l = layer[r][u] /\ place = "done" /\ next = NextTurn(u)
  OBVIOUS
<1> HIDE DEF place, l, next, more
<1>8. ThreadTypes' /\ HostFrame(r, u)
  <2>1. Ubatches' = Ubatches
    BY <1>2 DEF Ubatches
  <2> QED BY <2>1, <1>2, <1>3, <1>5, <1>6 DEF EPTypes, ThreadTypes, HostFrame
<1>9. pc'[r][u] = place /\ layer'[r][u] = l /\ turn'[r] = next
  BY <1>3 DEF EPTypes, ThreadTypes
<1>10. SumQueues(r, u)
  BY <1>5 DEF SumQueues, compute
<1> QED BY <1>3, <1>5, <1>7, <1>8, <1>9, <1>10 DEF EPTypes, ThreadTypes

\* The device does what is at the head of stream s of the ranks R.
DeviceStep(R, s) ==
    /\ \A r \in R : Ready(r, s)
    /\ Advance(R, s) /\ Perform(R, s)
    /\ UNCHANGED << setup, threads, handles, put, issued, probes >>

\* An operation leaves layers in the buffers.
LEMMA EffectTyped ==
  ASSUME EPTypes, NEW r \in Ranks, NEW o \in Ops
  PROVE  Effect(r, o) \in [Buffers -> Int]
<1>1. mem[r][o.ubatch] \in [Buffers -> Int] /\ o.layer \in Int /\ o.kind \in Kinds \cup {"barrier"}
  BY DEF EPTypes, DeviceTypes, Ops
<1> DEFINE m == mem[r][o.ubatch]
<1>2. ASSUME NEW c PROVE If(c, o.layer) \in Int
  BY <1>1 DEF If, Bad
<1>3. ASSUME NEW b, NEW x \in Int PROVE [m EXCEPT ![b] = x] \in [Buffers -> Int]
  BY <1>1
<1>4. {"x", "recv", "combined", "output", "shared", "sum", "ws"} = Buffers
  BY DEF Buffers
<1>5. ASSUME NEW x \in Int, NEW y \in Int
      PROVE [m EXCEPT !["sum"] = x, !["ws"] = y] \in [Buffers -> Int]
  BY <1>1
<1>6. m["combined"] \in Int /\ m["x"] \in Int
  BY <1>1, <1>4
<1>7. m.combined = m["combined"] /\ m.x = m["x"]
  BY <1>1, <1>4
<1> QED
  <2>1. CASE o.kind = "input"
    <3>1. Effect(r, o) = [m EXCEPT !["x"] = If(Holds(r, o.ubatch, "sum", o.layer - 1), o.layer)]
      BY <2>1 DEF Effect
    <3> QED BY <1>2, <1>3, <3>1
  <2>2. CASE o.kind = "experts"
    <3>1. \/ Effect(r, o) = m
          \/ Effect(r, o) = [m EXCEPT ![o.arg] = If(Holds(r, o.ubatch, "recv", o.layer), o.layer)]
      BY <2>2 DEF Effect
    <3> QED BY <1>1, <1>2, <1>3, <3>1
  <2>3. CASE o.kind = "copy"
    <3>1. Effect(r, o) = [m EXCEPT !["output"] = m["combined"]]
      BY <2>3, <1>7 DEF Effect
    <3> QED BY <1>3, <1>6, <3>1
  <2>4. CASE o.kind = "shared"
    <3>1. Effect(r, o) = [m EXCEPT !["shared"] = m["x"]]
      BY <2>4, <1>7 DEF Effect
    <3> QED BY <1>3, <1>6, <3>1
  <2>5. CASE o.kind = "sum"
    <3> DEFINE fine == /\ Holds(r, o.ubatch, "output", o.layer)
                       /\ Holds(r, o.ubatch, "shared", o.layer)
    <3>1. Effect(r, o) = [m EXCEPT !["sum"] = If(fine, o.layer), !["ws"] = None]
      BY <2>5 DEF Effect
    <3> HIDE DEF fine
    <3> QED BY <1>2, <1>5, <3>1 DEF None
  <2>6. CASE o.kind = "dispatch"
    <3> DEFINE fine == \A q \in Ranks : Holds(q, o.ubatch, "x", o.layer)
    <3>1. Effect(r, o) = [m EXCEPT !["recv"] = If(fine, o.layer)]
      BY <2>6 DEF Effect
    <3> HIDE DEF fine
    <3> QED BY <1>2, <1>3, <3>1
  <2>7. CASE o.kind = "barrier"
    BY <1>1, <2>7 DEF Effect
  <2>8. CASE o.kind = "combine"
    <3> DEFINE fine == \A q \in Ranks :
                    LET a == Head(queue[q][IF setup.async THEN "comm" ELSE "compute"]).arg
                    IN  a[1] = o.layer /\ (a[2] = "none" \/ Holds(q, o.ubatch, a[2], o.layer))
    <3>1. Effect(r, o) = [m EXCEPT !["combined"] = If(fine, o.layer)]
      BY <2>8 DEF Effect
    <3> HIDE DEF fine
    <3> QED BY <1>2, <1>3, <3>1
  <2> QED BY <1>1, <2>1, <2>2, <2>3, <2>4, <2>5, <2>6, <2>7, <2>8 DEF Kinds

\* What a step of the device changes.
LEMMA DeviceDoes ==
  ASSUME EPTypes, NEW R \in SUBSET Ranks, NEW s \in Streams, DeviceStep(R, s)
  PROVE  /\ EPTypes'
         /\ \A r \in Ranks \ R : queue'[r] = queue[r] /\ mem'[r] = mem[r]
         /\ \A r \in R :
                /\ queue[r][s] # << >> /\ Head(queue[r][s]) \in Ops
                /\ queue'[r][s] = Tail(queue[r][s])
                /\ \A t \in Streams \ {s} : queue'[r][t] = queue[r][t]
                /\ mem'[r] = [mem[r] EXCEPT ![Head(queue[r][s]).ubatch] =
                                  Effect(r, Head(queue[r][s]))]
<1>1. ASSUME NEW r \in R
      PROVE  /\ queue[r][s] # << >> /\ Head(queue[r][s]) \in Ops /\ Tail(queue[r][s]) \in Seq(Ops)
             /\ Len(Tail(queue[r][s])) <= Len(queue[r][s])
  <2>1. queue[r][s] \in Seq(Ops) /\ queue[r][s] # << >>
    BY DEF DeviceStep, Ready, EPTypes, DeviceTypes
  <2> DEFINE ops == queue[r][s]
  <2> HIDE DEF ops
  <2>2. ops \in Seq(Ops) /\ ops # << >>
    BY <2>1 DEF ops
  <2>3. Head(ops) \in Ops /\ Tail(ops) \in Seq(Ops) /\ Len(Tail(ops)) <= Len(ops)
    BY <2>2
  <2> QED BY <2>2, <2>3 DEF ops
<1>2. /\ \A r \in Ranks \ R : queue'[r] = queue[r] /\ mem'[r] = mem[r]
      /\ \A r \in R :
            /\ queue'[r] = [queue[r] EXCEPT ![s] = Tail(queue[r][s])]
            /\ mem'[r] = [mem[r] EXCEPT ![Head(queue[r][s]).ubatch] =
                                  Effect(r, Head(queue[r][s]))]
      /\ DOMAIN queue' = Ranks /\ DOMAIN mem' = Ranks
      /\ queue' = [r \in Ranks |-> queue'[r]] /\ mem' = [r \in Ranks |-> mem'[r]]
  BY DEF DeviceStep, Advance, Perform
<1>3. \A r \in R : /\ queue'[r] \in [Streams -> Seq(Ops)]
                   /\ queue'[r][s] = Tail(queue[r][s])
                   /\ \A t \in Streams \ {s} : queue'[r][t] = queue[r][t]
  <2> SUFFICES ASSUME NEW r \in R
               PROVE  /\ queue'[r] \in [Streams -> Seq(Ops)]
                      /\ queue'[r][s] = Tail(queue[r][s])
                      /\ \A t \in Streams \ {s} : queue'[r][t] = queue[r][t]
    OBVIOUS
  <2> DEFINE q == queue[r]
             tail == Tail(queue[r][s])
  <2>1. q \in [Streams -> Seq(Ops)] /\ tail \in Seq(Ops)
    BY <1>1 DEF EPTypes, DeviceTypes
  <2>2. queue'[r] = [q EXCEPT ![s] = tail]
    BY <1>2
  <2> HIDE DEF q, tail
  <2>3. queue'[r] \in [Streams -> Seq(Ops)] /\ queue'[r][s] = tail
        /\ \A t \in Streams \ {s} : queue'[r][t] = q[t]
    BY <2>1, <2>2
  <2> QED BY <2>3 DEF q, tail
<1>4. \A r \in R : mem'[r] \in [Ubatches -> [Buffers -> Int]]
  <2> SUFFICES ASSUME NEW r \in R PROVE mem'[r] \in [Ubatches -> [Buffers -> Int]]
    OBVIOUS
  <2> DEFINE effect == Effect(r, Head(queue[r][s]))
  <2>1. effect \in [Buffers -> Int]
    BY <1>1, EffectTyped
  <2>2. mem'[r] = [mem[r] EXCEPT ![Head(queue[r][s]).ubatch] = effect]
    BY <1>2
  <2>3. mem[r] \in [Ubatches -> [Buffers -> Int]]
    BY DEF EPTypes, DeviceTypes
  <2> HIDE DEF effect
  <2> QED BY <2>1, <2>2, <2>3
<1>5. \A r \in Ranks \ R : /\ queue'[r] \in [Streams -> Seq(Ops)]
                            /\ mem'[r] \in [Ubatches -> [Buffers -> Int]]
  BY <1>2 DEF EPTypes, DeviceTypes
<1>6. /\ queue' \in [Ranks -> [Streams -> Seq(Ops)]]
      /\ mem' \in [Ranks -> [Ubatches -> [Buffers -> Int]]]
  BY <1>2, <1>3, <1>4, <1>5
<1>7. ASSUME NEW r \in Ranks, NEW t \in Streams PROVE Len(queue'[r][t]) <= put[r][t]
  <2>1. Len(queue[r][t]) \in Nat /\ Len(queue[r][t]) <= put[r][t] /\ put[r][t] \in Nat
    BY DEF EPTypes, DeviceTypes
  <2>2. Len(queue'[r][t]) \in Nat
    BY <1>6
  <2>3. Len(queue'[r][t]) <= Len(queue[r][t])
    <3>1. CASE r \in R /\ t = s
      BY <1>1, <1>3, <3>1
    <3>2. CASE ~ (r \in R /\ t = s)
      <4>1. queue'[r][t] = queue[r][t]
        BY <1>2, <1>3, <3>2
      <4> QED BY <2>1, <4>1
    <3> QED BY <3>1, <3>2
  <2> QED BY <2>1, <2>2, <2>3
<1>8. setup' = setup /\ put' = put /\ issued' = issued /\ handles' = handles
      /\ turn' = turn /\ pc' = pc /\ layer' = layer /\ mark' = mark /\ handle' = handle
      /\ rows' = rows
  BY DEF DeviceStep, threads
<1>9. Ubatches' = Ubatches /\ Ops' = Ops
  BY <1>8 DEF Ubatches, Ops
<1>10. DeviceTypes' /\ ThreadTypes'
  BY <1>6, <1>7, <1>8, <1>9 DEF EPTypes, DeviceTypes, ThreadTypes
<1> QED BY <1>1, <1>2, <1>3, <1>10 DEF EPTypes

-----------------------------------------------------------------------------
(* The collectives.                                                          *)

EPSpec == Init /\ [][Next]_vars

Barriers == setup.timer = "barrier" /\ setup.async

\* What one layer queues on every rank, and how much of it each thread.
Each == IF Barriers THEN 3 ELSE 2
Width == IF setup.dbo THEN 2 * Each ELSE Each
Round ==
    IF setup.dbo
    THEN IF Barriers
         THEN << << "dispatch", 0 >>, << "dispatch", 1 >>, << "barrier", 0 >>, << "combine", 0 >>,
                 << "barrier", 1 >>, << "combine", 1 >> >>
         ELSE << << "dispatch", 0 >>, << "dispatch", 1 >>, << "combine", 0 >>, << "combine", 1 >> >>
    ELSE IF Barriers THEN << << "dispatch", 0 >>, << "barrier", 0 >>, << "combine", 0 >> >>
         ELSE << << "dispatch", 0 >>, << "combine", 0 >> >>

\* Operation o is the j-th collective of layer l.
Matches(o, l, j) == o.kind = Round[j][1] /\ o.ubatch = Round[j][2] /\ o.layer = l

InCourse(r) ==
    \A i \in 1..Len(issued[r]) :
        Matches(issued[r][i], ((i - 1) \div Width) + 1, ((i - 1) % Width) + 1)

\* How many collectives of its layer a thread has queued.
Past(p) == IF p \in {"start", "dispatch"} THEN 0
           ELSE IF p \in {"spin", "experts", "combine"} THEN 1 ELSE Each
Count(r, u) == Each * (layer[r][u] - 1) + Past(pc[r][u])
Complete(r) == Len(issued[r]) = IF setup.dbo THEN Count(r, 0) + Count(r, 1) ELSE Count(r, 0)

\* Where the two threads of a rank are: whose turn it is, and their places in one layer,
\* or with the first a layer ahead.
SameLayer ==
    {<< 0, "start", "start" >>, << 1, "dispatch", "start" >>, << 0, "dispatch", "dispatch" >>,
     << 0, "spin", "dispatch" >>, << 0, "experts", "dispatch" >>, << 1, "combine", "dispatch" >>,
     << 1, "combine", "spin" >>, << 1, "combine", "experts" >>, << 0, "combine", "combine" >>,
     << 0, "finish", "combine" >>, << 1, "sum", "combine" >>, << 1, "sum", "finish" >>,
     << 0, "sum", "sum" >>, << 1, "done", "sum" >>, << 0, "done", "done" >>}
LayerAhead == {<< 0, "start", "sum" >>, << 1, "dispatch", "sum" >>}

InTurn(r) ==
    /\ \A u \in Ubatches : layer[r][u] <= Layers /\ (pc[r][u] = "done" => layer[r][u] = Layers)
    /\ IF setup.dbo
       THEN LET now == << turn[r], pc[r][0], pc[r][1] >>
            IN  \/ layer[r][0] = layer[r][1] /\ now \in SameLayer
                \/ layer[r][0] = layer[r][1] + 1 /\ now \in LayerAhead
       ELSE ~ setup.async => pc[r][0] \notin {"dispatch", "spin"}

Concerted(r) == InTurn(r) /\ Complete(r) /\ InCourse(r)

\* Counting in rounds.
LEMMA RoundArithmetic ==
  ASSUME NEW w \in {2, 3, 4, 6}, NEW l \in Nat \ {0}, NEW j \in 1..w
  PROVE  /\ ((w * (l - 1) + j - 1) \div w) + 1 = l
         /\ ((w * (l - 1) + j - 1) % w) + 1 = j
<1>1. CASE w = 2
  BY <1>1, SMT
<1>2. CASE w = 3
  BY <1>2, SMT
<1>3. CASE w = 4
  BY <1>3, SMT
<1>4. CASE w = 6
  BY <1>4, SMT
<1> QED BY <1>1, <1>2, <1>3, <1>4

\* A step of a thread leaves the rest alone.
LEMMA HostFrames ==
  ASSUME EPTypes, NEW r \in Ranks, NEW u \in Ubatches, Host(r, u)
  PROVE  EPTypes' /\ HostFrame(r, u) /\ turn[r] = u
<1>1. CASE Start(r, u)
  BY <1>1, StartDoes
<1>2. CASE Dispatch(r, u)
  BY <1>2, DispatchDoes
<1>3. CASE Receive(r, u)
  BY <1>3, ReceiveDoes
<1>4. CASE Experts(r, u)
  BY <1>4, ExpertsDoes
<1>5. CASE Combine(r, u)
  BY <1>5, CombineDoes
<1>6. CASE Finish(r, u)
  BY <1>6, FinishDoes
<1>7. CASE Sum(r, u)
  BY <1>7, SumDoes
<1> QED BY <1>1, <1>2, <1>3, <1>4, <1>5, <1>6, <1>7 DEF Host

\* A thread goes on in its turn.
LEMMA HostInTurn ==
  ASSUME EPTypes, NEW r \in Ranks, NEW u \in Ubatches, InTurn(r), Host(r, u)
  PROVE  InTurn(r)'
<1>0. setup.dbo \in BOOLEAN /\ setup.async \in BOOLEAN
  BY SetupTyped DEF EPTypes, ThreadTypes
<1>1. /\ setup' = setup /\ u \in {0, 1} /\ (~ setup.dbo => u = 0) /\ Layers \in Nat
      /\ (setup.dbo => setup.async) /\ Ubatches' = Ubatches
      /\ \A v \in Ubatches \ {u} : pc'[r][v] = pc[r][v] /\ layer'[r][v] = layer[r][v]
      /\ turn[r] = u
  <2>1. HostFrame(r, u) /\ turn[r] = u
    BY HostFrames
  <2>2. setup.dbo => setup.async
    BY SetupAssumption DEF EPTypes, ThreadTypes
  <2> QED BY <2>1, <2>2, LayerAssumption DEF HostFrame, Ubatches
<1>2. CASE setup.dbo
  <2>1. Ubatches = {0, 1}
    BY <1>2 DEF Ubatches
  <2> DEFINE now == << turn[r], pc[r][0], pc[r][1] >>
             next == << turn'[r], pc'[r][0], pc'[r][1] >>
  <2>2. \/ layer[r][0] = layer[r][1] /\ now \in SameLayer
        \/ layer[r][0] = layer[r][1] + 1 /\ now \in LayerAhead
    BY <1>2 DEF InTurn
  <2>3. /\ layer[r][0] \in Nat /\ layer[r][1] \in Nat
        /\ layer[r][0] <= Layers /\ layer[r][1] <= Layers
        /\ pc[r][0] = "done" => layer[r][0] = Layers
        /\ pc[r][1] = "done" => layer[r][1] = Layers
    BY <2>1 DEF InTurn, EPTypes, ThreadTypes
  <2>4. /\ \/ layer'[r][0] = layer'[r][1] /\ next \in SameLayer
           \/ layer'[r][0] = layer'[r][1] + 1 /\ next \in LayerAhead
        /\ layer'[r][0] <= Layers /\ layer'[r][1] <= Layers
        /\ pc'[r][0] = "done" => layer'[r][0] = Layers
        /\ pc'[r][1] = "done" => layer'[r][1] = Layers
    <3>1. ASSUME pc[r][u] # "sum", layer'[r][u] = layer[r][u], pc'[r][u] # "done",
                 << pc[r][u], pc'[r][u], turn'[r] >> \in
                    {<< "start", "dispatch", 1 - u >>, << "dispatch", "spin", u >>,
                     << "spin", "experts", u >>, << "experts", "combine", 1 - u >>,
                     << "combine", "finish", u >>, << "finish", "sum", 1 - u >>}
          PROVE  <2>4
      <4>1. CASE u = 0
        <5>1. pc'[r][1] = pc[r][1] /\ layer'[r][1] = layer[r][1] /\ turn[r] = 0
              /\ layer'[r][0] = layer[r][0]
          BY <1>1, <2>1, <3>1, <4>1
        <5> QED BY <2>2, <2>3, <3>1, <4>1, <5>1, SMT DEF SameLayer, LayerAhead
      <4>2. CASE u = 1
        <5>1. pc'[r][0] = pc[r][0] /\ layer'[r][0] = layer[r][0] /\ turn[r] = 1
              /\ layer'[r][1] = layer[r][1]
          BY <1>1, <2>1, <3>1, <4>2
        <5> QED BY <2>2, <2>3, <3>1, <4>2, <5>1, SMT DEF SameLayer, LayerAhead
      <4> QED BY <1>1, <4>1, <4>2
    <3>2. ASSUME pc[r][u] = "sum",
                 IF layer[r][u] < Layers
                 THEN layer'[r][u] = layer[r][u] + 1 /\ turn'[r] = u /\ pc'[r][u] = "start"
                 ELSE layer'[r][u] = layer[r][u] /\ pc'[r][u] = "done" /\ turn'[r] = 1 - u
          PROVE  <2>4
      <4>1. CASE u = 0
        <5>1. pc'[r][1] = pc[r][1] /\ layer'[r][1] = layer[r][1] /\ turn[r] = 0
          BY <1>1, <2>1, <4>1
        <5> QED BY <1>1, <2>2, <2>3, <3>2, <4>1, <5>1, SMT DEF SameLayer, LayerAhead
      <4>2. CASE u = 1
        <5>1. pc'[r][0] = pc[r][0] /\ layer'[r][0] = layer[r][0] /\ turn[r] = 1
          BY <1>1, <2>1, <4>2
        <5> QED BY <1>1, <2>2, <2>3, <3>2, <4>2, <5>1, SMT DEF SameLayer, LayerAhead
      <4> QED BY <1>1, <4>1, <4>2
    <3>3. CASE Start(r, u)
      <4>1. /\ pc[r][u] = "start" /\ pc'[r][u] = "dispatch" /\ turn'[r] = 1 - u
            /\ layer'[r][u] = layer[r][u]
        <5>1. /\ pc[r][u] = "start" /\ pc'[r][u] = IF setup.async THEN "dispatch" ELSE "experts"
              /\ turn'[r] = NextTurn(u) /\ layer'[r][u] = layer[r][u]
          BY <3>3, StartDoes
        <5> QED BY <1>0, <1>1, <1>2, <5>1 DEF NextTurn
      <4> QED BY <3>1, <4>1
    <3>4. CASE Dispatch(r, u)
      <4>1. /\ pc[r][u] = "dispatch" /\ pc'[r][u] = "spin" /\ turn'[r] = u
            /\ layer'[r][u] = layer[r][u]
        BY <3>4, DispatchDoes
      <4> QED BY <3>1, <4>1
    <3>5. CASE Receive(r, u)
      <4>1. /\ pc[r][u] = "spin" /\ pc'[r][u] = "experts" /\ turn'[r] = u
            /\ layer'[r][u] = layer[r][u]
        BY <3>5, ReceiveDoes
      <4> QED BY <3>1, <4>1
    <3>6. CASE Experts(r, u)
      <4>1. /\ pc[r][u] = "experts" /\ pc'[r][u] = "combine" /\ turn'[r] = 1 - u
            /\ layer'[r][u] = layer[r][u]
        <5>1. /\ pc[r][u] = "experts" /\ pc'[r][u] = "combine" /\ layer'[r][u] = layer[r][u]
              /\ turn'[r] = NextTurn(u)
          BY <3>6, ExpertsDoes
        <5> QED BY <1>0, <1>2, <5>1 DEF NextTurn
      <4> QED BY <3>1, <4>1
    <3>7. CASE Combine(r, u)
      <4>1. /\ pc[r][u] = "combine" /\ pc'[r][u] = "finish" /\ turn'[r] = u
            /\ layer'[r][u] = layer[r][u]
        BY <3>7, CombineDoes
      <4> QED BY <3>1, <4>1
    <3>8. CASE Finish(r, u)
      <4>1. /\ pc[r][u] = "finish" /\ pc'[r][u] = "sum" /\ turn'[r] = 1 - u
            /\ layer'[r][u] = layer[r][u]
        <5>1. /\ pc[r][u] = "finish" /\ pc'[r][u] = "sum" /\ layer'[r][u] = layer[r][u]
              /\ turn'[r] = NextTurn(u)
          BY <3>8, FinishDoes
        <5> QED BY <1>0, <1>2, <5>1 DEF NextTurn
      <4> QED BY <3>1, <4>1
    <3>9. CASE Sum(r, u)
      <4>1. /\ pc[r][u] = "sum"
            /\ IF layer[r][u] < Layers
               THEN layer'[r][u] = layer[r][u] + 1 /\ turn'[r] = u /\ pc'[r][u] = "start"
               ELSE layer'[r][u] = layer[r][u] /\ pc'[r][u] = "done" /\ turn'[r] = 1 - u
        <5>1. /\ pc[r][u] = "sum"
              /\ IF layer[r][u] < Layers
                 THEN layer'[r][u] = layer[r][u] + 1 /\ turn'[r] = u /\ pc'[r][u] = "start"
                 ELSE /\ layer'[r][u] = layer[r][u] /\ pc'[r][u] = "done"
                      /\ turn'[r] = NextTurn(u)
          BY <3>9, SumDoes
        <5> QED BY <1>0, <1>2, <5>1 DEF NextTurn
      <4> QED BY <3>2, <4>1
    <3> QED BY <3>3, <3>4, <3>5, <3>6, <3>7, <3>8, <3>9 DEF Host
  <2> QED BY <1>1, <1>2, <2>1, <2>4 DEF InTurn
<1>3. CASE ~ setup.dbo
  <2>1. Ubatches = {0} /\ u = 0
    BY <1>1, <1>3 DEF Ubatches
  <2>2. layer[r][0] <= Layers /\ layer[r][0] \in Nat
        /\ (pc[r][0] = "done" => layer[r][0] = Layers)
        /\ (~ setup.async => pc[r][0] \notin {"dispatch", "spin"})
    BY <1>3, <2>1 DEF InTurn, EPTypes, ThreadTypes
  <2>3. /\ layer'[r][0] <= Layers /\ (pc'[r][0] = "done" => layer'[r][0] = Layers)
        /\ (~ setup.async => pc'[r][0] \notin {"dispatch", "spin"})
    <3>1. CASE Start(r, u)
      BY <1>0, <2>1, <2>2, <3>1, StartDoes
    <3>2. CASE Dispatch(r, u)
      BY <2>1, <2>2, <3>2, DispatchDoes
    <3>3. CASE Receive(r, u)
      BY <2>1, <2>2, <3>3, ReceiveDoes
    <3>4. CASE Experts(r, u)
      BY <2>1, <2>2, <3>4, ExpertsDoes
    <3>5. CASE Combine(r, u)
      BY <2>1, <2>2, <3>5, CombineDoes
    <3>6. CASE Finish(r, u)
      BY <2>1, <2>2, <3>6, FinishDoes
    <3>7. CASE Sum(r, u)
      <4>1. IF layer[r][0] < Layers THEN layer'[r][0] = layer[r][0] + 1 /\ pc'[r][0] = "start"
            ELSE layer'[r][0] = layer[r][0] /\ pc'[r][0] = "done"
        BY <2>1, <3>7, SumDoes
      <4> QED BY <1>1, <2>2, <4>1
    <3> QED BY <3>1, <3>2, <3>3, <3>4, <3>5, <3>6, <3>7 DEF Host
  <2> QED BY <1>1, <1>3, <2>1, <2>3 DEF InTurn
<1> QED BY <1>2, <1>3

\* The widths of a round.
LEMMA Widths ==
  /\ Each \in {2, 3} /\ Width \in {2, 3, 4, 6}
  /\ setup.dbo => Width = 2 * Each
  /\ ~ setup.dbo => Width = Each
BY DEF Each, Width

\* Operations that continue the course, continue it.
LEMMA CourseGoesOn ==
  ASSUME EPTypes, NEW r \in Ranks, InCourse(r), setup' = setup,
         NEW new \in Seq(Ops), issued'[r] = issued[r] \o new,
         NEW l \in Nat \ {0}, NEW j \in Nat, Len(issued[r]) = Width * (l - 1) + j,
         j + Len(new) <= Width,
         \A k \in 1..Len(new) : Matches(new[k], l, j + k)
  PROVE  InCourse(r)' /\ Len(issued'[r]) = Len(issued[r]) + Len(new)
<1>1. /\ issued[r] \in Seq(Ops) /\ Width \in {2, 3, 4, 6} /\ Width' = Width
      /\ Round' = Round
  BY Widths DEF EPTypes, DeviceTypes, Width, Each, Barriers, Round
<1> DEFINE n == Len(issued[r])
<1>2. /\ n \in Nat /\ Len(new) \in Nat /\ Len(issued'[r]) = n + Len(new)
      /\ \A i \in 1..n : issued'[r][i] = issued[r][i]
      /\ \A i \in n + 1..n + Len(new) : issued'[r][i] = new[i - n]
  <2> DEFINE old == issued[r]
  <2>1. old \in Seq(Ops) /\ issued'[r] = old \o new
    BY <1>1
  <2> HIDE DEF old
  <2>2. Len(old) \in Nat /\ Len(new) \in Nat /\ Len(old \o new) = Len(old) + Len(new)
    BY <2>1
  <2>3. \A i \in 1..Len(old) : (old \o new)[i] = old[i]
    BY <2>1
  <2>4. \A i \in Len(old) + 1..Len(old) + Len(new) : (old \o new)[i] = new[i - Len(old)]
    BY <2>1
  <2> QED BY <2>1, <2>2, <2>3, <2>4 DEF old
<1>3. ASSUME NEW i \in 1..Len(issued'[r])
      PROVE  Matches(issued'[r][i], ((i - 1) \div Width) + 1, ((i - 1) % Width) + 1)
  <2>1. CASE i <= n
    <3>1. i \in 1..n
      BY <1>2, <2>1
    <3> QED BY <1>2, <3>1 DEF InCourse
  <2>2. CASE i > n
    <3> DEFINE k == i - n
    <3>1. /\ k \in 1..Len(new) /\ issued'[r][i] = new[k] /\ j + k \in 1..Width
          /\ i - 1 = Width * (l - 1) + (j + k) - 1
      <4> DEFINE m == Width * (l - 1)
      <4>1. m \in Int /\ Width \in Nat
        <5>1. l - 1 \in Int /\ Width \in Int
          BY <1>1
        <5> QED BY <1>1, <5>1
      <4>2. n = m + j
        OBVIOUS
      <4> HIDE DEF m, n
      <4>3. k \in 1..Len(new) /\ i \in n + 1..n + Len(new)
        BY <1>2, <2>2
      <4>4. j + k \in 1..Width /\ i - 1 = m + (j + k) - 1
        BY <1>2, <4>1, <4>2, <4>3
      <4> QED BY <1>2, <4>3, <4>4 DEF m
    <3> HIDE DEF k
    <3>2. j + k \in 1..Width
      BY <3>1
    <3> DEFINE p == j + k
    <3>3. /\ p \in 1..Width /\ i - 1 = Width * (l - 1) + p - 1 /\ Matches(issued'[r][i], l, p)
      BY <3>1
    <3> HIDE DEF p
    <3>4. ((i - 1) \div Width) + 1 = l /\ ((i - 1) % Width) + 1 = p
      <4>1. /\ ((Width * (l - 1) + p - 1) \div Width) + 1 = l
            /\ ((Width * (l - 1) + p - 1) % Width) + 1 = p
        BY <1>1, <3>3, RoundArithmetic
      <4> QED BY <3>3, <4>1
    <3> QED BY <3>3, <3>4
  <2> QED BY <1>2, <2>1, <2>2
<1>4. InCourse(r)'
  BY <1>1, <1>3 DEF InCourse, Matches
<1> QED BY <1>2, <1>4

\* Appending two operations one by one.
LEMMA ConcatTwo ==
  ASSUME NEW S, NEW seq \in Seq(S), NEW x \in S, NEW y \in S
  PROVE  seq \o << x >> \o << y >> = seq \o << x, y >>
<1>1. << x >> \in Seq(S) /\ << y >> \in Seq(S) /\ << x, y >> \in Seq(S)
  OBVIOUS
<1>2. Len(<< x >> \o << y >>) = Len(<< x, y >>) /\ << x >> \o << y >> \in Seq(S)
  OBVIOUS
<1>3. \A i \in 1..Len(<< x >> \o << y >>) : (<< x >> \o << y >>)[i] = << x, y >>[i]
  OBVIOUS
<1>4. << x >> \o << y >> = << x, y >>
  BY <1>1, <1>2, <1>3, SeqEqual
<1> DEFINE a == << x >>
           b == << y >>
<1> HIDE DEF a, b
<1>5. (seq \o a) \o b = seq \o (a \o b)
  BY <1>1, ConcatAssociative DEF a, b
<1> QED BY <1>4, <1>5 DEF a, b

\* What a step issues: the collectives it queues, of the thread's own layer.
Issues(r, u, new) ==
    /\ new \in Seq(Ops) /\ issued'[r] = issued[r] \o new
    /\ \A k \in 1..Len(new) : new[k].ubatch = u /\ new[k].layer = layer[r][u]
    /\ Len(new) = Past(pc'[r][u]) - Past(pc[r][u]) \/ (pc[r][u] = "sum" /\ Len(new) = 0)
    /\ Len(new) > 0 => pc[r][u] \in {"start", "dispatch", "combine"}
    /\ pc[r][u] = "start" /\ Len(new) > 0 => ~ setup.async
    /\ Len(new) > 0 /\ pc[r][u] # "combine" => new[1].kind = "dispatch"
    /\ pc[r][u] = "combine" => /\ new[Len(new)].kind = "combine"
                               /\ Barriers => new[1].kind = "barrier"

\* What a step queues, by its place.
LEMMA HostIssues ==
  ASSUME EPTypes, NEW r \in Ranks, NEW u \in Ubatches, Host(r, u)
  PROVE  \E new : Issues(r, u, new)
<1>0. /\ setup.dbo \in BOOLEAN /\ setup.async \in BOOLEAN /\ (setup.dbo => setup.async)
      /\ layer[r][u] \in Nat /\ mark[r][u] \in Nat /\ None \in OpArgs /\ 0 \in Nat
      /\ put[r]["compute"] \in Nat /\ put[r]["comm"] \in Nat /\ issued[r] \in Seq(Ops)
  BY SetupTyped DEF EPTypes, ThreadTypes, DeviceTypes, OpArgs, Streams
<1>1. \A seq \in Seq(Ops) : seq \o << >> = seq /\ << >> \o seq = seq
  OBVIOUS
<1>2. << >> \in Seq(Ops) /\ Len(<< >>) = 0 /\ Log(<< >>) = << >>
  <2>1. Log(<< >>) = << >>
    BY LogShort
  <2> QED BY <2>1, EmptySeq
<1>3. ASSUME NEW k \in AllKinds, NEW after \in Nat, NEW arg \in OpArgs, NEW l \in Nat
      PROVE  /\ Op(k, u, l, after, arg) \in Ops /\ Op(k, u, l, after, arg).kind = k
             /\ Op(k, u, l, after, arg).ubatch = u /\ Op(k, u, l, after, arg).layer = l
  BY OpTyped DEF AllKinds
<1>4. ASSUME issued'[r] = issued[r] \o << >> \o << >>, pc[r][u] # "combine",
             Past(pc'[r][u]) - Past(pc[r][u]) = 0 \/ pc[r][u] = "sum"
      PROVE  Issues(r, u, << >>)
  BY <1>0, <1>1, <1>2, <1>4 DEF Issues
<1>5. ASSUME NEW o \in Ops, o.kind = "dispatch", o.ubatch = u, o.layer = layer[r][u],
             issued'[r] = issued[r] \o << o >>, Past(pc'[r][u]) - Past(pc[r][u]) = 1,
             pc[r][u] = "dispatch" \/ (pc[r][u] = "start" /\ ~ setup.async)
      PROVE  Issues(r, u, << o >>)
  <2>1. << o >> \in Seq(Ops) /\ Len(<< o >>) = 1 /\ << o >>[1] = o
    OBVIOUS
  <2>2. \A k \in 1..1 : k = 1
    BY SMT
  <2> QED BY <1>5, <2>1, <2>2 DEF Issues
<1>6. CASE Start(r, u)
  <2> DEFINE input == Op("input", u, layer[r][u], 0, None)
             dispatch == Op("dispatch", u, layer[r][u], 0, None)
  <2>1. /\ StartQueues(r, u) /\ pc[r][u] = "start"
        /\ pc'[r][u] = IF setup.async THEN "dispatch" ELSE "experts"
    BY <1>6, StartDoes
  <2>2. /\ input \in Ops /\ input.kind = "input" /\ dispatch \in Ops /\ dispatch.kind = "dispatch"
        /\ dispatch.ubatch = u /\ dispatch.layer = layer[r][u]
    <3>1. "input" \in AllKinds /\ "dispatch" \in AllKinds
      BY DEF AllKinds, Kinds
    <3>2. input \in Ops /\ input.kind = "input"
      BY <1>0, <1>3, <3>1
    <3>3. /\ dispatch \in Ops /\ dispatch.kind = "dispatch"
          /\ dispatch.ubatch = u /\ dispatch.layer = layer[r][u]
      BY <1>0, <1>3, <3>1
    <3> QED BY <3>2, <3>3
  <2> HIDE DEF input, dispatch
  <2>3. Log(<< input >>) = << >> /\ Log(<< input, dispatch >>) = << dispatch >>
    BY <2>2, LogShort DEF Collectives
  <2>4. CASE setup.async
    <3>1. issued'[r] = issued[r] \o << >> \o << >>
      BY <1>2, <2>1, <2>3, <2>4 DEF StartQueues, Queued, input
    <3> QED BY <1>0, <1>4, <2>1, <2>4, <3>1 DEF Past
  <2>5. CASE ~ setup.async
    <3>1. issued'[r] = issued[r] \o << dispatch >> \o << >>
      BY <1>2, <2>1, <2>3, <2>5 DEF StartQueues, Queued, input, dispatch
    <3>2. issued'[r] = issued[r] \o << dispatch >>
      BY <1>0, <1>1, <2>2, <3>1
    <3>3. Past(pc'[r][u]) - Past(pc[r][u]) = 1
      BY <2>1, <2>5 DEF Past
    <3> QED BY <1>5, <2>1, <2>2, <2>5, <3>2, <3>3
  <2> QED BY <2>4, <2>5
<1>7. CASE Dispatch(r, u)
  <2> DEFINE dispatch == Op("dispatch", u, layer[r][u], mark[r][u], None)
  <2>1. DispatchQueues(r, u) /\ pc[r][u] = "dispatch" /\ pc'[r][u] = "spin"
    BY <1>7, DispatchDoes
  <2>2. /\ dispatch \in Ops /\ dispatch.kind = "dispatch"
        /\ dispatch.ubatch = u /\ dispatch.layer = layer[r][u]
    <3>1. "dispatch" \in AllKinds
      BY DEF AllKinds, Kinds
    <3> QED BY <1>0, <1>3, <3>1
  <2> HIDE DEF dispatch
  <2>3. Log(<< dispatch >>) = << dispatch >>
    BY <2>2, LogShort DEF Collectives
  <2>4. issued'[r] = issued[r] \o << >> \o << dispatch >>
    BY <1>2, <2>1, <2>3 DEF DispatchQueues, Queued, dispatch
  <2>5. issued'[r] = issued[r] \o << dispatch >>
    BY <1>0, <1>1, <2>4
  <2>6. Past(pc'[r][u]) - Past(pc[r][u]) = 1
    BY <2>1 DEF Past
  <2> QED BY <1>5, <2>1, <2>2, <2>5, <2>6
<1>8. CASE Receive(r, u)
  <2>1. issued' = issued /\ pc[r][u] = "spin" /\ pc'[r][u] = "experts"
    BY <1>8, ReceiveDoes
  <2>2. issued'[r] = issued[r] \o << >> \o << >>
    BY <1>0, <1>1, <2>1
  <2> QED BY <1>4, <2>1, <2>2 DEF Past
<1>9. CASE Experts(r, u)
  <2> DEFINE experts == Op("experts", u, layer[r][u], IF setup.async THEN mark[r][u] ELSE 0,
                           rows'[r][u])
  <2>1. ExpertsQueues(r, u) /\ pc[r][u] = "experts" /\ pc'[r][u] = "combine"
    BY <1>9, ExpertsDoes
  <2>2. experts.kind \notin Collectives
    BY DEF Op, Collectives
  <2> HIDE DEF experts
  <2>3. Log(<< experts >>) = << >>
    BY <2>2, LogShort
  <2>4. issued'[r] = issued[r] \o << >> \o << >>
    BY <1>2, <2>1, <2>3 DEF ExpertsQueues, Queued, experts
  <2> QED BY <1>4, <2>1, <2>4 DEF Past
<1>10. CASE Combine(r, u)
  <2> DEFINE combine(after) == Op("combine", u, layer[r][u], after, << handle[r][u], rows[r][u] >>)
             barrier == Op("barrier", u, layer[r][u], 0, None)
  <2>1. CombineQueues(r, u) /\ pc[r][u] = "combine" /\ pc'[r][u] = "finish"
    BY <1>10, CombineDoes
  <2>2. << handle[r][u], rows[r][u] >> \in OpArgs
    BY DEF EPTypes, ThreadTypes, OpArgs
  <2>3. /\ barrier \in Ops /\ barrier.kind = "barrier" /\ barrier.ubatch = u
        /\ barrier.layer = layer[r][u]
    <3>1. barrier \in Ops
      BY <1>0, OpTyped DEF Kinds
    <3> QED BY <3>1 DEF Op
  <2>4. ASSUME NEW after \in Nat
        PROVE  /\ combine(after) \in Ops /\ combine(after).kind = "combine"
               /\ combine(after).ubatch = u /\ combine(after).layer = layer[r][u]
    <3> DEFINE arg == << handle[r][u], rows[r][u] >>
    <3>1. arg \in OpArgs /\ "combine" \in AllKinds
      BY <2>2 DEF AllKinds, Kinds
    <3> HIDE DEF arg
    <3>2. PICK k \in AllKinds : k = "combine"
      BY <3>1
    <3>3. PICK l \in Nat : l = layer[r][u]
      BY <1>0
    <3> DEFINE o == Op(k, u, l, after, arg)
    <3>4. o \in Ops /\ o.kind = k /\ o.ubatch = u /\ o.layer = l
      BY <1>3, <3>1
    <3> QED BY <3>2, <3>3, <3>4 DEF arg
  <2>5. PICK after \in Nat :
           /\ ~ Barriers => \/ Queued(r, << combine(after) >>, << >>)
                            \/ Queued(r, << >>, << combine(after) >>)
           /\ Barriers => \/ Queued(r, << barrier >>, << combine(after) >>)
                          \/ Queued(r, << >>, << barrier, combine(after) >>)
    <3> HIDE DEF combine, barrier
    <3>1. /\ ~ setup.async => Queued(r, << combine(0) >>, << >>)
          /\ setup.async /\ setup.timer # "barrier" => Queued(r, << >>, << combine(mark[r][u]) >>)
          /\ setup.dbo /\ setup.timer = "barrier" =>
                  Queued(r, << >>, << barrier, combine(mark[r][u]) >>)
          /\ setup.async /\ ~ setup.dbo /\ setup.timer = "barrier" =>
                  Queued(r, << barrier >>, << combine(put[r]["compute"] + 1) >>)
      BY <2>1 DEF CombineQueues, combine, barrier
    <3>2. put[r]["compute"] + 1 \in Nat
      BY <1>0
    <3>3. CASE ~ setup.async
      BY <1>0, <3>1, <3>3 DEF Barriers
    <3>4. CASE setup.async /\ setup.timer # "barrier"
      BY <1>0, <3>1, <3>4 DEF Barriers
    <3>5. CASE setup.dbo /\ setup.timer = "barrier"
      BY <1>0, <3>1, <3>5 DEF Barriers
    <3>6. CASE setup.async /\ ~ setup.dbo /\ setup.timer = "barrier"
      BY <1>0, <3>1, <3>2, <3>6 DEF Barriers
    <3> QED BY <1>0, <3>3, <3>4, <3>5, <3>6
  <2> DEFINE o == combine(after)
  <2>6. o \in Ops /\ o.kind = "combine" /\ o.ubatch = u /\ o.layer = layer[r][u]
    BY <2>4
  <2> HIDE DEF combine, barrier
  <2>7. /\ Log(<< barrier >>) = << barrier >> /\ Log(<< o >>) = << o >>
        /\ Log(<< barrier, o >>) = << barrier, o >>
    BY <2>3, <2>6, LogShort DEF Collectives
  <2>8. << barrier >> \in Seq(Ops) /\ << o >> \in Seq(Ops) /\ << barrier, o >> \in Seq(Ops)
    BY <2>3, <2>6
  <2>9. Past(pc'[r][u]) - Past(pc[r][u]) = IF Barriers THEN 2 ELSE 1
    BY <2>1 DEF Past, Each
  <2>10. CASE ~ Barriers
    <3>1. \/ issued'[r] = issued[r] \o << o >> \o << >>
          \/ issued'[r] = issued[r] \o << >> \o << o >>
      BY <1>2, <2>5, <2>7, <2>10 DEF Queued
    <3>2. issued'[r] = issued[r] \o << o >>
      BY <1>0, <1>1, <2>8, <3>1
    <3>3. Len(<< o >>) = 1 /\ << o >>[1] = o /\ \A k \in 1..1 : k = 1
      BY SMT
    <3>4. Issues(r, u, << o >>)
      BY <2>1, <2>6, <2>8, <2>9, <2>10, <3>2, <3>3 DEF Issues
    <3> QED BY <3>4
  <2>11. CASE Barriers
    <3>1. \/ issued'[r] = issued[r] \o << barrier >> \o << o >>
          \/ issued'[r] = issued[r] \o << >> \o << barrier, o >>
      BY <1>2, <2>5, <2>7, <2>11 DEF Queued
    <3>2. issued[r] \o << barrier >> \o << o >> = issued[r] \o << barrier, o >>
      <4>1. issued[r] \in Seq(Ops)
        BY <1>0
      <4> HIDE DEF Ops
      <4> QED BY <2>3, <2>6, <4>1, ConcatTwo
    <3>3. issued'[r] = issued[r] \o << barrier, o >>
      BY <1>0, <1>1, <2>8, <3>1, <3>2
    <3>4. Len(<< barrier, o >>) = 2 /\ << barrier, o >>[1] = barrier /\ << barrier, o >>[2] = o
          /\ \A k \in 1..2 : k = 1 \/ k = 2
      BY SMT
    <3>5. Issues(r, u, << barrier, o >>)
      BY <2>1, <2>3, <2>6, <2>8, <2>9, <2>11, <3>3, <3>4 DEF Issues
    <3> QED BY <3>5
  <2> QED BY <2>10, <2>11
<1>11. CASE Finish(r, u)
  <2> DEFINE copy(after) == Op("copy", u, layer[r][u], after, None)
             run == Op("shared", u, layer[r][u], 0, None)
  <2>1. FinishQueues(r, u) /\ pc[r][u] = "finish" /\ pc'[r][u] = "sum"
    BY <1>11, FinishDoes
  <2>2. run.kind \notin Collectives /\ \A after : copy(after).kind \notin Collectives
    BY DEF Op, Collectives
  <2> HIDE DEF copy, run
  <2>3. Log(<< run >>) = << >>
        /\ \A after : /\ Log(<< copy(after) >>) = << >> /\ Log(<< run, copy(after) >>) = << >>
                      /\ Log(<< copy(after), run >>) = << >>
    BY <2>2, LogShort
  <2>4. \/ Queued(r, << run >>, << copy(0) >>) \/ Queued(r, << copy(0), run >>, << >>)
        \/ Queued(r, << copy(put[r]["comm"]), run >>, << >>)
        \/ Queued(r, << run, copy(put[r]["comm"]) >>, << >>)
    BY <1>0, <2>1 DEF FinishQueues, copy, run
  <2>5. issued'[r] = issued[r] \o << >> \o << >>
    BY <1>2, <2>3, <2>4 DEF Queued
  <2>6. Past(pc'[r][u]) - Past(pc[r][u]) = 0
    BY <2>1, Widths DEF Past
  <2> QED BY <1>4, <2>1, <2>5, <2>6
<1>12. CASE Sum(r, u)
  <2> DEFINE sum == Op("sum", u, layer[r][u], mark[r][u], None)
  <2>1. SumQueues(r, u) /\ pc[r][u] = "sum"
    BY <1>12, SumDoes
  <2>2. sum.kind \notin Collectives
    BY DEF Op, Collectives
  <2> HIDE DEF sum
  <2>3. Log(<< sum >>) = << >>
    BY <2>2, LogShort
  <2>4. issued'[r] = issued[r] \o << >> \o << >>
    BY <1>2, <2>1, <2>3 DEF SumQueues, Queued, sum
  <2> QED BY <1>4, <2>1, <2>4
<1> QED BY <1>6, <1>7, <1>8, <1>9, <1>10, <1>11, <1>12 DEF Host

\* How far each place is.
LEMMA PastAt ==
  /\ Past("start") = 0 /\ Past("dispatch") = 0
  /\ Past("spin") = 1 /\ Past("experts") = 1 /\ Past("combine") = 1
  /\ Past("finish") = Each /\ Past("sum") = Each /\ Past("done") = Each
BY DEF Past

\* Which collective of its layer a thread queues next.
Position(r, u) ==
    IF pc[r][u] = "combine" THEN IF ~ setup.dbo THEN 1 ELSE IF u = 0 THEN 2 ELSE 1 + Each
    ELSE u

\* It is the one that is due.
LEMMA NextCollective ==
  ASSUME EPTypes, NEW r \in Ranks, NEW u \in Ubatches, InTurn(r), Complete(r), turn[r] = u,
         pc[r][u] \in {"start", "dispatch", "combine"}, pc[r][u] = "start" => ~ setup.async
  PROVE  /\ Position(r, u) \in Nat
         /\ Len(issued[r]) = Width * (layer[r][u] - 1) + Position(r, u)
<1>1. /\ setup.dbo \in BOOLEAN /\ setup.async \in BOOLEAN /\ (setup.dbo => setup.async)
      /\ layer[r][u] \in Nat
  BY SetupTyped DEF EPTypes, ThreadTypes
<1>2. CASE setup.dbo
  <2>1. u \in {0, 1} /\ layer[r][0] \in Nat /\ layer[r][1] \in Nat
    BY <1>2 DEF EPTypes, ThreadTypes, Ubatches
  <2>2. Len(issued[r]) = (Each * (layer[r][0] - 1) + Past(pc[r][0]))
                         + (Each * (layer[r][1] - 1) + Past(pc[r][1]))
    BY <1>1, <1>2 DEF Complete, Count
  <2> DEFINE now == << turn[r], pc[r][0], pc[r][1] >>
  <2>3. \/ layer[r][0] = layer[r][1] /\ now \in SameLayer
        \/ layer[r][0] = layer[r][1] + 1 /\ now \in LayerAhead
    BY <1>1, <1>2 DEF InTurn
  <2>4. pc[r][u] # "start"
    BY <1>1, <1>2
  <2>5. /\ layer[r][0] = layer[r][u] /\ layer[r][1] = layer[r][u]
        /\ Past(pc[r][0]) + Past(pc[r][1]) = Position(r, u)
        /\ Past(pc[r][0]) \in Nat /\ Past(pc[r][1]) \in Nat
    <3>1. CASE u = 0
      <4>1. /\ layer[r][0] = layer[r][1]
            /\ \/ pc[r][0] = "dispatch" /\ pc[r][1] = "dispatch"
               \/ pc[r][0] = "combine" /\ pc[r][1] = "combine"
        BY <2>3, <2>4, <3>1 DEF SameLayer, LayerAhead
      <4>2. Position(r, 0) = (IF pc[r][0] = "combine" THEN 2 ELSE 0)
        BY <1>1, <1>2, <3>1 DEF Position
      <4> QED BY <1>1, <1>2, <2>1, <3>1, <4>1, <4>2, PastAt
    <3>2. CASE u = 1
      <4>1. /\ layer[r][0] = layer[r][1]
            /\ \/ pc[r][0] = "combine" /\ pc[r][1] = "dispatch"
               \/ pc[r][0] = "sum" /\ pc[r][1] = "combine"
        BY <2>3, <2>4, <3>2 DEF SameLayer, LayerAhead
      <4>2. Position(r, 1) = (IF pc[r][1] = "combine" THEN 1 + Each ELSE 1)
        BY <1>1, <1>2, <3>2 DEF Position
      <4> QED BY <1>1, <1>2, <2>1, <3>2, <4>1, <4>2, PastAt, Widths
    <3> QED BY <2>1, <3>1, <3>2
  <2> DEFINE l == layer[r][u]
             a == Past(pc[r][0])
             b == Past(pc[r][1])
  <2>6. Len(issued[r]) = (Each * (l - 1) + a) + (Each * (l - 1) + b) /\ a + b = Position(r, u)
        /\ a \in Nat /\ b \in Nat /\ l \in Nat
    BY <1>1, <2>2, <2>5
  <2> HIDE DEF l, a, b
  <2>7. Each = 2 \/ Each = 3
    BY Widths
  <2>8. Len(issued[r]) = 2 * Each * (l - 1) + (a + b)
    <3>1. CASE Each = 2
      BY <2>6, <3>1, SMT
    <3>2. CASE Each = 3
      BY <2>6, <3>2, SMT
    <3> QED BY <2>7, <3>1, <3>2
  <2> QED BY <1>1, <1>2, <2>6, <2>8, Widths DEF l
<1>3. CASE ~ setup.dbo
  <2>1. u = 0
    BY <1>1, <1>3 DEF Ubatches
  <2>2. Len(issued[r]) = Each * (layer[r][0] - 1) + Past(pc[r][0]) /\ Width = Each
    BY <1>1, <1>3, Widths DEF Complete, Count
  <2>3. Past(pc[r][0]) = Position(r, 0) /\ Position(r, 0) \in Nat
    BY <1>1, <1>3, <2>1 DEF Past, Position
  <2> QED BY <2>1, <2>2, <2>3
<1> QED BY <1>1, <1>2, <1>3

\* What a thread queues is what the round has there.
LEMMA NewMatches ==
  ASSUME EPTypes, NEW r \in Ranks, NEW u \in Ubatches, NEW new, Issues(r, u, new), Len(new) > 0,
         pc[r][u] = "combine" => pc'[r][u] = "finish",
         pc[r][u] = "start" => pc'[r][u] = "experts",
         pc[r][u] = "dispatch" => pc'[r][u] = "spin"
  PROVE  /\ Position(r, u) + Len(new) <= Width
         /\ \A k \in 1..Len(new) : Matches(new[k], layer[r][u], Position(r, u) + k)
<1>1. /\ setup.dbo \in BOOLEAN /\ setup.async \in BOOLEAN /\ Barriers \in BOOLEAN
      /\ (~ setup.dbo => u = 0) /\ u \in {0, 1}
  BY SetupTyped DEF EPTypes, ThreadTypes, Barriers, Ubatches
<1>2. /\ \A k \in 1..Len(new) : new[k].ubatch = u /\ new[k].layer = layer[r][u]
      /\ pc[r][u] \in {"start", "dispatch", "combine"} /\ new \in Seq(Ops)
  BY DEF Issues
<1>3. CASE pc[r][u] # "combine"
  <2>1. Len(new) = 1
    <3>1. Len(new) = Past(pc'[r][u]) - Past(pc[r][u])
      BY <1>2, <1>3 DEF Issues
    <3> QED BY <1>2, <1>3, <3>1, PastAt
  <2>2. new[1].kind = "dispatch" /\ new[1].ubatch = u /\ new[1].layer = layer[r][u]
    BY <1>2, <1>3, <2>1 DEF Issues
  <2>3. Position(r, u) = u
    BY <1>3 DEF Position
  <2>4. Round[u + 1] = << "dispatch", u >> /\ u + 1 <= Width
    <3>1. u = 0 \/ (u = 1 /\ setup.dbo)
      BY <1>1
    <3> QED BY <1>1, <3>1 DEF Round, Width, Each
  <2>5. Matches(new[1], layer[r][u], Position(r, u) + 1)
    BY <2>2, <2>3, <2>4 DEF Matches
  <2> QED BY <1>1, <2>1, <2>3, <2>4, <2>5
<1>4. CASE pc[r][u] = "combine" /\ ~ Barriers
  <2>1. Len(new) = 1 /\ Each = 2
    <3>1. Len(new) = Past(pc'[r][u]) - Past(pc[r][u]) /\ Each = 2
      BY <1>2, <1>4 DEF Issues, Each
    <3> QED BY <1>2, <1>4, <3>1, PastAt
  <2>2. new[1].kind = "combine" /\ new[1].ubatch = u /\ new[1].layer = layer[r][u]
    BY <1>2, <1>4, <2>1 DEF Issues
  <2> DEFINE j == Position(r, u) + 1
  <2>3. /\ j = (IF ~ setup.dbo THEN 2 ELSE IF u = 0 THEN 3 ELSE 4)
        /\ Width = IF setup.dbo THEN 4 ELSE 2
    BY <1>1, <1>4, <2>1 DEF Position, Width
  <2>4. Round[j] = << "combine", u >> /\ j <= Width
    <3> HIDE DEF j
    <3>1. CASE ~ setup.dbo
      BY <1>1, <1>4, <2>3, <3>1 DEF Round
    <3>2. CASE setup.dbo /\ u = 0
      BY <1>1, <1>4, <2>3, <3>2 DEF Round
    <3>3. CASE setup.dbo /\ u = 1
      BY <1>1, <1>4, <2>3, <3>3 DEF Round
    <3> QED BY <1>1, <3>1, <3>2, <3>3
  <2>5. Matches(new[1], layer[r][u], Position(r, u) + 1)
    BY <2>2, <2>4 DEF Matches
  <2> QED BY <2>1, <2>4, <2>5
<1>5. CASE pc[r][u] = "combine" /\ Barriers
  <2>1. Len(new) = 2 /\ Each = 3
    <3>1. Len(new) = Past(pc'[r][u]) - Past(pc[r][u]) /\ Each = 3
      BY <1>2, <1>5 DEF Issues, Each
    <3> QED BY <1>2, <1>5, <3>1, PastAt
  <2>2. /\ new[1].kind = "barrier" /\ new[1].ubatch = u /\ new[1].layer = layer[r][u]
        /\ new[2].kind = "combine" /\ new[2].ubatch = u /\ new[2].layer = layer[r][u]
    BY <1>2, <1>5, <2>1 DEF Issues
  <2> DEFINE j == Position(r, u)
  <2>3. /\ j = (IF ~ setup.dbo THEN 1 ELSE IF u = 0 THEN 2 ELSE 4)
        /\ Width = IF setup.dbo THEN 6 ELSE 3
    BY <1>1, <1>5, <2>1 DEF Position, Width
  <2>4. Round[j + 1] = << "barrier", u >> /\ Round[j + 2] = << "combine", u >> /\ j + 2 <= Width
    <3> HIDE DEF j
    <3>1. CASE ~ setup.dbo
      BY <1>1, <1>5, <2>3, <3>1 DEF Round
    <3>2. CASE setup.dbo /\ u = 0
      BY <1>1, <1>5, <2>3, <3>2 DEF Round
    <3>3. CASE setup.dbo /\ u = 1
      BY <1>1, <1>5, <2>3, <3>3 DEF Round
    <3> QED BY <1>1, <3>1, <3>2, <3>3
  <2>5. /\ Matches(new[1], layer[r][u], Position(r, u) + 1)
        /\ Matches(new[2], layer[r][u], Position(r, u) + 2)
    BY <2>2, <2>4 DEF Matches
  <2> QED BY <2>1, <2>4, <2>5
<1> QED BY <1>1, <1>3, <1>4, <1>5

\* The places a step goes between.
LEMMA HostMoves ==
  ASSUME EPTypes, NEW r \in Ranks, NEW u \in Ubatches, Host(r, u)
  PROVE  \/ /\ layer'[r][u] = layer[r][u]
            /\ << pc[r][u], pc'[r][u] >> \in
                  {<< "start", "dispatch" >>, << "start", "experts" >>, << "dispatch", "spin" >>,
                   << "spin", "experts" >>, << "experts", "combine" >>, << "combine", "finish" >>,
                   << "finish", "sum" >>, << "sum", "done" >>}
            /\ << pc[r][u], pc'[r][u] >> = << "start", "dispatch" >> => setup.async
            /\ << pc[r][u], pc'[r][u] >> = << "start", "experts" >> => ~ setup.async
         \/ /\ layer'[r][u] = layer[r][u] + 1 /\ layer[r][u] < Layers
            /\ pc[r][u] = "sum" /\ pc'[r][u] = "start"
<1>0. setup.async \in BOOLEAN
  BY SetupTyped DEF EPTypes, ThreadTypes
<1>1. CASE Start(r, u)
  <2>1. /\ pc[r][u] = "start" /\ layer'[r][u] = layer[r][u]
        /\ pc'[r][u] = IF setup.async THEN "dispatch" ELSE "experts"
    BY <1>1, StartDoes
  <2> QED BY <1>0, <2>1
<1>2. CASE Dispatch(r, u)
  BY <1>2, DispatchDoes
<1>3. CASE Receive(r, u)
  BY <1>3, ReceiveDoes
<1>4. CASE Experts(r, u)
  BY <1>4, ExpertsDoes
<1>5. CASE Combine(r, u)
  BY <1>5, CombineDoes
<1>6. CASE Finish(r, u)
  BY <1>6, FinishDoes
<1>7. CASE Sum(r, u)
  <2>1. /\ pc[r][u] = "sum"
        /\ IF layer[r][u] < Layers
           THEN layer'[r][u] = layer[r][u] + 1 /\ pc'[r][u] = "start"
           ELSE layer'[r][u] = layer[r][u] /\ pc'[r][u] = "done"
    BY <1>7, SumDoes
  <2> QED BY <2>1
<1> QED BY <1>1, <1>2, <1>3, <1>4, <1>5, <1>6, <1>7 DEF Host

\* A thread's step keeps the course of its rank.
LEMMA HostConcerted ==
  ASSUME EPTypes, NEW r \in Ranks, NEW u \in Ubatches, Concerted(r), Host(r, u)
  PROVE  Concerted(r)'
<1>1. InTurn(r) /\ Complete(r) /\ InCourse(r) /\ InTurn(r)'
  BY HostInTurn DEF Concerted
<1>2. /\ turn[r] = u /\ setup' = setup /\ Ubatches' = Ubatches
      /\ \A v \in Ubatches \ {u} : pc'[r][v] = pc[r][v] /\ layer'[r][v] = layer[r][v]
      /\ layer[r][u] \in Nat \ {0} /\ issued[r] \in Seq(Ops) /\ pc[r][u] \in Places
  <2>1. HostFrame(r, u) /\ turn[r] = u
    BY HostFrames
  <2>2. layer[r][u] \in Nat \ {0} /\ issued[r] \in Seq(Ops) /\ pc[r][u] \in Places
    BY DEF EPTypes, ThreadTypes, DeviceTypes
  <2> QED BY <2>1, <2>2 DEF HostFrame, Ubatches
<1>3. PICK new : Issues(r, u, new)
  BY HostIssues
<1>4. new \in Seq(Ops) /\ issued'[r] = issued[r] \o new /\ Len(new) \in Nat
  BY <1>3 DEF Issues
<1>5. InCourse(r)' /\ Len(issued'[r]) = Len(issued[r]) + Len(new)
  <2>1. CASE Len(new) = 0
    <3>1. issued'[r] = issued[r]
      BY <1>2, <1>4, <2>1, EmptySeq, ConcatEmptySeq
    <3>2. Round' = Round /\ Width' = Width
      BY <1>2 DEF Width, Each, Barriers, Round
    <3>3. InCourse(r)'
      BY <1>1, <3>1, <3>2 DEF InCourse, Matches
    <3> QED BY <1>2, <2>1, <3>1, <3>3
  <2>2. CASE Len(new) > 0
    <3>1. /\ pc[r][u] \in {"start", "dispatch", "combine"}
          /\ pc[r][u] = "start" => ~ setup.async
      BY <1>3, <2>2 DEF Issues
    <3>2. /\ pc[r][u] = "combine" => pc'[r][u] = "finish"
          /\ pc[r][u] = "start" => pc'[r][u] = "experts"
          /\ pc[r][u] = "dispatch" => pc'[r][u] = "spin"
      BY <3>1, HostMoves
    <3>3. /\ Position(r, u) \in Nat
          /\ Len(issued[r]) = Width * (layer[r][u] - 1) + Position(r, u)
      BY <1>1, <1>2, <3>1, NextCollective
    <3>4. /\ Position(r, u) + Len(new) <= Width
          /\ \A k \in 1..Len(new) : Matches(new[k], layer[r][u], Position(r, u) + k)
      BY <1>3, <2>2, <3>2, NewMatches
    <3> QED BY <1>1, <1>2, <1>4, <3>3, <3>4, CourseGoesOn
  <2> QED BY <1>4, <2>1, <2>2
<1>6. Each' = Each /\ \A p : Past(p)' = Past(p)
  BY <1>2 DEF Each, Barriers, Past
<1>7. /\ Count(r, u)' = Count(r, u) + Len(new) /\ Count(r, u) \in Int
      /\ \A v \in Ubatches \ {u} : Count(r, v)' = Count(r, v)
  <2>1. \A v \in Ubatches \ {u} : Count(r, v)' = Count(r, v)
    BY <1>2, <1>6 DEF Count, Past
  <2> DEFINE l == layer[r][u]
             a == Past(pc[r][u])
             b == Past(pc'[r][u])
  <2>2. Count(r, u) = Each * (l - 1) + a /\ Count(r, u)' = Each * (layer'[r][u] - 1) + b
    BY <1>6 DEF Count, Past
  <2>3. a \in Int /\ b \in Int /\ (Each = 2 \/ Each = 3) /\ l \in Nat
    BY <1>2, Widths DEF Past
  <2>4. \/ layer'[r][u] = l /\ Len(new) = b - a
        \/ layer'[r][u] = l + 1 /\ Len(new) = 0 /\ a = Each /\ b = 0
    <3>1. CASE pc[r][u] # "sum"
      BY <1>3, <3>1, HostMoves DEF Issues
    <3>2. CASE pc[r][u] = "sum"
      <4>1. Len(new) = 0
        <5>1. ~ (Len(new) > 0)
          BY <1>3, <3>2 DEF Issues
        <5> QED BY <1>4, <5>1
      <4>2. \/ layer'[r][u] = l /\ pc'[r][u] = "done"
            \/ layer'[r][u] = l + 1 /\ pc'[r][u] = "start"
        BY <3>2, HostMoves
      <4> QED BY <3>2, <4>1, <4>2, PastAt, Widths
    <3> QED BY <3>1, <3>2
  <2> HIDE DEF l, a, b
  <2>5. Count(r, u)' = Count(r, u) + Len(new) /\ Count(r, u) \in Int
    <3> DEFINE n == Len(new)
               c == Count(r, u)
               d == Count(r, u)'
               m == layer'[r][u]
    <3>1. n \in Nat /\ c = Each * (l - 1) + a /\ d = Each * (m - 1) + b
      BY <1>4, <2>2
    <3>2. \/ m = l /\ n = b - a
          \/ m = l + 1 /\ n = 0 /\ a = Each /\ b = 0
      BY <2>4
    <3> HIDE DEF n, c, d, m
    <3>3. ASSUME Each = 2 PROVE d = c + n /\ c \in Int
      BY <2>3, <3>1, <3>2, <3>3, SMT
    <3>4. ASSUME Each = 3 PROVE d = c + n /\ c \in Int
      BY <2>3, <3>1, <3>2, <3>4, SMT
    <3>5. d = c + n /\ c \in Int
      BY <2>3, <3>3, <3>4
    <3> QED BY <3>5 DEF n, c, d
  <2> QED BY <2>1, <2>5
<1>8. Complete(r)'
  <2>1. setup.dbo \in BOOLEAN /\ (setup.dbo => Ubatches = {0, 1}) /\ (~ setup.dbo => Ubatches = {0})
    BY SetupTyped DEF EPTypes, ThreadTypes, Ubatches
  <2>2. setup.dbo => Count(r, 0) \in Int /\ Count(r, 1) \in Int
    <3>1. ASSUME NEW v \in Ubatches PROVE Count(r, v) \in Int
      <4>1. layer[r][v] \in Nat /\ Past(pc[r][v]) \in Int /\ (Each = 2 \/ Each = 3)
        BY Widths DEF EPTypes, ThreadTypes, Past
      <4> QED BY <4>1 DEF Count
    <3> QED BY <2>1, <3>1
  <2>3. CASE setup.dbo
    <3>1. Len(issued[r]) = Count(r, 0) + Count(r, 1)
      BY <1>1, <2>1, <2>3 DEF Complete
    <3>2. Count(r, 0)' + Count(r, 1)' = Count(r, 0) + Count(r, 1) + Len(new)
      <4> DEFINE a == Count(r, 0)
                 b == Count(r, 1)
                 n == Len(new)
      <4>1. a \in Int /\ b \in Int /\ n \in Nat
        BY <1>4, <2>2, <2>3
      <4>2. \/ Count(r, 0)' = a + n /\ Count(r, 1)' = b
            \/ Count(r, 0)' = a /\ Count(r, 1)' = b + n
        <5>1. CASE u = 0
          BY <1>7, <2>1, <2>3, <5>1
        <5>2. CASE u = 1
          BY <1>7, <2>1, <2>3, <5>2
        <5> QED BY <2>1, <2>3, <5>1, <5>2
      <4> HIDE DEF a, b, n
      <4>3. Count(r, 0)' + Count(r, 1)' = a + b + n
        <5> DEFINE c == Count(r, 0)'
                   d == Count(r, 1)'
        <5> HIDE DEF c, d
        <5>1. \/ c = a + n /\ d = b
              \/ c = a /\ d = b + n
          BY <4>2 DEF c, d
        <5>2. c + d = a + b + n
          BY <4>1, <5>1, SMT
        <5> QED BY <5>2 DEF c, d
      <4> QED BY <4>3 DEF a, b, n
    <3> QED BY <1>2, <1>5, <2>1, <2>3, <3>1, <3>2 DEF Complete
  <2>4. CASE ~ setup.dbo
    <3>1. Len(issued[r]) = Count(r, 0) /\ u = 0
      BY <1>1, <2>1, <2>4 DEF Complete
    <3> QED BY <1>2, <1>5, <1>7, <2>1, <2>4, <3>1 DEF Complete
  <2> QED BY <2>1, <2>3, <2>4
<1> QED BY <1>1, <1>5, <1>8 DEF Concerted

\* Nothing that another rank or the device does matters to the course.
LEMMA ConcertedStays ==
  ASSUME NEW r, Concerted(r), setup' = setup, turn'[r] = turn[r], pc'[r] = pc[r],
         layer'[r] = layer[r], issued'[r] = issued[r]
  PROVE  Concerted(r)'
<1>1. Each' = Each /\ Width' = Width /\ Round' = Round /\ Ubatches' = Ubatches
  BY DEF Each, Width, Barriers, Round, Ubatches
<1>2. InTurn(r)'
  BY <1>1 DEF Concerted, InTurn
<1>3. Complete(r)'
  BY <1>1 DEF Concerted, Complete, Count, Past
<1>4. InCourse(r)'
  BY <1>1 DEF Concerted, InCourse, Matches
<1> QED BY <1>2, <1>3, <1>4 DEF Concerted

\* The device's steps, one stream at a time.
LEMMA DeviceSteps ==
  /\ \A r \in Ranks : \A s \in Streams : Local(r, s) => DeviceStep({r}, s)
  /\ \A s \in Streams : Joint(s) => DeviceStep(Ranks, s)
<1>1. ASSUME NEW r \in Ranks, NEW s \in Streams, Local(r, s) PROVE DeviceStep({r}, s)
  BY <1>1 DEF Local, DeviceStep
<1>2. ASSUME NEW s \in Streams, Joint(s) PROVE DeviceStep(Ranks, s)
  BY <1>2 DEF Joint, DeviceStep
<1> QED BY <1>1, <1>2

\* Every step is a thread's, the device's, or none.
LEMMA StepKinds ==
  ASSUME [Next]_vars
  PROVE  \/ \E r \in Ranks : \E u \in Ubatches : Host(r, u)
         \/ \E R \in SUBSET Ranks : \E s \in Streams : DeviceStep(R, s)
         \/ UNCHANGED vars
<1>1. ASSUME NEW r \in Ranks, NEW s \in Streams, Local(r, s)
      PROVE  \E R \in SUBSET Ranks : DeviceStep(R, s)
  <2>1. {r} \in SUBSET Ranks /\ DeviceStep({r}, s)
    BY <1>1, DeviceSteps
  <2> QED BY <2>1
<1>2. ASSUME NEW s \in Streams, Joint(s)
      PROVE  \E R \in SUBSET Ranks : DeviceStep(R, s)
  <2>1. Ranks \in SUBSET Ranks /\ DeviceStep(Ranks, s)
    BY <1>2, DeviceSteps
  <2> QED BY <2>1
<1> QED BY <1>1, <1>2 DEF Next, Finished

EPIInv == EPTypes /\ \A r \in Ranks : Concerted(r)

\* The types, at the start.
LEMMA EPTypesInit ==
  ASSUME Init
  PROVE  EPTypes
<1>1. 1 \in Nat \ {0} /\ 0 \in Nat /\ None \in Nat /\ None \in Int /\ 0 \in Ubatches
      /\ << >> \in Seq(Ops) /\ Len(<< >>) = 0
  BY DEF None, Ubatches
<1>2. ThreadTypes
  BY <1>1 DEF Init, ThreadTypes, Places, Dests
<1>3. DeviceTypes
  <2>1. queue \in [Ranks -> [Streams -> Seq(Ops)]] /\ put \in [Ranks -> [Streams -> Nat]]
        /\ mem \in [Ranks -> [Ubatches -> [Buffers -> Int]]] /\ issued \in [Ranks -> Seq(Ops)]
    BY <1>1 DEF Init
  <2>2. \A r \in Ranks : \A s \in Streams : queue[r][s] = << >> /\ put[r][s] = 0
    BY DEF Init
  <2>3. \A r \in Ranks : \A s \in Streams : Len(queue[r][s]) <= put[r][s]
    BY <1>1, <2>2
  <2> QED BY <2>1, <2>3 DEF DeviceTypes
<1> QED BY <1>2, <1>3 DEF EPTypes

\* The course, at the start.
LEMMA ConcertedInit ==
  ASSUME Init, NEW r \in Ranks
  PROVE  Concerted(r)
<1>1. /\ setup \in Setups /\ turn[r] = 0 /\ issued[r] = << >> /\ Len(<< >>) = 0
      /\ \A u \in Ubatches : pc[r][u] = "start" /\ layer[r][u] = 1
      /\ Layers \in Nat \ {0}
  BY LayerAssumption DEF Init
<1>2. setup.dbo \in BOOLEAN /\ 0 \in Ubatches /\ (setup.dbo => 1 \in Ubatches)
  BY <1>1, SetupTyped DEF Ubatches
<1>3. \A u \in Ubatches : layer[r][u] <= Layers
  BY <1>1
<1>4. InTurn(r)
  BY <1>1, <1>2, <1>3 DEF InTurn, SameLayer
<1>5. \A u \in Ubatches : Count(r, u) = 0
  <2>1. Each * (1 - 1) + 0 = 0
    BY Widths
  <2> QED BY <1>1, <2>1 DEF Count, Past
<1>6. Complete(r)
  BY <1>1, <1>2, <1>5 DEF Complete
<1>7. InCourse(r)
  BY <1>1 DEF InCourse
<1> QED BY <1>4, <1>6, <1>7 DEF Concerted

\* The strengthening holds throughout.
LEMMA EPIInvHolds == EPSpec => []EPIInv
<1>1. Init => EPIInv
  BY EPTypesInit, ConcertedInit DEF EPIInv
<1>2. EPIInv /\ [Next]_vars => EPIInv'
  <2> SUFFICES ASSUME EPIInv, [Next]_vars PROVE EPIInv'
    OBVIOUS
  <2>0. EPTypes /\ \A r \in Ranks : Concerted(r)
    BY DEF EPIInv
  <2>1. ASSUME NEW r \in Ranks, NEW u \in Ubatches, Host(r, u) PROVE EPIInv'
    <3>1. EPTypes' /\ HostFrame(r, u)
      BY <2>0, <2>1, HostFrames
    <3>2. Concerted(r)'
      BY <2>0, <2>1, HostConcerted
    <3>3. ASSUME NEW q \in Ranks \ {r} PROVE Concerted(q)'
      <4>1. /\ setup' = setup /\ turn'[q] = turn[q] /\ pc'[q] = pc[q]
            /\ layer'[q] = layer[q] /\ issued'[q] = issued[q]
        BY <3>1 DEF HostFrame
      <4> QED BY <2>0, <4>1, ConcertedStays
    <3>4. \A q \in Ranks : Concerted(q)'
      BY <3>2, <3>3
    <3> QED BY <3>1, <3>4 DEF EPIInv
  <2>2. ASSUME NEW R \in SUBSET Ranks, NEW s \in Streams, DeviceStep(R, s) PROVE EPIInv'
    <3>1. EPTypes'
      BY <2>0, <2>2, DeviceDoes
    <3>2. setup' = setup /\ turn' = turn /\ pc' = pc /\ layer' = layer /\ issued' = issued
      BY <2>2 DEF DeviceStep, threads
    <3>3. \A q \in Ranks : Concerted(q)'
      BY <2>0, <3>2, ConcertedStays
    <3> QED BY <3>1, <3>3 DEF EPIInv
  <2>3. CASE UNCHANGED vars
    <3>1. /\ setup' = setup /\ turn' = turn /\ pc' = pc /\ layer' = layer /\ issued' = issued
          /\ mark' = mark /\ handle' = handle /\ rows' = rows /\ handles' = handles
          /\ queue' = queue /\ put' = put /\ mem' = mem
      BY <2>3 DEF vars, threads, device
    <3>2. Ubatches' = Ubatches /\ Ops' = Ops
      BY <3>1 DEF Ubatches, Ops
    <3>3. EPTypes'
      BY <2>0, <3>1, <3>2 DEF EPTypes, ThreadTypes, DeviceTypes
    <3>4. \A q \in Ranks : Concerted(q)'
      BY <2>0, <3>1, ConcertedStays
    <3> QED BY <3>3, <3>4 DEF EPIInv
  <2> QED BY <2>1, <2>2, <2>3, StepKinds
<1> QED BY <1>1, <1>2, PTL DEF EPSpec

\* All ranks queue the same collectives in the same order, for any set of ranks, any
\* number of layers and every configuration: each thread's queue is laid out by the places
\* of the rank's two threads alone, never by what the rank received.
THEOREM RanksAgree == Spec => []CollectivesAgree
<1>1. EPIInv => CollectivesAgree
  <2> SUFFICES ASSUME EPIInv, NEW q \in Ranks, NEW r \in Ranks, NEW i \in 1..Short(q, r)
               PROVE  Same(issued[q][i], issued[r][i])
    BY DEF CollectivesAgree
  <2>1. Len(issued[q]) \in Nat /\ Len(issued[r]) \in Nat
    BY DEF EPIInv, EPTypes, DeviceTypes
  <2>2. i \in 1..Len(issued[q]) /\ i \in 1..Len(issued[r])
    BY <2>1 DEF Short
  <2>3. InCourse(q) /\ InCourse(r)
    BY DEF EPIInv, Concerted
  <2> DEFINE l == ((i - 1) \div Width) + 1
             j == ((i - 1) % Width) + 1
  <2>4. Matches(issued[q][i], l, j) /\ Matches(issued[r][i], l, j)
    BY <2>2, <2>3 DEF InCourse
  <2> HIDE DEF l, j
  <2> QED BY <2>4 DEF Matches, Same
<1>2. Spec => EPSpec
  BY DEF Spec, EPSpec
<1> QED BY <1>1, <1>2, EPIInvHolds, PTL

-----------------------------------------------------------------------------
(* The timer's spans.                                                        *)

Spans == {0} \X Nat
SpanTypes == open \in [Ranks -> Seq(Spans)] /\ waitPhase \in [Ranks -> {"d", "c"}]

\* One span is open inside a layer and none between layers, and the probe was last set by
\* the collective that the thread is past.
InSpan(r) ==
    /\ open[r] = IF Timing /\ pc[r][0] \notin {"start", "done"} THEN << << 0, layer[r][0] >> >>
                 ELSE << >>
    /\ setup.async /\ pc[r][0] \in {"spin", "experts"} => waitPhase[r] = "d"
    /\ pc[r][0] = "finish" => waitPhase[r] = "c"

SpanIInv == ~ setup.dbo => SpanTypes /\ \A r \in Ranks : InSpan(r)

\* A thread's step keeps the spans.
LEMMA HostSpans ==
  ASSUME EPTypes, NEW r \in Ranks, NEW u \in Ubatches, ~ setup.dbo, SpanIInv, Host(r, u)
  PROVE  SpanIInv'
<1>1. /\ u = 0 /\ Ubatches = {0} /\ setup' = setup /\ Timing' = Timing /\ Timing \in BOOLEAN
      /\ \A q \in Ranks \ {r} : pc'[q] = pc[q] /\ layer'[q] = layer[q]
      /\ layer[r][0] \in Nat
  <2>1. HostFrame(r, u)
    BY HostFrames
  <2>2. u = 0 /\ Ubatches = {0} /\ Timing \in BOOLEAN
    BY DEF Ubatches, Timing
  <2>3. layer[r][0] \in Nat
    BY <2>2 DEF EPTypes, ThreadTypes
  <2> QED BY <2>1, <2>2, <2>3 DEF HostFrame, Timing
<1>2. /\ open \in [Ranks -> Seq(Spans)] /\ waitPhase \in [Ranks -> {"d", "c"}]
      /\ \A q \in Ranks : InSpan(q)
  BY DEF SpanIInv, SpanTypes
<1> DEFINE here == << 0, layer[r][0] >>
<1>3. here \in Spans /\ << >> \in Seq(Spans) /\ << here >> \in Seq(Spans)
      /\ Append(<< >>, here) = << here >> /\ SubSeq(<< here >>, 1, Len(<< here >>) - 1) = << >>
  <2>1. here \in Spans
    BY <1>1 DEF Spans
  <2> HIDE DEF here
  <2>2. << here >> \in Seq(Spans) /\ Len(<< here >>) = 1 /\ << >> \in Seq(Spans)
        /\ Append(<< >>, here) = << here >>
    BY <2>1
  <2>3. SubSeq(<< here >>, 1, 0) = << >>
    BY <2>2
  <2> QED BY <2>1, <2>2, <2>3
<1>4. ASSUME NEW now \in Seq(Spans), NEW phase \in {"d", "c"},
             open' = [open EXCEPT ![r] = now], waitPhase' = [waitPhase EXCEPT ![r] = phase],
             now = IF Timing /\ pc'[r][0] \notin {"start", "done"}
                   THEN << << 0, layer'[r][0] >> >> ELSE << >>,
             setup.async /\ pc'[r][0] \in {"spin", "experts"} => phase = "d",
             pc'[r][0] = "finish" => phase = "c"
      PROVE  SpanIInv'
  <2>1. SpanTypes'
    BY <1>2, <1>4 DEF SpanTypes
  <2>2. InSpan(r)'
    BY <1>1, <1>2, <1>4 DEF InSpan
  <2>3. ASSUME NEW q \in Ranks \ {r} PROVE InSpan(q)'
    <3>1. /\ open'[q] = open[q] /\ waitPhase'[q] = waitPhase[q]
          /\ pc'[q] = pc[q] /\ layer'[q] = layer[q]
      BY <1>1, <1>2, <1>4
    <3> QED BY <1>1, <1>2, <3>1 DEF InSpan
  <2> QED BY <2>1, <2>2, <2>3 DEF SpanIInv
<1>5. /\ open = [open EXCEPT ![r] = open[r]] /\ open[r] \in Seq(Spans)
      /\ waitPhase = [waitPhase EXCEPT ![r] = waitPhase[r]] /\ waitPhase[r] \in {"d", "c"}
      /\ InSpan(r)
  BY <1>2
<1>6. CASE Start(r, u)
  <2>1. /\ open' = [open EXCEPT ![r] = IF Timing THEN Append(open[r], here) ELSE open[r]]
        /\ waitPhase' = waitPhase
    BY <1>1, <1>6 DEF Start
  <2>2. pc[r][0] = "start" /\ pc'[r][0] = (IF setup.async THEN "dispatch" ELSE "experts")
        /\ layer'[r][0] = layer[r][0]
    BY <1>1, <1>6, StartDoes
  <2>3. open[r] = << >>
    BY <1>5, <2>2 DEF InSpan
  <2> DEFINE now == IF Timing THEN << here >> ELSE << >>
  <2>4. now \in Seq(Spans) /\ open' = [open EXCEPT ![r] = now]
    BY <1>3, <2>1, <2>3
  <2>5. now = IF Timing /\ pc'[r][0] \notin {"start", "done"} THEN << << 0, layer'[r][0] >> >>
              ELSE << >>
    BY <1>1, <2>2
  <2> HIDE DEF now
  <2>6. setup.async => pc'[r][0] = "dispatch"
    BY <2>2
  <2>7. pc'[r][0] # "finish"
    BY <2>2
  <2> QED BY <1>4, <1>5, <2>1, <2>4, <2>5, <2>6, <2>7
<1>7. CASE Dispatch(r, u)
  <2>1. open' = open /\ waitPhase' = [waitPhase EXCEPT ![r] = "d"]
    BY <1>7 DEF Dispatch, Phase
  <2>2. pc[r][0] = "dispatch" /\ pc'[r][0] = "spin" /\ layer'[r][0] = layer[r][0]
    BY <1>1, <1>7, DispatchDoes
  <2>3. open[r] = IF Timing /\ pc'[r][0] \notin {"start", "done"} THEN << << 0, layer'[r][0] >> >>
                  ELSE << >>
    BY <1>5, <2>2 DEF InSpan
  <2> QED BY <1>4, <1>5, <2>1, <2>2, <2>3
<1>8. CASE Receive(r, u)
  <2>1. open' = open /\ waitPhase' = waitPhase
    BY <1>8 DEF Receive, probes
  <2>2. pc[r][0] = "spin" /\ pc'[r][0] = "experts" /\ layer'[r][0] = layer[r][0]
    BY <1>1, <1>8, ReceiveDoes
  <2>3. open[r] = IF Timing /\ pc'[r][0] \notin {"start", "done"} THEN << << 0, layer'[r][0] >> >>
                  ELSE << >>
    BY <1>5, <2>2 DEF InSpan
  <2>4. setup.async => waitPhase[r] = "d"
    BY <1>5, <2>2 DEF InSpan
  <2> QED BY <1>4, <1>5, <2>1, <2>2, <2>3, <2>4
<1>9. CASE Experts(r, u)
  <2>1. open' = open /\ waitPhase' = waitPhase
    BY <1>9 DEF Experts, probes
  <2>2. pc[r][0] = "experts" /\ pc'[r][0] = "combine" /\ layer'[r][0] = layer[r][0]
    BY <1>1, <1>9, ExpertsDoes
  <2>3. open[r] = IF Timing /\ pc'[r][0] \notin {"start", "done"} THEN << << 0, layer'[r][0] >> >>
                  ELSE << >>
    BY <1>5, <2>2 DEF InSpan
  <2> QED BY <1>4, <1>5, <2>1, <2>2, <2>3
<1>10. CASE Combine(r, u)
  <2>1. open' = open /\ waitPhase' = [waitPhase EXCEPT ![r] = "c"]
    BY <1>10 DEF Combine, Phase
  <2>2. pc[r][0] = "combine" /\ pc'[r][0] = "finish" /\ layer'[r][0] = layer[r][0]
    BY <1>1, <1>10, CombineDoes
  <2>3. open[r] = IF Timing /\ pc'[r][0] \notin {"start", "done"} THEN << << 0, layer'[r][0] >> >>
                  ELSE << >>
    BY <1>5, <2>2 DEF InSpan
  <2> QED BY <1>4, <1>5, <2>1, <2>2, <2>3
<1>11. CASE Finish(r, u)
  <2>1. open' = open /\ waitPhase' = waitPhase
    BY <1>11 DEF Finish, probes
  <2>2. pc[r][0] = "finish" /\ pc'[r][0] = "sum" /\ layer'[r][0] = layer[r][0]
    BY <1>1, <1>11, FinishDoes
  <2>3. open[r] = IF Timing /\ pc'[r][0] \notin {"start", "done"} THEN << << 0, layer'[r][0] >> >>
                  ELSE << >>
    BY <1>5, <2>2 DEF InSpan
  <2> QED BY <1>4, <1>5, <2>1, <2>2, <2>3
<1>12. CASE Sum(r, u)
  <2>1. /\ open' = [open EXCEPT ![r] = IF Timing THEN SubSeq(open[r], 1, Len(open[r]) - 1)
                                       ELSE open[r]]
        /\ waitPhase' = waitPhase
    BY <1>12 DEF Sum
  <2>2. pc[r][0] = "sum" /\ pc'[r][0] \in {"start", "done"}
    <3>1. pc[r][0] = "sum" /\ IF layer[r][0] < Layers THEN pc'[r][0] = "start"
                              ELSE pc'[r][0] = "done"
      BY <1>1, <1>12, SumDoes
    <3> QED BY <3>1
  <2>3. open[r] = IF Timing THEN << here >> ELSE << >>
    BY <1>5, <2>2 DEF InSpan
  <2> HIDE DEF here
  <2>4. (IF Timing THEN SubSeq(open[r], 1, Len(open[r]) - 1) ELSE open[r]) = << >>
    BY <1>1, <1>3, <2>3
  <2>5. open' = [open EXCEPT ![r] = << >>]
    BY <2>1, <2>4
  <2>6. pc'[r][0] \notin {"spin", "experts"} /\ pc'[r][0] # "finish"
    BY <2>2
  <2> QED BY <1>3, <1>4, <1>5, <2>1, <2>2, <2>5, <2>6
<1> QED BY <1>6, <1>7, <1>8, <1>9, <1>10, <1>11, <1>12 DEF Host

\* A span that begin opened is closed by the end of the same layer, and the wait of an event
\* is booked on the collective it waits for: at every depth of layers, for any number of
\* ranks.  Without overlap one thread nests the begins and ends of a rank.
THEOREM SpansRight == Spec => []SpansMatch
<1>1. Init => SpanIInv
  <2> SUFFICES ASSUME Init, ~ setup.dbo PROVE SpanTypes /\ \A r \in Ranks : InSpan(r)
    BY DEF SpanIInv
  <2>1. Ubatches = {0}
    BY DEF Ubatches
  <2>2. \A r \in Ranks : open[r] = << >> /\ pc[r][0] = "start"
    BY <2>1 DEF Init
  <2>3. SpanTypes
    BY DEF Init, SpanTypes
  <2> QED BY <2>2, <2>3 DEF InSpan
<1>2. EPIInv /\ SpanIInv /\ [Next]_vars => SpanIInv'
  <2> SUFFICES ASSUME EPIInv, SpanIInv, [Next]_vars PROVE SpanIInv'
    OBVIOUS
  <2>0. EPTypes
    BY DEF EPIInv
  <2>1. ASSUME NEW r \in Ranks, NEW u \in Ubatches, Host(r, u) PROVE SpanIInv'
    <3>1. CASE ~ setup.dbo
      BY <2>0, <2>1, <3>1, HostSpans
    <3>2. CASE setup.dbo
      <4>1. setup' = setup
        BY <2>0, <2>1, HostFrames DEF HostFrame
      <4> QED BY <3>2, <4>1 DEF SpanIInv
    <3> QED BY <3>1, <3>2
  <2>2. ASSUME setup' = setup, pc' = pc, layer' = layer, open' = open, waitPhase' = waitPhase
        PROVE  SpanIInv'
    <3>1. Timing' = Timing
      BY <2>2 DEF Timing
    <3>2. SpanTypes => SpanTypes'
      BY <2>2 DEF SpanTypes
    <3>3. \A r \in Ranks : InSpan(r) => InSpan(r)'
      BY <2>2, <3>1 DEF InSpan
    <3> QED BY <2>2, <3>2, <3>3 DEF SpanIInv
  <2>3. ASSUME NEW R \in SUBSET Ranks, NEW s \in Streams, DeviceStep(R, s) PROVE SpanIInv'
    BY <2>2, <2>3 DEF DeviceStep, threads, probes
  <2>4. CASE UNCHANGED vars
    BY <2>2, <2>4 DEF vars, threads, probes
  <2> QED BY <2>1, <2>3, <2>4, StepKinds
<1>3. EPIInv /\ SpanIInv => SpansMatch
  <2> SUFFICES ASSUME EPIInv, SpanIInv, NEW r \in Ranks, NEW u \in Ubatches, ~ setup.dbo
               PROVE  /\ At(r, u, "sum") /\ Timing =>
                           open[r] # << >> /\ open[r][Len(open[r])] = << u, layer[r][u] >>
                      /\ At(r, u, "experts") /\ setup.async => waitPhase[r] = "d"
                      /\ At(r, u, "finish") => waitPhase[r] = "c"
    BY DEF SpansMatch
  <2>1. u = 0 /\ InSpan(r)
    BY DEF SpanIInv, Ubatches
  <2>2. ASSUME pc[r][0] = "sum", Timing
        PROVE  open[r] # << >> /\ open[r][Len(open[r])] = << 0, layer[r][0] >>
    <3> DEFINE here == << 0, layer[r][0] >>
    <3>1. open[r] = << here >>
      BY <2>1, <2>2 DEF InSpan
    <3> HIDE DEF here
    <3>2. << here >> # << >> /\ Len(<< here >>) = 1 /\ << here >>[1] = here
      OBVIOUS
    <3> QED BY <3>1, <3>2 DEF here
  <2> QED BY <2>1, <2>2 DEF At, InSpan
<1>4. Spec => EPSpec
  BY DEF Spec, EPSpec
<1> QED BY <1>1, <1>2, <1>3, <1>4, EPIInvHolds, PTL DEF EPSpec

-----------------------------------------------------------------------------
(* The buffers.  The main operations of a microbatch on a rank are numbered   *)
(* through all layers; the shared experts run beside them.  p of the main and *)
(* q of the shared operations are done, M and S of them are queued; Q are the *)
(* rank's queues and N the operations put on each so far.                     *)

MainKinds == {"input", "dispatch", "experts", "combine", "copy", "sum"}
Index(k) == IF k = "input" THEN 1 ELSE IF k = "dispatch" THEN 2 ELSE IF k = "experts" THEN 3
            ELSE IF k = "combine" THEN 4 ELSE IF k = "copy" THEN 5 ELSE 6
Main(o) == o.kind \in MainKinds
Num(o) == 6 * (o.layer - 1) + Index(o.kind)

\* The stream that kind k is queued on.
StreamOf(md, k) ==
    IF k \in {"dispatch", "combine"} THEN IF md.async THEN "comm" ELSE "compute"
    ELSE IF k = "copy" THEN IF md.dbo THEN "comm" ELSE "compute"
    ELSE "compute"

OpsOf(U) == [kind : Kinds \cup {"barrier"}, ubatch : U, layer : Nat, after : Nat, arg : OpArgs]
Where(Q, N, t, j) == N[t] - Len(Q[t]) + j

\* What waits is queued and not done, on its own stream.
Listed(md, Q, M, S, p, q) == \A s \in Streams : \A i \in 1..Len(Q[s]) :
    /\ Main(Q[s][i]) => /\ s = StreamOf(md, Q[s][i].kind)
                        /\ p[Q[s][i].ubatch] < Num(Q[s][i])
                        /\ Num(Q[s][i]) <= M[Q[s][i].ubatch]
    /\ Q[s][i].kind = "shared" => /\ s = "compute"
                                  /\ q[Q[s][i].ubatch] < Q[s][i].layer
                                  /\ Q[s][i].layer <= S[Q[s][i].ubatch]

\* A microbatch's operations are in order on a stream.
Before(a, b) ==
    /\ Main(a) /\ Main(b) => Num(a) < Num(b)
    /\ Main(a) /\ b.kind = "shared" => Num(a) < 6 * b.layer
    /\ a.kind = "shared" /\ Main(b) => Num(b) > 6 * a.layer - 3
    /\ a.kind = "shared" /\ b.kind = "shared" => a.layer < b.layer
Ordered(Q) == \A s \in Streams : \A i, j \in 1..Len(Q[s]) :
    i < j /\ Q[s][i].ubatch = Q[s][j].ubatch => Before(Q[s][i], Q[s][j])

\* Across the streams, an operation waits for its predecessor.
Waiting(Q, N) == \A s, t \in Streams : \A i \in 1..Len(Q[s]), j \in 1..Len(Q[t]) :
    s # t /\ Main(Q[s][i]) /\ Main(Q[t][j]) /\ Q[s][i].ubatch = Q[t][j].ubatch
        /\ Num(Q[t][j]) = Num(Q[s][i]) - 1 => Where(Q, N, t, j) <= Q[s][i].after

\* Whatever is queued and not done, waits.
Covered(U, Q, M, S, p, q) == \A u \in U :
    /\ \A n \in p[u] + 1..M[u] : \E s \in Streams : \E i \in 1..Len(Q[s]) :
            Main(Q[s][i]) /\ Q[s][i].ubatch = u /\ Num(Q[s][i]) = n
    /\ \A l \in q[u] + 1..S[u] : \E i \in 1..Len(Q["compute"]) :
            /\ Q["compute"][i].kind = "shared" /\ Q["compute"][i].ubatch = u
            /\ Q["compute"][i].layer = l

Counted(U, M, S, p, q) == \A u \in U :
    /\ p[u] <= M[u] /\ q[u] <= S[u] /\ 6 * q[u] - 3 <= p[u] /\ p[u] <= 6 * q[u] + 5
    /\ 6 * S[u] - 2 <= M[u] /\ M[u] <= 6 * S[u] + 5

Fine(md, U, Q, N, M, S, p, q) ==
    /\ Listed(md, Q, M, S, p, q) /\ Ordered(Q) /\ Waiting(Q, N)
    /\ Covered(U, Q, M, S, p, q) /\ Counted(U, M, S, p, q)

\* Buffers b of a microbatch after p main and q shared operations.
Filled(b, p, q) ==
    /\ \A c \in Buffers : b[c] \in Nat
    /\ 6 * b["x"] - 5 <= p /\ p <= 6 * b["x"]
    /\ 6 * b["recv"] - 4 <= p /\ p <= 6 * b["recv"] + 1
    /\ 6 * b["combined"] - 2 <= p /\ p <= 6 * b["combined"] + 3
    /\ 6 * b["sum"] <= p /\ p <= 6 * b["sum"] + 5
    /\ b["shared"] = q
    /\ \A l \in 1..p : p = 6 * l - 1 => b["output"] = l

\* The combine of layer l finds the rows in m: the experts put them there, if any came.
Suits(Q, b, u, p, l, m) ==
    /\ m \in Dests
    /\ \A s \in Streams : \A i \in 1..Len(Q[s]) :
            Q[s][i].kind = "experts" /\ Q[s][i].ubatch = u /\ Q[s][i].layer = l => Q[s][i].arg = m
    /\ p = 6 * l - 3 => m = "none" \/ b[m] = l

\* The arguments that wait.
Args(Q, mm, p) == \A s \in Streams : \A i \in 1..Len(Q[s]) :
    /\ Q[s][i].kind = "experts" => Q[s][i].arg \in Dests
    /\ Q[s][i].kind = "combine" =>
          \E m \in Dests : /\ Q[s][i].arg = << Q[s][i].layer, m >>
                           /\ Suits(Q, mm[Q[s][i].ubatch], Q[s][i].ubatch, p[Q[s][i].ubatch],
                                    Q[s][i].layer, m)

\* A thread at c, in layer l, with its handle h, its rows m, the mark w and the slot g.
ThreadSuits(md, Q, N, b, u, M, p, c, l, h, m, w, g) ==
    /\ c = "combine" => h = l /\ Suits(Q, b, u, p, l, m)
    /\ c = "experts" /\ md.async => g = l
    /\ c \in {"dispatch", "experts", "combine", "sum"} =>
          \A t \in Streams : \A j \in 1..Len(Q[t]) :
              Main(Q[t][j]) /\ Q[t][j].ubatch = u /\ Num(Q[t][j]) = M /\ t # StreamOf(md, c)
                  => Where(Q, N, t, j) <= w

\* How many operations of a thread's microbatch are queued when it is at place c.
PutIndex(c) ==
    IF c = "start" THEN 0 ELSE IF c = "dispatch" THEN 1 ELSE IF c \in {"spin", "experts"} THEN 2
    ELSE IF c = "combine" THEN 3 ELSE IF c = "finish" THEN 4 ELSE IF c = "sum" THEN 5 ELSE 6
MainPut(r) == [u \in Ubatches |-> 6 * (layer[r][u] - 1) + PutIndex(pc[r][u])]
SharedPut(r) == [u \in Ubatches |-> IF pc[r][u] \in {"sum", "done"} THEN layer[r][u]
                                    ELSE layer[r][u] - 1]

GoodFor(r, p, q) ==
    /\ Fine(setup, Ubatches, queue[r], put[r], MainPut(r), SharedPut(r), p, q)
    /\ \A u \in Ubatches : Filled(mem[r][u], p[u], q[u])
    /\ Args(queue[r], mem[r], p)
    /\ \A u \in Ubatches :
          ThreadSuits(setup, queue[r], put[r], mem[r][u], u, MainPut(r)[u], p[u], pc[r][u],
                      layer[r][u], handle[r][u], rows[r][u], mark[r][u], handles[r][u])
Good(r) == \E p, q \in [Ubatches -> Nat] : GoodFor(r, p, q)

\* An operation's number tells its kind and its layer.
LEMMA NumbersDiffer ==
  ASSUME NEW U, NEW a \in OpsOf(U), NEW b \in OpsOf(U), Main(a), Main(b)
  PROVE  /\ Num(a) \in Int /\ Num(b) \in Int
         /\ Num(a) = Num(b) => a.kind = b.kind /\ a.layer = b.layer
<1>1. a.layer \in Nat /\ b.layer \in Nat /\ a.kind \in MainKinds /\ b.kind \in MainKinds
  BY DEF OpsOf, Main
<1>2. Index(a.kind) \in 1..6 /\ Index(b.kind) \in 1..6
  BY DEF Index
<1>3. Index(a.kind) = Index(b.kind) => a.kind = b.kind
  BY <1>1 DEF Index, MainKinds
<1> DEFINE i == Index(a.kind)
           j == Index(b.kind)
           k == a.layer
           l == b.layer
<1>4. i \in 1..6 /\ j \in 1..6 /\ k \in Nat /\ l \in Nat
  BY <1>1, <1>2
<1> HIDE DEF i, j, k, l
<1>5. /\ 6 * (k - 1) + i \in Int /\ 6 * (l - 1) + j \in Int
      /\ 6 * (k - 1) + i = 6 * (l - 1) + j => i = j /\ k = l
  BY <1>4, SMT
<1> QED BY <1>3, <1>5 DEF Num, i, j, k, l

\* A queue with o at its end.
Grows(Q, N, Q2, N2, s, o) ==
    /\ \A t \in Streams : Len(Q[t]) \in Nat /\ N[t] \in Nat
    /\ \A t \in Streams : Len(Q2[t]) = IF t = s THEN Len(Q[t]) + 1 ELSE Len(Q[t])
    /\ \A t \in Streams : N2[t] = IF t = s THEN N[t] + 1 ELSE N[t]
    /\ Q2[s][Len(Q[s]) + 1] = o
    /\ \A t \in Streams : \A i \in 1..Len(Q[t]) : Q2[t][i] = Q[t][i]

\* Appending does that.
LEMMA AppendGrows ==
  ASSUME NEW X, NEW Q \in [Streams -> Seq(X)], NEW N \in [Streams -> Nat], NEW s \in Streams,
         NEW o \in X
  PROVE  /\ Grows(Q, N, [Q EXCEPT ![s] = Append(Q[s], o)], [N EXCEPT ![s] = N[s] + 1], s, o)
         /\ [Q EXCEPT ![s] = Append(Q[s], o)] \in [Streams -> Seq(X)]
         /\ [N EXCEPT ![s] = N[s] + 1] \in [Streams -> Nat]
<1> DEFINE a == Q[s]
           b == Append(a, o)
<1>1. a \in Seq(X) /\ N[s] + 1 \in Nat
  OBVIOUS
<1> HIDE DEF a
<1>2. b \in Seq(X) /\ Len(b) = Len(a) + 1 /\ b[Len(a) + 1] = o /\ \A i \in 1..Len(a) : b[i] = a[i]
  BY <1>1
<1> HIDE DEF b
<1> DEFINE Q2 == [Q EXCEPT ![s] = b]
<1>3. Q2 \in [Streams -> Seq(X)] /\ Q2[s] = b /\ \A t \in Streams \ {s} : Q2[t] = Q[t]
  BY <1>2
<1>4. \A t \in Streams : Len(Q[t]) \in Nat
  OBVIOUS
<1> HIDE DEF Q2
<1>5. Grows(Q, N, Q2, [N EXCEPT ![s] = N[s] + 1], s, o)
  BY <1>1, <1>2, <1>3, <1>4 DEF Grows, a
<1> QED BY <1>1, <1>3, <1>5 DEF a, b, Q2

\* What is on the longer queue is on the old one, or new, at the same place.
Longer(Q, N, Q2, N2, s, o) ==
    /\ \A t \in Streams : \A i \in 1..Len(Q2[t]) :
            \/ i \in 1..Len(Q[t]) /\ Q2[t][i] = Q[t][i]
            \/ t = s /\ i = Len(Q[s]) + 1 /\ Q2[t][i] = o
    /\ \A t \in Streams : \A i \in 1..Len(Q[t]) : i \in 1..Len(Q2[t]) /\ Q2[t][i] = Q[t][i]
    /\ Len(Q[s]) + 1 \in 1..Len(Q2[s]) /\ Q2[s][Len(Q[s]) + 1] = o
    /\ \A t \in Streams : \A i \in Int : Where(Q2, N2, t, i) = Where(Q, N, t, i)

\* A queue with one operation at its end is longer in this sense.
LEMMA GrownParts ==
  ASSUME NEW Q, NEW N, NEW Q2, NEW N2, NEW s \in Streams, NEW o, Grows(Q, N, Q2, N2, s, o)
  PROVE  Longer(Q, N, Q2, N2, s, o)
<1>1. ASSUME NEW t \in Streams, NEW i \in 1..Len(Q2[t])
      PROVE  \/ i \in 1..Len(Q[t]) /\ Q2[t][i] = Q[t][i]
             \/ t = s /\ i = Len(Q[s]) + 1 /\ Q2[t][i] = o
  BY DEF Grows
<1>2. ASSUME NEW t \in Streams, NEW i \in 1..Len(Q[t])
      PROVE  i \in 1..Len(Q2[t]) /\ Q2[t][i] = Q[t][i]
  BY DEF Grows
<1>3. ASSUME NEW t \in Streams, NEW i \in Int
      PROVE  Where(Q2, N2, t, i) = Where(Q, N, t, i)
  <2> DEFINE a == N[t]
             b == Len(Q[t])
             c == N2[t]
             d == Len(Q2[t])
  <2>1. a \in Nat /\ b \in Nat
    BY DEF Grows
  <2>2. \/ c = a /\ d = b
        \/ c = a + 1 /\ d = b + 1
    BY DEF Grows
  <2> HIDE DEF a, b, c, d
  <2>3. c - d + i = a - b + i
    BY <2>1, <2>2
  <2> QED BY <2>3 DEF Where, a, b, c, d
<1> QED BY <1>1, <1>2, <1>3 DEF Grows, Longer

\* Operation o may be queued next on stream s.
Fits(md, U, Q, N, M, S, M2, S2, s, o) ==
    /\ \A v \in U : M2[v] = IF Main(o) /\ v = o.ubatch THEN M[v] + 1 ELSE M[v]
    /\ \A v \in U : S2[v] = IF o.kind = "shared" /\ v = o.ubatch THEN S[v] + 1 ELSE S[v]
    /\ Main(o) =>
          /\ s = StreamOf(md, o.kind) /\ Num(o) = M[o.ubatch] + 1
          /\ 6 * S[o.ubatch] - 3 < Num(o) /\ Num(o) <= 6 * S[o.ubatch] + 5
          /\ \A t \in Streams \ {s} : \A j \in 1..Len(Q[t]) :
                Main(Q[t][j]) /\ Q[t][j].ubatch = o.ubatch /\ Num(Q[t][j]) = M[o.ubatch]
                    => Where(Q, N, t, j) <= o.after
    /\ o.kind = "shared" =>
          /\ s = "compute" /\ o.layer = S[o.ubatch] + 1 /\ 6 * S[o.ubatch] + 4 <= M[o.ubatch]

\* The queues with one more operation.
LEMMA AddOne ==
  ASSUME NEW md, NEW U, NEW Q \in [Streams -> Seq(OpsOf(U))], NEW N \in [Streams -> Nat],
         NEW M \in [U -> Int], NEW S \in [U -> Int], NEW M2 \in [U -> Int], NEW S2 \in [U -> Int],
         NEW p \in [U -> Nat], NEW q \in [U -> Nat], Fine(md, U, Q, N, M, S, p, q),
         NEW s \in Streams, NEW o \in OpsOf(U), NEW Q2, NEW N2, Grows(Q, N, Q2, N2, s, o),
         Fits(md, U, Q, N, M, S, M2, S2, s, o)
  PROVE  Fine(md, U, Q2, N2, M2, S2, p, q)
<1> DEFINE u == o.ubatch
           e == Len(Q[s]) + 1
<1>1. /\ u \in U /\ o.layer \in Nat /\ (Main(o) => o.kind # "shared")
      /\ \A t \in Streams : \A i \in 1..Len(Q[t]) :
            /\ Q[t][i] \in OpsOf(U) /\ Q[t][i].layer \in Nat /\ Q[t][i].ubatch \in U
            /\ Main(Q[t][i]) => Num(Q[t][i]) \in Int /\ Q[t][i].kind # "shared"
  <2>1. ASSUME NEW a \in OpsOf(U)
        PROVE  /\ a.layer \in Nat /\ a.ubatch \in U
               /\ Main(a) => Num(a) \in Int /\ a.kind # "shared"
    <3>1. a.layer \in Nat /\ a.ubatch \in U
      BY DEF OpsOf
    <3>2. Main(a) => Num(a) \in Int
      BY NumbersDiffer
    <3>3. Main(a) => a.kind # "shared"
      BY DEF Main, MainKinds
    <3> QED BY <3>1, <3>2, <3>3
  <2>2. \A t \in Streams : \A i \in 1..Len(Q[t]) : Q[t][i] \in OpsOf(U)
    OBVIOUS
  <2> QED BY <2>1, <2>2
<1>2. /\ Listed(md, Q, M, S, p, q) /\ Ordered(Q) /\ Waiting(Q, N)
      /\ Covered(U, Q, M, S, p, q) /\ Counted(U, M, S, p, q)
  BY DEF Fine
<1>3. /\ \A t \in Streams : \A i \in 1..Len(Q2[t]) :
            \/ i \in 1..Len(Q[t]) /\ Q2[t][i] = Q[t][i]
            \/ t = s /\ i = e /\ Q2[t][i] = o
      /\ \A t \in Streams : \A i \in 1..Len(Q[t]) : i \in 1..Len(Q2[t]) /\ Q2[t][i] = Q[t][i]
      /\ e \in 1..Len(Q2[s]) /\ Q2[s][e] = o
      /\ \A t \in Streams : \A i \in Int : Where(Q2, N2, t, i) = Where(Q, N, t, i)
  <2>1. Longer(Q, N, Q2, N2, s, o)
    BY GrownParts
  <2> QED BY <2>1 DEF Longer
<1>4. /\ \A v \in U : M[v] \in Int /\ S[v] \in Int /\ M2[v] \in Int /\ S2[v] \in Int
                      /\ p[v] \in Nat /\ q[v] \in Nat /\ M[v] <= M2[v] /\ S[v] <= S2[v]
      /\ \A v \in U \ {u} : M2[v] = M[v] /\ S2[v] = S[v]
      /\ M2[u] = IF Main(o) THEN M[u] + 1 ELSE M[u]
      /\ S2[u] = IF o.kind = "shared" THEN S[u] + 1 ELSE S[u]
  <2>1. ASSUME NEW v \in U
        PROVE  /\ M[v] \in Int /\ S[v] \in Int /\ M2[v] \in Int /\ S2[v] \in Int
               /\ p[v] \in Nat /\ q[v] \in Nat
               /\ M2[v] = IF Main(o) /\ v = u THEN M[v] + 1 ELSE M[v]
               /\ S2[v] = IF o.kind = "shared" /\ v = u THEN S[v] + 1 ELSE S[v]
    BY DEF Fits
  <2> HIDE DEF u
  <2>2. ASSUME NEW v \in U PROVE M[v] <= M2[v] /\ S[v] <= S2[v]
    <3>1. M2[v] = M[v] \/ M2[v] = M[v] + 1
      BY <2>1
    <3>2. S2[v] = S[v] \/ S2[v] = S[v] + 1
      BY <2>1
    <3> QED BY <2>1, <3>1, <3>2
  <2> QED BY <1>1, <2>1, <2>2
<1>5. /\ Main(o) => /\ s = StreamOf(md, o.kind) /\ Num(o) = M[u] + 1 /\ Num(o) = M2[u]
                    /\ 6 * S[u] - 3 < Num(o) /\ Num(o) <= 6 * S[u] + 5
                    /\ \A t \in Streams \ {s} : \A j \in 1..Len(Q[t]) :
                          Main(Q[t][j]) /\ Q[t][j].ubatch = u /\ Num(Q[t][j]) = M[u]
                              => Where(Q, N, t, j) <= o.after
      /\ o.kind = "shared" => /\ s = "compute" /\ o.layer = S[u] + 1 /\ o.layer = S2[u]
                              /\ 6 * S[u] + 4 <= M[u]
  BY <1>4 DEF Fits
<1>6. \A v \in U : /\ p[v] <= M[v] /\ q[v] <= S[v] /\ 6 * q[v] - 3 <= p[v] /\ p[v] <= 6 * q[v] + 5
                   /\ 6 * S[v] - 2 <= M[v] /\ M[v] <= 6 * S[v] + 5
  BY <1>2 DEF Counted
<1> HIDE DEF u, e
<1>7. Listed(md, Q2, M2, S2, p, q)
  <2>1. ASSUME NEW t \in Streams, NEW i \in 1..Len(Q2[t])
        PROVE  /\ Main(Q2[t][i]) => /\ t = StreamOf(md, Q2[t][i].kind)
                                    /\ p[Q2[t][i].ubatch] < Num(Q2[t][i])
                                    /\ Num(Q2[t][i]) <= M2[Q2[t][i].ubatch]
               /\ Q2[t][i].kind = "shared" => /\ t = "compute"
                                              /\ q[Q2[t][i].ubatch] < Q2[t][i].layer
                                              /\ Q2[t][i].layer <= S2[Q2[t][i].ubatch]
    <3>1. CASE i \in 1..Len(Q[t]) /\ Q2[t][i] = Q[t][i]
      <4> DEFINE a == Q[t][i]
                 v == a.ubatch
      <4>1. /\ Main(a) => t = StreamOf(md, a.kind) /\ p[v] < Num(a) /\ Num(a) <= M[v]
            /\ a.kind = "shared" => t = "compute" /\ q[v] < a.layer /\ a.layer <= S[v]
        BY <1>2, <3>1 DEF Listed
      <4>2. v \in U /\ a.layer \in Nat /\ (Main(a) => Num(a) \in Int)
        BY <1>1, <3>1
      <4> HIDE DEF a, v
      <4>3. /\ Main(a) => Num(a) <= M2[v]
            /\ a.kind = "shared" => a.layer <= S2[v]
        BY <1>4, <4>1, <4>2
      <4> QED BY <3>1, <4>1, <4>3 DEF a, v
    <3>2. CASE t = s /\ i = e /\ Q2[t][i] = o
      <4>1. /\ Main(o) => p[u] < Num(o) /\ Num(o) <= M2[u]
            /\ o.kind = "shared" => q[u] < o.layer /\ o.layer <= S2[u]
        <5>1. /\ p[u] <= M[u] /\ q[u] <= S[u] /\ p[u] \in Nat /\ q[u] \in Nat
              /\ M[u] \in Int /\ S[u] \in Int
          BY <1>1, <1>4, <1>6
        <5>2. ASSUME Main(o) PROVE p[u] < Num(o) /\ Num(o) <= M2[u]
          <6>1. Num(o) = M[u] + 1 /\ Num(o) = M2[u]
            BY <1>5, <5>2
          <6> QED BY <5>1, <6>1
        <5>3. ASSUME o.kind = "shared" PROVE q[u] < o.layer /\ o.layer <= S2[u]
          <6>1. o.layer = S[u] + 1 /\ o.layer = S2[u]
            BY <1>5, <5>3
          <6> QED BY <5>1, <6>1
        <5> QED BY <5>2, <5>3
      <4> QED BY <1>5, <3>2, <4>1 DEF u
    <3> QED BY <1>3, <3>1, <3>2
  <2> QED BY <2>1 DEF Listed
<1>8. Ordered(Q2)
  <2>1. ASSUME NEW t \in Streams, NEW i \in 1..Len(Q2[t]), NEW j \in 1..Len(Q2[t]), i < j,
               Q2[t][i].ubatch = Q2[t][j].ubatch
        PROVE  Before(Q2[t][i], Q2[t][j])
    <3>1. CASE j \in 1..Len(Q[t]) /\ Q2[t][j] = Q[t][j]
      <4>1. i \in 1..Len(Q[t])
        BY <2>1, <3>1
      <4> QED BY <1>2, <1>3, <2>1, <3>1, <4>1 DEF Ordered
    <3>2. CASE t = s /\ j = e /\ Q2[t][j] = o
      <4>1. i \in 1..Len(Q[s]) /\ Q2[s][i] = Q[s][i]
        <5>1. i # e
          BY <2>1, <3>2
        <5> QED BY <1>3, <3>2, <5>1
      <4> DEFINE a == Q[s][i]
      <4>2. a.ubatch = u
        BY <2>1, <3>2, <4>1 DEF u
      <4>3. /\ Main(a) => Num(a) <= M[u] /\ Num(a) \in Int
            /\ a.kind = "shared" => a.layer <= S[u]
            /\ a.layer \in Nat
        BY <1>1, <1>2, <4>1, <4>2 DEF Listed
      <4> HIDE DEF a
      <4>4. M[u] \in Int /\ S[u] \in Int /\ 6 * S[u] - 2 <= M[u] /\ M[u] <= 6 * S[u] + 5
        BY <1>1, <1>4, <1>6 DEF u
      <4>5. Main(a) /\ Main(o) => Num(a) < Num(o)
        <5>1. ASSUME Main(a), Main(o) PROVE Num(a) < Num(o)
          <6>1. Num(a) <= M[u] /\ Num(a) \in Int /\ Num(o) = M[u] + 1
            BY <1>5, <4>3, <5>1
          <6> QED BY <4>4, <6>1
        <5> QED BY <5>1
      <4>6. Main(a) /\ o.kind = "shared" => Num(a) < 6 * o.layer
        <5>1. ASSUME Main(a), o.kind = "shared" PROVE Num(a) < 6 * o.layer
          <6>1. Num(a) <= M[u] /\ Num(a) \in Int /\ o.layer = S[u] + 1
            <7>1. o.layer = S[u] + 1
              BY <1>5, <5>1
            <7> QED BY <4>3, <5>1, <7>1
          <6> DEFINE n == Num(a)
                     l == o.layer
                     m == S[u]
                     w == M[u]
          <6>2. n <= w /\ n \in Int /\ l = m + 1 /\ m \in Int /\ w \in Int /\ w <= 6 * m + 5
            BY <4>4, <6>1
          <6> HIDE DEF n, l, m, w
          <6>3. n < 6 * l
            BY <6>2
          <6> QED BY <6>3 DEF n, l
        <5> QED BY <5>1
      <4>7. a.kind = "shared" /\ Main(o) => Num(o) > 6 * a.layer - 3
        <5> DEFINE n == Num(o)
                   l == a.layer
                   m == S[u]
        <5>1. Main(o) => n = M[u] + 1 /\ 6 * m - 3 < n
          BY <1>5
        <5>2. l \in Nat /\ m \in Int /\ (a.kind = "shared" => l <= m)
          BY <4>3, <4>4
        <5> HIDE DEF n, l, m
        <5>3. a.kind = "shared" /\ Main(o) => n > 6 * l - 3
          BY <4>4, <5>1, <5>2
        <5> QED BY <5>3 DEF n, l
      <4>8. a.kind = "shared" /\ o.kind = "shared" => a.layer < o.layer
        <5>1. ASSUME a.kind = "shared", o.kind = "shared" PROVE a.layer < o.layer
          <6>1. a.layer <= S[u] /\ o.layer = S[u] + 1
            <7>1. o.layer = S[u] + 1
              BY <1>5, <5>1
            <7> QED BY <4>3, <5>1, <7>1
          <6> DEFINE n == a.layer
                     l == o.layer
                     m == S[u]
          <6>2. n <= m /\ n \in Nat /\ l = m + 1 /\ m \in Int
            BY <4>3, <4>4, <6>1
          <6> HIDE DEF n, l, m
          <6>3. n < l
            BY <6>2
          <6> QED BY <6>3 DEF n, l
        <5> QED BY <5>1
      <4>9. Before(a, o)
        BY <4>5, <4>6, <4>7, <4>8 DEF Before
      <4> QED BY <3>2, <4>1, <4>9 DEF a
    <3> QED BY <1>3, <3>1, <3>2
  <2> QED BY <2>1 DEF Ordered
<1>9. Waiting(Q2, N2)
  <2>1. ASSUME NEW t \in Streams, NEW w \in Streams, NEW i \in 1..Len(Q2[t]),
               NEW j \in 1..Len(Q2[w]), t # w, Main(Q2[t][i]), Main(Q2[w][j]),
               Q2[t][i].ubatch = Q2[w][j].ubatch, Num(Q2[w][j]) = Num(Q2[t][i]) - 1
        PROVE  Where(Q2, N2, w, j) <= Q2[t][i].after
    <3>1. Where(Q2, N2, w, j) = Where(Q, N, w, j)
      BY <1>3
    <3>2. CASE i \in 1..Len(Q[t]) /\ Q2[t][i] = Q[t][i]
      <4>1. CASE j \in 1..Len(Q[w]) /\ Q2[w][j] = Q[w][j]
        BY <1>2, <2>1, <3>1, <3>2, <4>1 DEF Waiting
      <4>2. CASE w = s /\ j = e /\ Q2[w][j] = o
        <5>1. Num(Q[t][i]) <= M[u] /\ Num(Q[t][i]) \in Int /\ M[u] \in Int
          <6>1. Q[t][i].ubatch = u /\ Main(Q[t][i])
            BY <2>1, <3>2, <4>2 DEF u
          <6>2. Num(Q[t][i]) <= M[u] /\ Num(Q[t][i]) \in Int
            BY <1>1, <1>2, <3>2, <6>1 DEF Listed
          <6> QED BY <1>1, <1>4, <6>2
        <5>2. Num(o) = M[u] + 1
          BY <1>5, <2>1, <4>2
        <5>3. Num(o) = Num(Q[t][i]) - 1
          BY <2>1, <3>2, <4>2
        <5> QED BY <5>1, <5>2, <5>3
      <4> QED BY <1>3, <4>1, <4>2
    <3>3. CASE t = s /\ i = e /\ Q2[t][i] = o
      <4>1. j \in 1..Len(Q[w]) /\ Q2[w][j] = Q[w][j]
        BY <1>3, <2>1, <3>3
      <4>2. Num(Q[w][j]) = M[u]
        <5>1. Num(o) = M[u] + 1 /\ M[u] \in Int /\ Num(Q[w][j]) = Num(o) - 1
          BY <1>1, <1>4, <1>5, <2>1, <3>3, <4>1 DEF u
        <5> QED BY <5>1
      <4> QED BY <1>5, <2>1, <3>1, <3>3, <4>1, <4>2 DEF u
    <3> QED BY <1>3, <3>2, <3>3
  <2> QED BY <2>1 DEF Waiting
<1>10. Covered(U, Q2, M2, S2, p, q)
  <2>1. ASSUME NEW v \in U, NEW n \in p[v] + 1..M2[v]
        PROVE  \E t \in Streams : \E i \in 1..Len(Q2[t]) :
                  Main(Q2[t][i]) /\ Q2[t][i].ubatch = v /\ Num(Q2[t][i]) = n
    <3>1. CASE n \in p[v] + 1..M[v]
      <4>1. PICK t \in Streams : \E i \in 1..Len(Q[t]) :
                Main(Q[t][i]) /\ Q[t][i].ubatch = v /\ Num(Q[t][i]) = n
        BY <1>2, <3>1 DEF Covered
      <4>2. PICK i \in 1..Len(Q[t]) : Main(Q[t][i]) /\ Q[t][i].ubatch = v /\ Num(Q[t][i]) = n
        BY <4>1
      <4>3. i \in 1..Len(Q2[t]) /\ Q2[t][i] = Q[t][i]
        BY <1>3
      <4> QED BY <4>2, <4>3, Zenon
    <3>2. CASE n \notin p[v] + 1..M[v]
      <4>1. v = u /\ Main(o) /\ n = M[u] + 1
        <5>1. /\ p[v] \in Nat /\ M[v] \in Int
              /\ M2[v] = M[v] \/ (v = u /\ Main(o) /\ M2[v] = M[v] + 1)
          BY <1>1, <1>4
        <5>2. M2[v] # M[v] /\ (M2[v] = M[v] + 1 => n = M[v] + 1)
          BY <3>2, <5>1
        <5> QED BY <5>1, <5>2
      <4>2. Main(Q2[s][e]) /\ Q2[s][e].ubatch = v /\ Num(Q2[s][e]) = n /\ e \in 1..Len(Q2[s])
        BY <1>3, <1>5, <4>1 DEF u
      <4> QED BY <4>2, Zenon
    <3> QED BY <3>1, <3>2
  <2>2. ASSUME NEW v \in U, NEW l \in q[v] + 1..S2[v]
        PROVE  \E i \in 1..Len(Q2["compute"]) :
                  /\ Q2["compute"][i].kind = "shared" /\ Q2["compute"][i].ubatch = v
                  /\ Q2["compute"][i].layer = l
    <3>0. "compute" \in Streams
      BY DEF Streams
    <3>1. CASE l \in q[v] + 1..S[v]
      <4>1. PICK i \in 1..Len(Q["compute"]) :
                /\ Q["compute"][i].kind = "shared" /\ Q["compute"][i].ubatch = v
                /\ Q["compute"][i].layer = l
        BY <1>2, <3>1 DEF Covered
      <4> QED BY <1>3, <3>0, <4>1
    <3>2. CASE l \notin q[v] + 1..S[v]
      <4>1. v = u /\ o.kind = "shared" /\ l = S[u] + 1
        <5>1. q[v] \in Nat /\ S[v] \in Int
              /\ (S2[v] = S[v] \/ (v = u /\ o.kind = "shared" /\ S2[v] = S[v] + 1))
          BY <1>1, <1>4
        <5>2. S2[v] # S[v] /\ (S2[v] = S[v] + 1 => l = S[v] + 1)
          BY <3>2, <5>1
        <5> QED BY <5>1, <5>2
      <4>2. /\ Q2[s][e].kind = "shared" /\ Q2[s][e].ubatch = v /\ Q2[s][e].layer = l
            /\ e \in 1..Len(Q2[s]) /\ s = "compute"
        BY <1>3, <1>5, <4>1 DEF u
      <4> QED BY <4>2, Zenon
    <3> QED BY <3>1, <3>2
  <2> QED BY <2>1, <2>2 DEF Covered
<1>11. Counted(U, M2, S2, p, q)
  <2>1. ASSUME NEW v \in U
        PROVE  /\ p[v] <= M2[v] /\ q[v] <= S2[v] /\ p[v] <= 6 * q[v] + 5
               /\ 6 * S2[v] - 2 <= M2[v] /\ M2[v] <= 6 * S2[v] + 5
    <3>1. CASE v # u
      BY <1>4, <1>6, <3>1
    <3>2. CASE v = u
      <4>1. /\ p[u] <= M[u] /\ q[u] <= S[u] /\ p[u] <= 6 * q[u] + 5
            /\ 6 * S[u] - 2 <= M[u] /\ M[u] <= 6 * S[u] + 5
            /\ M[u] \in Int /\ S[u] \in Int /\ p[u] \in Nat /\ q[u] \in Nat
        BY <1>1, <1>4, <1>6 DEF u
      <4> DEFINE a == p[u]
                 b == q[u]
                 m == M[u]
                 n == S[u]
                 m2 == M2[u]
                 n2 == S2[u]
      <4>2. /\ a <= m /\ b <= n /\ a <= 6 * b + 5 /\ 6 * n - 2 <= m /\ m <= 6 * n + 5
            /\ a \in Nat /\ b \in Nat /\ m \in Int /\ n \in Int
        BY <4>1
      <4>3. \/ m2 = m + 1 /\ n2 = n /\ m2 <= 6 * n + 5
            \/ m2 = m /\ n2 = n + 1 /\ 6 * n + 4 <= m
            \/ m2 = m /\ n2 = n
        <5>1. CASE Main(o)
          <6>1. o.kind # "shared"
            BY <1>1, <5>1
          <6>2. M2[u] = M[u] + 1 /\ S2[u] = S[u]
            BY <1>4, <5>1, <6>1
          <6>3. Num(o) = M2[u] /\ Num(o) <= 6 * S[u] + 5
            BY <1>5, <5>1
          <6> QED BY <6>2, <6>3
        <5>2. CASE o.kind = "shared"
          <6>1. ~ Main(o)
            BY <1>1, <5>2
          <6>2. M2[u] = M[u] /\ S2[u] = S[u] + 1
            BY <1>4, <5>2, <6>1
          <6>3. 6 * S[u] + 4 <= M[u]
            BY <1>5, <5>2
          <6> QED BY <6>2, <6>3
        <5>3. CASE ~ Main(o) /\ o.kind # "shared"
          BY <1>4, <5>3
        <5> QED BY <5>1, <5>2, <5>3
      <4> HIDE DEF a, b, m, n, m2, n2
      <4>4. a <= m2 /\ b <= n2 /\ a <= 6 * b + 5 /\ 6 * n2 - 2 <= m2 /\ m2 <= 6 * n2 + 5
        <5>1. CASE m2 = m + 1 /\ n2 = n /\ m2 <= 6 * n + 5
          BY <4>2, <5>1
        <5>2. CASE m2 = m /\ n2 = n + 1 /\ 6 * n + 4 <= m
          BY <4>2, <5>2
        <5>3. CASE m2 = m /\ n2 = n
          BY <4>2, <5>3
        <5> QED BY <4>3, <5>1, <5>2, <5>3
      <4>5. /\ p[u] <= M2[u] /\ q[u] <= S2[u] /\ p[u] <= 6 * q[u] + 5
            /\ 6 * S2[u] - 2 <= M2[u] /\ M2[u] <= 6 * S2[u] + 5
        BY <4>4 DEF a, b, m2, n2
      <4> QED BY <3>2, <4>5
    <3> QED BY <3>1, <3>2
  <2> QED BY <1>6, <2>1 DEF Counted
<1> QED BY <1>7, <1>8, <1>9, <1>10, <1>11 DEF Fine

\* A queue without its head.
Moved(s, t, i) == IF t = s THEN i + 1 ELSE i
Shorter(Q, N, Q2, s) ==
    /\ \A t \in Streams : Len(Q[t]) \in Nat /\ Len(Q2[t]) \in Nat
    /\ \A t \in Streams : \A i \in 1..Len(Q2[t]) :
            /\ Moved(s, t, i) \in 1..Len(Q[t]) /\ Q2[t][i] = Q[t][Moved(s, t, i)]
            /\ Where(Q2, N, t, i) = Where(Q, N, t, Moved(s, t, i))
            /\ t = s => 1 < Moved(s, t, i)
    /\ \A t \in Streams : \A j \in 1..Len(Q[t]) :
            (t = s /\ j = 1) \/ \E i \in 1..Len(Q2[t]) : Q2[t][i] = Q[t][j]
    /\ \A t \in Streams : \A i, j \in 1..Len(Q2[t]) : i < j => Moved(s, t, i) < Moved(s, t, j)

\* The tail of a stream is shorter in this sense.
LEMMA TailShortens ==
  ASSUME NEW X, NEW Q \in [Streams -> Seq(X)], NEW N \in [Streams -> Nat], NEW s \in Streams,
         Q[s] # << >>, NEW Q2 \in [Streams -> Seq(X)], Q2[s] = Tail(Q[s]),
         \A t \in Streams \ {s} : Q2[t] = Q[t]
  PROVE  /\ Shorter(Q, N, Q2, s)
         /\ Head(Q[s]) = Q[s][1] /\ 1 \in 1..Len(Q[s]) /\ Q[s][1] \in X
<1> DEFINE a == Q[s]
           b == Tail(a)
<1>1. a \in Seq(X) /\ a # << >> /\ Q2[s] = b
  OBVIOUS
<1> HIDE DEF a
<1>2. /\ b \in Seq(X) /\ Len(a) \in Nat /\ Len(a) >= 1 /\ Len(b) = Len(a) - 1
      /\ \A i \in 1..Len(b) : b[i] = a[i + 1]
  BY <1>1
<1>3. Head(a) = a[1] /\ a[1] \in X /\ 1 \in 1..Len(a)
  BY <1>1, <1>2
<1> HIDE DEF b
<1>4. ASSUME NEW t \in Streams
      PROVE  Len(Q[t]) \in Nat /\ Len(Q2[t]) \in Nat
  OBVIOUS
<1>5. ASSUME NEW t \in Streams, NEW i \in 1..Len(Q2[t])
      PROVE  /\ Moved(s, t, i) \in 1..Len(Q[t]) /\ Q2[t][i] = Q[t][Moved(s, t, i)]
             /\ Where(Q2, N, t, i) = Where(Q, N, t, Moved(s, t, i))
             /\ t = s => 1 < Moved(s, t, i)
  <2>1. CASE t = s
    <3>1. i \in 1..Len(b) /\ Moved(s, t, i) = i + 1
      BY <1>1, <2>1 DEF Moved
    <3>2. i + 1 \in 1..Len(a) /\ b[i] = a[i + 1] /\ 1 < i + 1
      BY <1>2, <3>1
    <3>3. N[s] - Len(b) + i = N[s] - Len(a) + (i + 1)
      <4> DEFINE x == Len(a)
                 y == Len(b)
                 z == N[s]
      <4>1. x \in Nat /\ y = x - 1 /\ z \in Nat /\ i \in Int
        BY <1>2, <3>1
      <4> HIDE DEF x, y, z
      <4>2. z - y + i = z - x + (i + 1)
        BY <4>1
      <4> QED BY <4>2 DEF x, y, z
    <3> QED BY <1>1, <2>1, <3>1, <3>2, <3>3 DEF Where, a
  <2>2. CASE t # s
    BY <2>2 DEF Where, Moved
  <2> QED BY <2>1, <2>2
<1>6. ASSUME NEW t \in Streams, NEW j \in 1..Len(Q[t]), ~ (t = s /\ j = 1)
      PROVE  \E i \in 1..Len(Q2[t]) : Q2[t][i] = Q[t][j]
  <2>1. CASE t = s
    <3>1. j \in 1..Len(a) /\ j # 1
      BY <1>6, <2>1 DEF a
    <3>2. j - 1 \in 1..Len(b) /\ (j - 1) + 1 = j
      BY <1>2, <3>1
    <3>3. b[j - 1] = a[j]
      BY <1>2, <3>2
    <3> QED BY <1>1, <2>1, <3>2, <3>3 DEF a
  <2>2. CASE t # s
    BY <2>2
  <2> QED BY <2>1, <2>2
<1>7. ASSUME NEW t \in Streams, NEW i \in 1..Len(Q2[t]), NEW j \in 1..Len(Q2[t]), i < j
      PROVE  Moved(s, t, i) < Moved(s, t, j)
  BY <1>7 DEF Moved
<1>8. Shorter(Q, N, Q2, s)
  BY <1>4, <1>5, <1>6, <1>7 DEF Shorter
<1> QED BY <1>3, <1>8 DEF a

\* What is at the head of a stream that may go on is the next of its microbatch.
IsNext(p, q, o) ==
    /\ Main(o) => p[o.ubatch] = Num(o) - 1
    /\ o.kind = "sum" => q[o.ubatch] = o.layer
    /\ o.kind = "shared" => /\ q[o.ubatch] = o.layer - 1
                            /\ 6 * o.layer - 3 <= p[o.ubatch] /\ p[o.ubatch] <= 6 * o.layer - 1

\* A head that is ready is the next of its microbatch.
LEMMA HeadIsNext ==
  ASSUME NEW md, NEW U, NEW Q \in [Streams -> Seq(OpsOf(U))], NEW N \in [Streams -> Nat],
         NEW M \in [U -> Int], NEW S \in [U -> Int],
         NEW p \in [U -> Nat], NEW q \in [U -> Nat], Fine(md, U, Q, N, M, S, p, q),
         NEW s \in Streams, 1 \in 1..Len(Q[s]),
         Where(Q, N, OtherStream(s), 0) >= Q[s][1].after
  PROVE  IsNext(p, q, Q[s][1])
<1> DEFINE o == Q[s][1]
           u == o.ubatch
<1>1. \A t \in Streams : \A i \in 1..Len(Q[t]) : Q[t][i] \in OpsOf(U)
  OBVIOUS
<1>2. /\ o \in OpsOf(U) /\ u \in U /\ o.layer \in Nat /\ o.after \in Nat
      /\ M[u] \in Int /\ S[u] \in Int /\ p[u] \in Nat /\ q[u] \in Nat
  <2>1. o \in OpsOf(U)
    BY <1>1
  <2> HIDE DEF o
  <2>2. u \in U /\ o.layer \in Nat /\ o.after \in Nat
    BY <2>1 DEF OpsOf
  <2> QED BY <2>1, <2>2
<1>3. /\ Listed(md, Q, M, S, p, q) /\ Ordered(Q) /\ Waiting(Q, N)
      /\ Covered(U, Q, M, S, p, q) /\ Counted(U, M, S, p, q)
  BY DEF Fine
<1>4. \A t \in Streams : t = s \/ t = OtherStream(s)
  BY DEF Streams, OtherStream
<1>5. /\ p[u] <= M[u] /\ q[u] <= S[u] /\ 6 * q[u] - 3 <= p[u] /\ p[u] <= 6 * q[u] + 5
      /\ 6 * S[u] - 2 <= M[u] /\ M[u] <= 6 * S[u] + 5
  BY <1>2, <1>3 DEF Counted
<1>6. ASSUME Main(o) PROVE p[u] = Num(o) - 1
  <2>1. Num(o) \in Int /\ p[u] < Num(o) /\ Num(o) <= M[u] /\ s = StreamOf(md, o.kind)
    BY <1>2, <1>3, <1>6, NumbersDiffer DEF Listed
  <2>2. ASSUME p[u] # Num(o) - 1 PROVE FALSE
    <3> DEFINE n == Num(o) - 1
    <3>1. n \in p[u] + 1..M[u]
      BY <1>2, <2>1, <2>2
    <3>2. PICK t \in Streams : \E i \in 1..Len(Q[t]) :
              Main(Q[t][i]) /\ Q[t][i].ubatch = u /\ Num(Q[t][i]) = n
      BY <1>2, <1>3, <3>1 DEF Covered
    <3>3. PICK i \in 1..Len(Q[t]) : Main(Q[t][i]) /\ Q[t][i].ubatch = u /\ Num(Q[t][i]) = n
      BY <3>2
    <3>4. CASE t = s
      <4>1. i # 1
        BY <2>1, <3>3, <3>4
      <4>2. 1 < i
        BY <4>1
      <4>3. Before(Q[s][1], Q[s][i])
        BY <1>3, <3>3, <3>4, <4>2 DEF Ordered
      <4>4. Num(o) < Num(Q[s][i])
        BY <1>6, <3>3, <3>4, <4>3 DEF Before
      <4> QED BY <2>1, <3>3, <3>4, <4>4
    <3>5. CASE t # s
      <4>1. Where(Q, N, t, i) <= o.after
        BY <1>3, <1>6, <3>3, <3>5 DEF Waiting
      <4>2. t = OtherStream(s)
        BY <1>4, <3>5
      <4> DEFINE x == N[t] - Len(Q[t])
      <4>3. x \in Int /\ x + i <= o.after /\ x + 0 >= o.after
        BY <4>1, <4>2 DEF Where
      <4> HIDE DEF x, o
      <4> QED BY <1>2, <4>3
    <3> QED BY <3>4, <3>5
  <2> QED BY <2>2
<1>7. ASSUME o.kind = "sum" PROVE q[u] = o.layer
  <2>1. Main(o) /\ Num(o) = 6 * o.layer /\ "compute" \in Streams
    <3>1. Main(o) /\ Num(o) = 6 * (o.layer - 1) + 6
      BY <1>7 DEF Main, MainKinds, Num, Index
    <3> QED BY <1>2, <3>1 DEF Streams
  <2>2. Num(o) <= M[u] /\ s = StreamOf(md, o.kind) /\ p[u] = Num(o) - 1
    BY <1>3, <1>6, <2>1 DEF Listed
  <2>3. s = "compute"
    BY <1>7, <2>2 DEF StreamOf
  <2> DEFINE l == o.layer
             a == p[u]
             b == q[u]
             m == M[u]
             n == S[u]
  <2>4. /\ a = 6 * l - 1 /\ 6 * l <= m /\ m <= 6 * n + 5 /\ 6 * b - 3 <= a /\ a <= 6 * b + 5
        /\ a \in Nat /\ b \in Nat /\ m \in Int /\ n \in Int /\ l \in Nat
    BY <1>2, <1>5, <2>1, <2>2
  <2> HIDE DEF o, l, a, b, m, n
  <2>5. (b = l \/ b = l - 1) /\ l <= n
    BY <2>4
  <2>6. ASSUME b = l - 1 PROVE FALSE
    <3>1. l \in q[u] + 1..S[u]
      BY <2>4, <2>5, <2>6 DEF b, n
    <3>2. PICK i \in 1..Len(Q["compute"]) :
              /\ Q["compute"][i].kind = "shared" /\ Q["compute"][i].ubatch = u
              /\ Q["compute"][i].layer = l
      BY <1>2, <1>3, <3>1 DEF Covered
    <3>3. i # 1
      BY <1>7, <2>3, <3>2 DEF o
    <3>4. 1 < i
      BY <3>3
    <3>5. Before(o, Q["compute"][i])
      BY <1>3, <2>1, <2>3, <3>2, <3>4 DEF Ordered, o
    <3>6. Num(o) < 6 * l
      BY <2>1, <3>2, <3>5 DEF Before
    <3> QED BY <2>1, <2>4, <3>6 DEF l
  <2> QED BY <2>5, <2>6 DEF b, l
<1>8. ASSUME o.kind = "shared"
      PROVE  /\ q[u] = o.layer - 1
             /\ 6 * o.layer - 3 <= p[u] /\ p[u] <= 6 * o.layer - 1
  <2>1. s = "compute" /\ q[u] < o.layer /\ o.layer <= S[u]
    BY <1>3, <1>8 DEF Listed
  <2> DEFINE l == o.layer
             a == p[u]
             b == q[u]
             m == M[u]
             n == S[u]
  <2>2. /\ b < l /\ l <= n /\ 6 * n - 2 <= m /\ a <= m /\ 6 * b - 3 <= a /\ a <= 6 * b + 5
        /\ a \in Nat /\ b \in Nat /\ m \in Int /\ n \in Int /\ l \in Nat
    BY <1>2, <1>5, <2>1
  <2>3. b = l - 1
    <3>1. ASSUME b # l - 1 PROVE FALSE
      <4>1. l - 1 \in q[u] + 1..S[u]
        <5> HIDE DEF o, l, a, b, m, n
        <5>1. b + 1 <= l - 1 /\ l - 1 <= n /\ l - 1 \in Int
          BY <2>2, <3>1
        <5> QED BY <2>2, <5>1 DEF b, n
      <4>2. PICK i \in 1..Len(Q["compute"]) :
                /\ Q["compute"][i].kind = "shared" /\ Q["compute"][i].ubatch = u
                /\ Q["compute"][i].layer = l - 1
        BY <1>2, <1>3, <4>1 DEF Covered
      <4>3. i # 1
        BY <2>1, <2>2, <4>2
      <4>4. 1 < i
        BY <4>3
      <4>5. Before(o, Q["compute"][i])
        BY <1>3, <2>1, <4>2, <4>4 DEF Ordered
      <4>6. l < l - 1
        BY <1>8, <4>2, <4>5 DEF Before
      <4> HIDE DEF l
      <4> QED BY <2>2, <4>6
    <3> QED BY <3>1
  <2>4. 6 * l - 3 <= a
    <3>1. ASSUME a < 6 * l - 3 PROVE FALSE
      <4> DEFINE k == 6 * l - 3
      <4>1. k \in p[u] + 1..M[u]
        <5> HIDE DEF o, l, a, b, m, n
        <5>1. a + 1 <= 6 * l - 3 /\ 6 * l - 3 <= m /\ 6 * l - 3 \in Int
          BY <2>2, <3>1
        <5> QED BY <2>2, <5>1 DEF a, m
      <4>2. PICK t \in Streams : \E i \in 1..Len(Q[t]) :
                Main(Q[t][i]) /\ Q[t][i].ubatch = u /\ Num(Q[t][i]) = k
        BY <1>2, <1>3, <4>1 DEF Covered
      <4>3. PICK i \in 1..Len(Q[t]) : Main(Q[t][i]) /\ Q[t][i].ubatch = u /\ Num(Q[t][i]) = k
        BY <4>2
      <4> DEFINE w == Q[t][i]
      <4>4. w.kind = "experts"
        <5>1. w \in OpsOf(U) /\ Main(w) /\ Num(w) = k
          BY <1>1, <4>3
        <5> HIDE DEF w
        <5>2. w.layer \in Nat /\ w.kind \in MainKinds /\ Index(w.kind) \in 1..6
          BY <5>1 DEF OpsOf, Main, Index
        <5>3. 6 * (w.layer - 1) + Index(w.kind) = 6 * l - 3
          BY <5>1 DEF Num
        <5>4. Index(w.kind) = 3
          <6> DEFINE x == w.layer
                     y == Index(w.kind)
          <6>1. x \in Nat /\ y \in 1..6 /\ 6 * (x - 1) + y = 6 * l - 3 /\ l \in Nat
            BY <2>2, <5>2, <5>3
          <6> HIDE DEF x, y, l
          <6> DEFINE d == x - l
          <6>2. d \in Int /\ 6 * d + y = 3
            BY <6>1
          <6> HIDE DEF d
          <6>3. d = 0
            BY <6>1, <6>2
          <6>4. y = 3
            <7>1. 6 * d = 0
              BY <6>3
            <7> QED BY <6>1, <6>2, <7>1
          <6> QED BY <6>4 DEF y
        <5> QED BY <5>2, <5>4 DEF Index, MainKinds
      <4>5. t = "compute"
        <5>1. t = StreamOf(md, w.kind)
          BY <1>3, <4>3 DEF Listed
        <5> HIDE DEF w
        <5> QED BY <4>4, <5>1 DEF StreamOf
      <4>6. i # 1
        BY <1>8, <2>1, <4>4, <4>5
      <4>7. 1 < i
        BY <4>6
      <4>8. Before(o, Q[t][i])
        BY <1>3, <2>1, <4>3, <4>5, <4>7 DEF Ordered
      <4>9. Num(Q[t][i]) > 6 * l - 3
        BY <1>8, <4>3, <4>8 DEF Before
      <4> HIDE DEF l
      <4> QED BY <2>2, <4>3, <4>9
    <3> HIDE DEF o, l, a, b, m, n
    <3> QED BY <2>2, <3>1
  <2>5. a <= 6 * l - 1
    <3> HIDE DEF o, l, a, b, m, n
    <3> QED BY <2>2, <2>3
  <2> QED BY <2>3, <2>4, <2>5
<1> QED BY <1>6, <1>7, <1>8 DEF IsNext

\* What is done once o is.
Took(U, p, q, p2, q2, o) ==
    /\ \A v \in U : p2[v] = IF Main(o) /\ v = o.ubatch THEN Num(o) ELSE p[v]
    /\ \A v \in U : q2[v] = IF o.kind = "shared" /\ v = o.ubatch THEN o.layer ELSE q[v]

\* The queues without the operation that is done.
LEMMA TakeOne ==
  ASSUME NEW md, NEW U, NEW Q \in [Streams -> Seq(OpsOf(U))], NEW N \in [Streams -> Nat],
         NEW M \in [U -> Int], NEW S \in [U -> Int],
         NEW p \in [U -> Nat], NEW q \in [U -> Nat], Fine(md, U, Q, N, M, S, p, q),
         NEW s \in Streams, 1 \in 1..Len(Q[s]), IsNext(p, q, Q[s][1]),
         NEW Q2, Shorter(Q, N, Q2, s),
         NEW p2 \in [U -> Nat], NEW q2 \in [U -> Nat], Took(U, p, q, p2, q2, Q[s][1])
  PROVE  Fine(md, U, Q2, N, M, S, p2, q2)
<1> DEFINE o == Q[s][1]
           u == o.ubatch
<1>1. \A t \in Streams : \A i \in 1..Len(Q[t]) :
          /\ Q[t][i] \in OpsOf(U) /\ Q[t][i].layer \in Nat /\ Q[t][i].ubatch \in U
          /\ Main(Q[t][i]) => Num(Q[t][i]) \in Int /\ Q[t][i].kind # "shared"
  <2>1. ASSUME NEW a \in OpsOf(U)
        PROVE  /\ a.layer \in Nat /\ a.ubatch \in U
               /\ Main(a) => Num(a) \in Int /\ a.kind # "shared"
    <3>1. a.layer \in Nat /\ a.ubatch \in U
      BY DEF OpsOf
    <3>2. Main(a) => Num(a) \in Int
      BY NumbersDiffer
    <3>3. Main(a) => a.kind # "shared"
      BY DEF Main, MainKinds
    <3> QED BY <3>1, <3>2, <3>3
  <2>2. \A t \in Streams : \A i \in 1..Len(Q[t]) : Q[t][i] \in OpsOf(U)
    OBVIOUS
  <2> QED BY <2>1, <2>2
<1>2. /\ o \in OpsOf(U) /\ u \in U /\ o.layer \in Nat
      /\ Main(o) => Num(o) \in Int /\ o.kind # "shared"
      /\ \A v \in U : M[v] \in Int /\ S[v] \in Int /\ p[v] \in Nat /\ q[v] \in Nat
                      /\ p2[v] \in Nat /\ q2[v] \in Nat
  BY <1>1
<1>3. /\ Listed(md, Q, M, S, p, q) /\ Ordered(Q) /\ Waiting(Q, N)
      /\ Covered(U, Q, M, S, p, q) /\ Counted(U, M, S, p, q)
  BY DEF Fine
<1>4. /\ Main(o) => p[u] = Num(o) - 1
      /\ o.kind = "sum" => q[u] = o.layer
      /\ o.kind = "shared" => /\ q[u] = o.layer - 1
                              /\ 6 * o.layer - 3 <= p[u] /\ p[u] <= 6 * o.layer - 1
  BY DEF IsNext
<1>5. /\ \A v \in U : p2[v] = IF Main(o) /\ v = u THEN Num(o) ELSE p[v]
      /\ \A v \in U : q2[v] = IF o.kind = "shared" /\ v = u THEN o.layer ELSE q[v]
  BY DEF Took
<1>6. /\ \A t \in Streams : \A i \in 1..Len(Q2[t]) :
            /\ Moved(s, t, i) \in 1..Len(Q[t]) /\ Q2[t][i] = Q[t][Moved(s, t, i)]
            /\ Where(Q2, N, t, i) = Where(Q, N, t, Moved(s, t, i))
            /\ t = s => 1 < Moved(s, t, i)
      /\ \A t \in Streams : \A j \in 1..Len(Q[t]) :
            (t = s /\ j = 1) \/ \E i \in 1..Len(Q2[t]) : Q2[t][i] = Q[t][j]
      /\ \A t \in Streams : \A i, j \in 1..Len(Q2[t]) : i < j => Moved(s, t, i) < Moved(s, t, j)
  BY DEF Shorter
<1>7. /\ Main(o) => s = StreamOf(md, o.kind) /\ Num(o) <= M[u]
      /\ o.kind = "shared" => s = "compute" /\ o.layer <= S[u]
  BY <1>3 DEF Listed
<1>8. \A i \in 1..Len(Q[s]) : 1 < i /\ Q[s][i].ubatch = u => Before(o, Q[s][i])
  BY <1>3 DEF Ordered
<1> HIDE DEF o, u
<1>9. Listed(md, Q2, M, S, p2, q2)
  <2>1. ASSUME NEW t \in Streams, NEW i \in 1..Len(Q2[t])
        PROVE  /\ Main(Q2[t][i]) => /\ t = StreamOf(md, Q2[t][i].kind)
                                    /\ p2[Q2[t][i].ubatch] < Num(Q2[t][i])
                                    /\ Num(Q2[t][i]) <= M[Q2[t][i].ubatch]
               /\ Q2[t][i].kind = "shared" => /\ t = "compute"
                                              /\ q2[Q2[t][i].ubatch] < Q2[t][i].layer
                                              /\ Q2[t][i].layer <= S[Q2[t][i].ubatch]
    <3> DEFINE k == Moved(s, t, i)
               a == Q[t][k]
               v == a.ubatch
    <3>1. k \in 1..Len(Q[t]) /\ Q2[t][i] = a /\ (t = s => 1 < k)
      BY <1>6
    <3>2. /\ a \in OpsOf(U) /\ a.layer \in Nat /\ v \in U
          /\ Main(a) => Num(a) \in Int /\ a.kind # "shared"
      BY <1>1, <3>1
    <3>3. /\ Main(a) => t = StreamOf(md, a.kind) /\ p[v] < Num(a) /\ Num(a) <= M[v]
          /\ a.kind = "shared" => t = "compute" /\ q[v] < a.layer /\ a.layer <= S[v]
      BY <1>3, <3>1 DEF Listed
    <3>4. t = s /\ v = u => Before(o, a)
      BY <1>8, <3>1
    <3> HIDE DEF k, a, v
    <3>5. ASSUME Main(a) PROVE p2[v] < Num(a)
      <4>1. CASE Main(o) /\ v = u
        <5>1. /\ p2[v] = Num(o) /\ Num(o) \in Int /\ p[v] = Num(o) - 1
              /\ p[v] < Num(a) /\ Num(a) \in Int
          BY <1>2, <1>4, <1>5, <3>2, <3>3, <3>5, <4>1
        <5>2. Num(a) # Num(o)
          <6>1. ASSUME Num(a) = Num(o) PROVE FALSE
            <7>1. a.kind = o.kind
              BY <1>2, <3>2, <3>5, <4>1, <6>1, NumbersDiffer
            <7>2. t = s
              BY <1>7, <3>3, <3>5, <4>1, <7>1
            <7>3. Num(o) < Num(a)
              BY <3>4, <3>5, <4>1, <7>2 DEF Before
            <7> QED BY <5>1, <6>1, <7>3
          <6> QED BY <6>1
        <5> QED BY <5>1, <5>2
      <4>2. CASE ~ (Main(o) /\ v = u)
        BY <1>5, <3>2, <3>3, <3>5, <4>2
      <4> QED BY <4>1, <4>2
    <3>6. ASSUME a.kind = "shared" PROVE q2[v] < a.layer
      <4>1. CASE o.kind = "shared" /\ v = u
        <5>1. t = s /\ q2[v] = o.layer
          BY <1>5, <1>7, <3>2, <3>3, <3>6, <4>1
        <5>2. o.layer < a.layer
          BY <3>4, <3>6, <4>1, <5>1 DEF Before
        <5> QED BY <5>1, <5>2
      <4>2. CASE ~ (o.kind = "shared" /\ v = u)
        BY <1>5, <3>2, <3>3, <3>6, <4>2
      <4> QED BY <4>1, <4>2
    <3> QED BY <3>1, <3>3, <3>5, <3>6 DEF v
  <2> QED BY <2>1 DEF Listed
<1>10. Ordered(Q2)
  <2>1. ASSUME NEW t \in Streams, NEW i \in 1..Len(Q2[t]), NEW j \in 1..Len(Q2[t]), i < j,
               Q2[t][i].ubatch = Q2[t][j].ubatch
        PROVE  Before(Q2[t][i], Q2[t][j])
    <3>1. /\ Moved(s, t, i) \in 1..Len(Q[t]) /\ Q2[t][i] = Q[t][Moved(s, t, i)]
          /\ Moved(s, t, j) \in 1..Len(Q[t]) /\ Q2[t][j] = Q[t][Moved(s, t, j)]
          /\ Moved(s, t, i) < Moved(s, t, j)
      BY <1>6, <2>1
    <3> QED BY <1>3, <2>1, <3>1 DEF Ordered
  <2> QED BY <2>1 DEF Ordered
<1>11. Waiting(Q2, N)
  <2>1. ASSUME NEW t \in Streams, NEW w \in Streams, NEW i \in 1..Len(Q2[t]),
               NEW j \in 1..Len(Q2[w]), t # w, Main(Q2[t][i]), Main(Q2[w][j]),
               Q2[t][i].ubatch = Q2[w][j].ubatch, Num(Q2[w][j]) = Num(Q2[t][i]) - 1
        PROVE  Where(Q2, N, w, j) <= Q2[t][i].after
    <3>1. /\ Moved(s, t, i) \in 1..Len(Q[t]) /\ Q2[t][i] = Q[t][Moved(s, t, i)]
          /\ Moved(s, w, j) \in 1..Len(Q[w]) /\ Q2[w][j] = Q[w][Moved(s, w, j)]
          /\ Where(Q2, N, w, j) = Where(Q, N, w, Moved(s, w, j))
      BY <1>6
    <3> QED BY <1>3, <2>1, <3>1 DEF Waiting
  <2> QED BY <2>1 DEF Waiting
<1>12. Covered(U, Q2, M, S, p2, q2)
  <2>1. ASSUME NEW v \in U, NEW n \in p2[v] + 1..M[v]
        PROVE  \E t \in Streams : \E i \in 1..Len(Q2[t]) :
                  Main(Q2[t][i]) /\ Q2[t][i].ubatch = v /\ Num(Q2[t][i]) = n
    <3>1. n \in p[v] + 1..M[v] /\ (Main(o) /\ v = u => Num(o) < n)
      <4>1. CASE Main(o) /\ v = u
        <5>1. p2[v] = Num(o) /\ Num(o) \in Int /\ p[v] = Num(o) - 1 /\ M[v] \in Int
          BY <1>2, <1>4, <1>5, <4>1
        <5> QED BY <4>1, <5>1
      <4>2. CASE ~ (Main(o) /\ v = u)
        BY <1>5, <4>2
      <4> QED BY <4>1, <4>2
    <3>2. PICK t \in Streams : \E i \in 1..Len(Q[t]) :
              Main(Q[t][i]) /\ Q[t][i].ubatch = v /\ Num(Q[t][i]) = n
      BY <1>3, <3>1 DEF Covered
    <3>3. PICK j \in 1..Len(Q[t]) : Main(Q[t][j]) /\ Q[t][j].ubatch = v /\ Num(Q[t][j]) = n
      BY <3>2
    <3>4. ~ (t = s /\ j = 1)
      <4>1. ASSUME t = s, j = 1 PROVE FALSE
        <5>1. Main(o) /\ v = u /\ Num(o) = n
          BY <3>3, <4>1 DEF o, u
        <5> QED BY <1>2, <3>1, <5>1
      <4> QED BY <4>1
    <3>5. PICK i \in 1..Len(Q2[t]) : Q2[t][i] = Q[t][j]
      BY <1>6, <3>4
    <3> QED BY <3>3, <3>5
  <2>2. ASSUME NEW v \in U, NEW l \in q2[v] + 1..S[v]
        PROVE  \E i \in 1..Len(Q2["compute"]) :
                  /\ Q2["compute"][i].kind = "shared" /\ Q2["compute"][i].ubatch = v
                  /\ Q2["compute"][i].layer = l
    <3>0. "compute" \in Streams
      BY DEF Streams
    <3>1. l \in q[v] + 1..S[v] /\ (o.kind = "shared" /\ v = u => o.layer < l)
      <4>1. CASE o.kind = "shared" /\ v = u
        <5>1. q2[v] = o.layer /\ o.layer \in Nat /\ q[v] = o.layer - 1 /\ S[v] \in Int
          BY <1>2, <1>4, <1>5, <4>1
        <5> QED BY <4>1, <5>1
      <4>2. CASE ~ (o.kind = "shared" /\ v = u)
        BY <1>5, <4>2
      <4> QED BY <4>1, <4>2
    <3>2. PICK j \in 1..Len(Q["compute"]) :
              /\ Q["compute"][j].kind = "shared" /\ Q["compute"][j].ubatch = v
              /\ Q["compute"][j].layer = l
      BY <1>3, <3>1 DEF Covered
    <3>3. ~ ("compute" = s /\ j = 1)
      <4>1. ASSUME s = "compute", j = 1 PROVE FALSE
        <5>1. o.kind = "shared" /\ v = u /\ o.layer = l
          BY <3>2, <4>1 DEF o, u
        <5> QED BY <1>2, <3>1, <5>1
      <4> QED BY <4>1
    <3>4. PICK i \in 1..Len(Q2["compute"]) : Q2["compute"][i] = Q["compute"][j]
      BY <1>6, <3>0, <3>3
    <3> QED BY <3>2, <3>4
  <2> QED BY <2>1, <2>2 DEF Covered
<1>13. Counted(U, M, S, p2, q2)
  <2>1. ASSUME NEW v \in U
        PROVE  /\ p2[v] <= M[v] /\ q2[v] <= S[v] /\ 6 * q2[v] - 3 <= p2[v] /\ p2[v] <= 6 * q2[v] + 5
               /\ 6 * S[v] - 2 <= M[v] /\ M[v] <= 6 * S[v] + 5
    <3>1. /\ p[v] <= M[v] /\ q[v] <= S[v] /\ 6 * q[v] - 3 <= p[v] /\ p[v] <= 6 * q[v] + 5
          /\ 6 * S[v] - 2 <= M[v] /\ M[v] <= 6 * S[v] + 5
      BY <1>3 DEF Counted
    <3>2. CASE ~ (Main(o) /\ v = u) /\ ~ (o.kind = "shared" /\ v = u)
      <4>1. p2[v] = p[v] /\ q2[v] = q[v]
        BY <1>5, <3>2
      <4> QED BY <3>1, <4>1
    <3>3. CASE Main(o) /\ v = u
      <4>1. p2[v] = Num(o) /\ q2[v] = q[v] /\ p[v] = Num(o) - 1 /\ Num(o) <= M[v]
            /\ Num(o) \in Int
        BY <1>2, <1>4, <1>5, <1>7, <3>3
      <4>2. Num(o) # 6 * q[v] + 6
        <5>1. Index(o.kind) \in 1..6 /\ (Index(o.kind) = 6 => o.kind = "sum")
          BY <3>3 DEF Index, Main, MainKinds
        <5> DEFINE x == Index(o.kind)
                   l == o.layer
                   b == q[v]
        <5>2. /\ x \in 1..6 /\ l \in Nat /\ b \in Nat /\ Num(o) = 6 * (l - 1) + x
              /\ x = 6 => b = l
          BY <1>2, <1>4, <3>3, <5>1 DEF Num
        <5> HIDE DEF x, l, b
        <5> DEFINE d == l - b
        <5>3. d \in Int /\ Num(o) - 6 * b = 6 * d - 6 + x /\ (x = 6 => d = 0)
          BY <5>2
        <5> HIDE DEF d
        <5>4. 6 * d - 6 + x # 6
          <6>1. CASE x = 6
            BY <5>3, <6>1
          <6>2. CASE x \in 1..5
            <7>1. d \in Int
              BY <5>3
            <7>2. x = 1 \/ x = 2 \/ x = 3 \/ x = 4 \/ x = 5
              BY <6>2
            <7>3. /\ 6 * d - 6 + 1 # 6 /\ 6 * d - 6 + 2 # 6 /\ 6 * d - 6 + 3 # 6
                  /\ 6 * d - 6 + 4 # 6 /\ 6 * d - 6 + 5 # 6
              BY <7>1, SMT
            <7> QED BY <7>2, <7>3
          <6>3. x = 6 \/ x \in 1..5
            BY <5>2
          <6> QED BY <6>1, <6>2, <6>3
        <5>5. Num(o) # 6 * b + 6
          BY <4>1, <5>2, <5>3, <5>4
        <5> QED BY <5>5 DEF b
      <4> DEFINE n == Num(o)
                 a == p[v]
                 b == q[v]
                 m == M[v]
      <4>3. /\ n \in Int /\ a = n - 1 /\ n <= m /\ n # 6 * b + 6 /\ 6 * b - 3 <= a /\ a <= 6 * b + 5
            /\ b \in Nat /\ m \in Int
        BY <1>2, <3>1, <4>1, <4>2
      <4> HIDE DEF n, a, b, m
      <4>4. n <= m /\ 6 * b - 3 <= n /\ n <= 6 * b + 5
        BY <4>3
      <4>5. p2[v] = n /\ q2[v] = b
        BY <4>1 DEF n, b
      <4> QED BY <3>1, <4>4, <4>5 DEF m, b
    <3>4. CASE o.kind = "shared" /\ v = u
      <4>1. ~ Main(o)
        BY <1>2, <3>4
      <4>2. p2[v] = p[v] /\ q2[v] = o.layer /\ o.layer <= S[v]
            /\ 6 * o.layer - 3 <= p[v] /\ p[v] <= 6 * o.layer - 1
        BY <1>4, <1>5, <1>7, <3>4, <4>1
      <4>3. p[v] <= 6 * o.layer + 5
        <5> DEFINE a == p[v]
                   l == o.layer
        <5>1. a \in Nat /\ l \in Nat /\ a <= 6 * l - 1
          BY <1>2, <4>2
        <5> HIDE DEF a, l
        <5>2. a <= 6 * l + 5
          BY <5>1
        <5> QED BY <5>2 DEF a, l
      <4> QED BY <3>1, <4>2, <4>3
    <3> QED BY <3>2, <3>3, <3>4
  <2> QED BY <2>1 DEF Counted
<1> QED BY <1>9, <1>10, <1>11, <1>12, <1>13 DEF Fine

\* What the buffers hold, read off the number of operations done.
LEMMA Reads ==
  ASSUME NEW b, NEW p \in Nat, NEW q \in Nat, Filled(b, p, q), NEW l \in Nat
  PROVE  /\ p = 6 * l - 6 => b["sum"] = l - 1
         /\ p = 6 * l - 5 => b["x"] = l
         /\ p = 6 * l - 4 => b["recv"] = l
         /\ p = 6 * l - 2 => b["combined"] = l
         /\ p = 6 * l - 1 => b["output"] = l
         /\ 6 * l - 3 <= p /\ p <= 6 * l - 1 => b["x"] = l
<1> DEFINE x == b["x"]
           y == b["recv"]
           z == b["combined"]
           w == b["sum"]
<1>1. x \in Nat /\ y \in Nat /\ z \in Nat /\ w \in Nat
  BY DEF Filled, Buffers
<1>2. /\ 6 * x - 5 <= p /\ p <= 6 * x /\ 6 * y - 4 <= p /\ p <= 6 * y + 1
      /\ 6 * z - 2 <= p /\ p <= 6 * z + 3 /\ 6 * w <= p /\ p <= 6 * w + 5
  BY DEF Filled
<1> HIDE DEF x, y, z, w
<1>3. p = 6 * l - 6 => w = l - 1
  BY <1>1, <1>2
<1>4. p = 6 * l - 5 => x = l
  BY <1>1, <1>2
<1>5. p = 6 * l - 4 => y = l
  BY <1>1, <1>2
<1>6. p = 6 * l - 2 => z = l
  BY <1>1, <1>2
<1>7. 6 * l - 3 <= p /\ p <= 6 * l - 1 => x = l
  BY <1>1, <1>2
<1>8. p = 6 * l - 1 => b["output"] = l
  <2>1. p = 6 * l - 1 => l \in 1..p
    OBVIOUS
  <2> QED BY <2>1 DEF Filled
<1> QED BY <1>3, <1>4, <1>5, <1>6, <1>7, <1>8 DEF x, y, z, w

\* What an operation that finds its own layer's buffers leaves behind.
Result(b, o) ==
    IF o.kind = "input" THEN [b EXCEPT !["x"] = o.layer]
    ELSE IF o.kind = "dispatch" THEN [b EXCEPT !["recv"] = o.layer]
    ELSE IF o.kind = "experts" THEN IF o.arg = "none" THEN b ELSE [b EXCEPT ![o.arg] = o.layer]
    ELSE IF o.kind = "combine" THEN [b EXCEPT !["combined"] = o.layer]
    ELSE IF o.kind = "copy" THEN [b EXCEPT !["output"] = o.layer]
    ELSE IF o.kind = "shared" THEN [b EXCEPT !["shared"] = o.layer]
    ELSE IF o.kind = "sum" THEN [[b EXCEPT !["sum"] = o.layer] EXCEPT !["ws"] = None]
    ELSE b

\* Each operation fills the buffers of its own layer.
LEMMA Fills ==
  ASSUME NEW U, NEW o \in OpsOf(U), NEW b \in [Buffers -> Int], NEW p \in Nat, NEW q \in Nat,
         Filled(b, p, q),
         Main(o) => p = Num(o) - 1,
         o.kind = "shared" => 6 * o.layer - 3 <= p /\ p <= 6 * o.layer - 1,
         o.kind = "experts" => o.arg \in Dests,
         NEW p2 \in Nat, NEW q2 \in Nat,
         p2 = IF Main(o) THEN Num(o) ELSE p,
         q2 = IF o.kind = "shared" THEN o.layer ELSE q
  PROVE  Filled(Result(b, o), p2, q2)
<1> DEFINE l == o.layer
           c == Result(b, o)
           x == b["x"]
           y == b["recv"]
           z == b["combined"]
           w == b["sum"]
           x2 == c["x"]
           y2 == c["recv"]
           z2 == c["combined"]
           w2 == c["sum"]
<1>1. /\ x \in Nat /\ y \in Nat /\ z \in Nat /\ w \in Nat /\ l \in Nat
      /\ \A k \in Buffers : b[k] \in Nat
  BY DEF Filled, Buffers, OpsOf
<1>2. /\ 6 * x - 5 <= p /\ p <= 6 * x /\ 6 * y - 4 <= p /\ p <= 6 * y + 1
      /\ 6 * z - 2 <= p /\ p <= 6 * z + 3 /\ 6 * w <= p /\ p <= 6 * w + 5 /\ b["shared"] = q
  BY DEF Filled
<1>3. ASSUME o.kind = "experts" PROVE o.arg \in {"none", "ws", "output"}
  BY <1>3 DEF Dests
<1>4. DOMAIN b = Buffers /\ {"x", "recv", "combined", "sum", "output", "shared", "ws"} = Buffers
  BY DEF Buffers
<1>5. /\ x2 = IF o.kind = "input" THEN l ELSE x
      /\ y2 = IF o.kind = "dispatch" THEN l ELSE y
      /\ z2 = IF o.kind = "combine" THEN l ELSE z
      /\ w2 = IF o.kind = "sum" THEN l ELSE w
      /\ c["shared"] = IF o.kind = "shared" THEN l ELSE b["shared"]
      /\ o.kind = "copy" => c["output"] = l
      /\ o.kind \notin {"copy", "experts"} => c["output"] = b["output"]
  BY <1>3, <1>4 DEF Result
<1>6. \A k \in Buffers : c[k] \in Nat
  <2>1. ASSUME NEW k \in Buffers PROVE c[k] = b[k] \/ c[k] = l \/ c[k] = None
    BY <1>3, <1>4 DEF Result
  <2> QED BY <1>1, <2>1 DEF None
<1> HIDE DEF x, y, z, w, x2, y2, z2, w2, c
<1>7. CASE Main(o)
  <2>1. p = Num(o) - 1 /\ p2 = p + 1 /\ Num(o) = 6 * (l - 1) + Index(o.kind)
        /\ q2 = q /\ o.kind # "shared"
    <3>1. o.kind # "shared"
      BY <1>7 DEF Main, MainKinds
    <3>2. Num(o) \in Int
      BY <1>7, NumbersDiffer
    <3> QED BY <1>7, <3>1, <3>2 DEF Num
  <2>2. ASSUME NEW i \in 1..6, Index(o.kind) = i
        PROVE  p = 6 * l + i - 7 /\ p2 = 6 * l + i - 6
    <3> HIDE DEF l
    <3> QED BY <1>1, <2>1, <2>2
  <2>3. /\ 6 * x2 - 5 <= p2 /\ p2 <= 6 * x2 /\ 6 * y2 - 4 <= p2 /\ p2 <= 6 * y2 + 1
        /\ 6 * z2 - 2 <= p2 /\ p2 <= 6 * z2 + 3 /\ 6 * w2 <= p2 /\ p2 <= 6 * w2 + 5
        /\ \A j \in 1..p2 : p2 = 6 * j - 1 => c["output"] = j
    <3>1. CASE o.kind = "input"
      <4>1. p = 6 * l - 6 /\ p2 = 6 * l - 5 /\ x2 = l /\ y2 = y /\ z2 = z /\ w2 = w
        <5>1. Index(o.kind) = 1 /\ 1 \in 1..6
          BY <3>1 DEF Index
        <5>2. p = 6 * l + 1 - 7 /\ p2 = 6 * l + 1 - 6
          BY <2>2, <5>1
        <5>3. p = 6 * l - 6 /\ p2 = 6 * l - 5
          <6> HIDE DEF l
          <6> QED BY <1>1, <5>2
        <5>4. x2 = l /\ y2 = y /\ z2 = z /\ w2 = w
          BY <1>5, <3>1, Zenon
        <5> QED BY <5>3, <5>4
      <4> HIDE DEF l
      <4>2. \A j \in 1..p2 : p2 # 6 * j - 1
        BY <1>1, <4>1
      <4> QED BY <1>1, <1>2, <4>1, <4>2
    <3>2. CASE o.kind = "dispatch"
      <4>1. p = 6 * l - 5 /\ p2 = 6 * l - 4 /\ x2 = x /\ y2 = l /\ z2 = z /\ w2 = w
        <5>1. Index(o.kind) = 2 /\ 2 \in 1..6
          BY <3>2 DEF Index
        <5>2. p = 6 * l + 2 - 7 /\ p2 = 6 * l + 2 - 6
          BY <2>2, <5>1
        <5>3. p = 6 * l - 5 /\ p2 = 6 * l - 4
          <6> HIDE DEF l
          <6> QED BY <1>1, <5>2
        <5>4. x2 = x /\ y2 = l /\ z2 = z /\ w2 = w
          BY <1>5, <3>2, Zenon
        <5> QED BY <5>3, <5>4
      <4> HIDE DEF l
      <4>2. \A j \in 1..p2 : p2 # 6 * j - 1
        BY <1>1, <4>1
      <4> QED BY <1>1, <1>2, <4>1, <4>2
    <3>3. CASE o.kind = "experts"
      <4>1. p = 6 * l - 4 /\ p2 = 6 * l - 3 /\ x2 = x /\ y2 = y /\ z2 = z /\ w2 = w
        <5>1. Index(o.kind) = 3 /\ 3 \in 1..6
          BY <3>3 DEF Index
        <5>2. p = 6 * l + 3 - 7 /\ p2 = 6 * l + 3 - 6
          BY <2>2, <5>1
        <5>3. p = 6 * l - 4 /\ p2 = 6 * l - 3
          <6> HIDE DEF l
          <6> QED BY <1>1, <5>2
        <5>4. x2 = x /\ y2 = y /\ z2 = z /\ w2 = w
          BY <1>5, <3>3, Zenon
        <5> QED BY <5>3, <5>4
      <4> HIDE DEF l
      <4>2. \A j \in 1..p2 : p2 # 6 * j - 1
        BY <1>1, <4>1
      <4> QED BY <1>1, <1>2, <4>1, <4>2
    <3>4. CASE o.kind = "combine"
      <4>1. p = 6 * l - 3 /\ p2 = 6 * l - 2 /\ x2 = x /\ y2 = y /\ z2 = l /\ w2 = w
        <5>1. Index(o.kind) = 4 /\ 4 \in 1..6
          BY <3>4 DEF Index
        <5>2. p = 6 * l + 4 - 7 /\ p2 = 6 * l + 4 - 6
          BY <2>2, <5>1
        <5>3. p = 6 * l - 3 /\ p2 = 6 * l - 2
          <6> HIDE DEF l
          <6> QED BY <1>1, <5>2
        <5>4. x2 = x /\ y2 = y /\ z2 = l /\ w2 = w
          BY <1>5, <3>4, Zenon
        <5> QED BY <5>3, <5>4
      <4> HIDE DEF l
      <4>2. \A j \in 1..p2 : p2 # 6 * j - 1
        BY <1>1, <4>1
      <4> QED BY <1>1, <1>2, <4>1, <4>2
    <3>5. CASE o.kind = "copy"
      <4>1. p = 6 * l - 2 /\ p2 = 6 * l - 1 /\ x2 = x /\ y2 = y /\ z2 = z /\ w2 = w
            /\ c["output"] = l
        <5>1. Index(o.kind) = 5 /\ 5 \in 1..6
          BY <3>5 DEF Index
        <5>2. p = 6 * l + 5 - 7 /\ p2 = 6 * l + 5 - 6
          BY <2>2, <5>1
        <5>3. p = 6 * l - 2 /\ p2 = 6 * l - 1
          <6> HIDE DEF l
          <6> QED BY <1>1, <5>2
        <5>4. x2 = x /\ y2 = y /\ z2 = z /\ w2 = w
            /\ c["output"] = l
          BY <1>5, <3>5, Zenon
        <5> QED BY <5>3, <5>4
      <4> HIDE DEF l
      <4>2. \A j \in 1..p2 : p2 = 6 * j - 1 => j = l
        BY <1>1, <4>1
      <4> QED BY <1>1, <1>2, <4>1, <4>2
    <3>6. CASE o.kind = "sum"
      <4>1. p = 6 * l - 1 /\ p2 = 6 * l /\ x2 = x /\ y2 = y /\ z2 = z /\ w2 = l
        <5>1. Index(o.kind) = 6 /\ 6 \in 1..6
          BY <3>6 DEF Index
        <5>2. p = 6 * l + 6 - 7 /\ p2 = 6 * l + 6 - 6
          BY <2>2, <5>1
        <5>3. p = 6 * l - 1 /\ p2 = 6 * l
          <6> HIDE DEF l
          <6> QED BY <1>1, <5>2
        <5>4. x2 = x /\ y2 = y /\ z2 = z /\ w2 = l
          BY <1>5, <3>6, Zenon
        <5> QED BY <5>3, <5>4
      <4> HIDE DEF l
      <4>2. \A j \in 1..p2 : p2 # 6 * j - 1
        BY <1>1, <4>1
      <4> QED BY <1>1, <1>2, <4>1, <4>2
    <3> QED BY <1>7, <3>1, <3>2, <3>3, <3>4, <3>5, <3>6 DEF Main, MainKinds
  <2>4. c["shared"] = q2
    BY <1>2, <1>5, <2>1
  <2> QED BY <1>6, <2>3, <2>4 DEF Filled, x2, y2, z2, w2, c
<1>8. CASE ~ Main(o)
  <2>1. o.kind \in {"shared", "barrier"} /\ p2 = p
    BY <1>8 DEF Main, MainKinds, OpsOf, Kinds
  <2>2. x2 = x /\ y2 = y /\ z2 = z /\ w2 = w /\ c["output"] = b["output"] /\ c["shared"] = q2
    BY <1>2, <1>5, <2>1
  <2>3. \A j \in 1..p2 : p2 = 6 * j - 1 => c["output"] = j
    BY <2>1, <2>2 DEF Filled
  <2> QED BY <1>2, <1>6, <2>1, <2>2, <2>3 DEF Filled, x2, y2, z2, w2, c
<1> QED BY <1>7, <1>8

\* The next operation of a stream is due.
DueAt(r, s, p, q, o) ==
    /\ o \in OpsOf(Ubatches) /\ IsNext(p, q, o)
    /\ Main(o) => s = StreamOf(setup, o.kind)
    /\ o.kind = "experts" => o.arg \in Dests
    /\ o.kind = "combine" => /\ o.arg[1] = o.layer
                             /\ o.arg[2] = "none" \/ mem[r][o.ubatch][o.arg[2]] = o.layer

\* What the state's parts are, for the lemmas on values.
LEMMA PartTypes ==
  ASSUME EPTypes, NEW r \in Ranks
  PROVE  /\ Ops = OpsOf(Ubatches)
         /\ queue[r] \in [Streams -> Seq(OpsOf(Ubatches))] /\ put[r] \in [Streams -> Nat]
         /\ MainPut(r) \in [Ubatches -> Int] /\ SharedPut(r) \in [Ubatches -> Int]
<1>1. Ops = OpsOf(Ubatches)
  BY DEF Ops, OpsOf
<1>2. ASSUME NEW u \in Ubatches
      PROVE  /\ 6 * (layer[r][u] - 1) + PutIndex(pc[r][u]) \in Int
             /\ layer[r][u] \in Int /\ layer[r][u] - 1 \in Int
  <2>1. PutIndex(pc[r][u]) \in Int
    BY DEF PutIndex
  <2>2. layer[r][u] \in Int
    BY DEF EPTypes, ThreadTypes
  <2> QED BY <2>1, <2>2
<1>3. MainPut(r) \in [Ubatches -> Int]
  BY <1>2 DEF MainPut
<1>4. SharedPut(r) \in [Ubatches -> Int]
  BY <1>2 DEF SharedPut
<1> QED BY <1>1, <1>3, <1>4 DEF EPTypes, DeviceTypes

\* What is ready is due.
LEMMA HeadDue ==
  ASSUME EPTypes, NEW r \in Ranks, NEW p \in [Ubatches -> Nat], NEW q \in [Ubatches -> Nat],
         GoodFor(r, p, q), NEW s \in Streams, Ready(r, s)
  PROVE  /\ DueAt(r, s, p, q, Head(queue[r][s]))
         /\ Head(queue[r][s]) = queue[r][s][1] /\ 1 \in 1..Len(queue[r][s])
<1> DEFINE Q == queue[r]
           N == put[r]
           o == Head(Q[s])
<1>1. /\ Q \in [Streams -> Seq(OpsOf(Ubatches))] /\ N \in [Streams -> Nat]
      /\ MainPut(r) \in [Ubatches -> Int] /\ SharedPut(r) \in [Ubatches -> Int]
  BY PartTypes
<1>2. Q[s] # << >> /\ Done(r, OtherStream(s)) >= o.after
  BY DEF Ready
<1>3. o = Q[s][1] /\ 1 \in 1..Len(Q[s]) /\ Q[s][1] \in OpsOf(Ubatches)
  <2>1. Q[s] \in Seq(OpsOf(Ubatches))
    BY <1>1
  <2> DEFINE ops == Q[s]
  <2> HIDE DEF ops
  <2>2. Head(ops) = ops[1] /\ 1 \in 1..Len(ops) /\ ops[1] \in OpsOf(Ubatches)
    BY <1>2, <2>1 DEF ops
  <2> QED BY <2>2 DEF ops
<1>4. Where(Q, N, OtherStream(s), 0) >= Q[s][1].after
  <2>1. Where(Q, N, OtherStream(s), 0) = Done(r, OtherStream(s))
    <3>1. OtherStream(s) \in Streams
      BY DEF OtherStream, Streams
    <3>2. N[OtherStream(s)] \in Nat /\ Len(Q[OtherStream(s)]) \in Nat
      BY <1>1, <3>1
    <3> QED BY <3>2 DEF Where, Done
  <2> QED BY <1>2, <1>3, <2>1
<1>5. /\ Fine(setup, Ubatches, Q, N, MainPut(r), SharedPut(r), p, q)
      /\ Args(Q, mem[r], p)
  BY DEF GoodFor
<1>6. IsNext(p, q, Q[s][1])
  BY <1>1, <1>3, <1>4, <1>5, HeadIsNext
<1>7. Main(o) => s = StreamOf(setup, o.kind)
  BY <1>3, <1>5 DEF Fine, Listed
<1>8. o.kind = "experts" => o.arg \in Dests
  BY <1>3, <1>5 DEF Args
<1>9. ASSUME o.kind = "combine"
      PROVE  o.arg[1] = o.layer /\ (o.arg[2] = "none" \/ mem[r][o.ubatch][o.arg[2]] = o.layer)
  <2>1. PICK m \in Dests : /\ o.arg = << o.layer, m >>
                           /\ Suits(Q, mem[r][o.ubatch], o.ubatch, p[o.ubatch], o.layer, m)
    BY <1>3, <1>5, <1>9 DEF Args
  <2>2. p[o.ubatch] = 6 * o.layer - 3
    <3>1. p[o.ubatch] = Num(o) - 1 /\ Num(o) = 6 * (o.layer - 1) + 4 /\ o.layer \in Nat
      BY <1>3, <1>6, <1>9 DEF IsNext, Main, MainKinds, Num, Index, OpsOf
    <3> DEFINE l == o.layer
               n == Num(o)
    <3>2. p[o.ubatch] = n - 1 /\ n = 6 * (l - 1) + 4 /\ l \in Nat
      BY <3>1
    <3> HIDE DEF l, n
    <3>3. p[o.ubatch] = 6 * l - 3
      BY <3>2
    <3> QED BY <3>3 DEF l
  <2> QED BY <2>1, <2>2 DEF Suits
<1> QED BY <1>3, <1>6, <1>7, <1>8, <1>9 DEF DueAt

\* Operation o finds its own layer in buffers b.
Finds(b, o) ==
    /\ o.kind = "input" => b["sum"] = o.layer - 1
    /\ o.kind = "dispatch" => b["x"] = o.layer
    /\ o.kind = "experts" => b["recv"] = o.layer
    /\ o.kind = "copy" => b["combined"] = o.layer
    /\ o.kind = "shared" => b["x"] = o.layer
    /\ o.kind = "sum" => b["output"] = o.layer /\ b["shared"] = o.layer

\* What an operation that is due finds.
LEMMA DueReads ==
  ASSUME EPTypes, NEW r \in Ranks, NEW p \in [Ubatches -> Nat], NEW q \in [Ubatches -> Nat],
         NEW s \in Streams, NEW o, DueAt(r, s, p, q, o),
         Filled(mem[r][o.ubatch], p[o.ubatch], q[o.ubatch])
  PROVE  Finds(mem[r][o.ubatch], o)
<1> DEFINE l == o.layer
           b == mem[r][o.ubatch]
           pp == p[o.ubatch]
           qq == q[o.ubatch]
<1>1. o \in OpsOf(Ubatches) /\ l \in Nat /\ o.ubatch \in Ubatches /\ IsNext(p, q, o)
      /\ pp \in Nat /\ qq \in Nat
  BY DEF DueAt, OpsOf
<1>2. ASSUME Main(o) PROVE pp = (6 * (l - 1) + Index(o.kind)) - 1
  <2>1. pp = Num(o) - 1
    BY <1>1, <1>2 DEF IsNext
  <2> QED BY <2>1, Zenon DEF Num
<1>3. o.kind = "shared" => 6 * l - 3 <= pp /\ pp <= 6 * l - 1
  BY <1>1 DEF IsNext
<1>4. o.kind = "sum" => qq = l
  BY <1>1 DEF IsNext
<1>5. /\ o.kind = "input" => Main(o) /\ Index(o.kind) = 1
      /\ o.kind = "dispatch" => Main(o) /\ Index(o.kind) = 2
      /\ o.kind = "experts" => Main(o) /\ Index(o.kind) = 3
      /\ o.kind = "copy" => Main(o) /\ Index(o.kind) = 5
      /\ o.kind = "sum" => Main(o) /\ Index(o.kind) = 6
  BY DEF Main, MainKinds, Index
<1>6. /\ pp = 6 * l - 6 => b["sum"] = l - 1
      /\ pp = 6 * l - 5 => b["x"] = l
      /\ pp = 6 * l - 4 => b["recv"] = l
      /\ pp = 6 * l - 2 => b["combined"] = l
      /\ pp = 6 * l - 1 => b["output"] = l
      /\ 6 * l - 3 <= pp /\ pp <= 6 * l - 1 => b["x"] = l
  BY <1>1, Reads
<1>7. b["shared"] = qq
  BY DEF Filled
<1>8. ASSUME NEW i \in 1..6, pp = (6 * (l - 1) + i) - 1 PROVE pp = 6 * l + i - 7
  <2> HIDE DEF pp, l
  <2> QED BY <1>1, <1>8
<1>9. ASSUME NEW i \in 1..6, Main(o), Index(o.kind) = i PROVE pp = 6 * l + i - 7
  BY <1>2, <1>8, <1>9
<1> HIDE DEF l, b, pp, qq
<1>10. /\ 6 * l + 1 - 7 = 6 * l - 6 /\ 6 * l + 2 - 7 = 6 * l - 5 /\ 6 * l + 3 - 7 = 6 * l - 4
       /\ 6 * l + 5 - 7 = 6 * l - 2 /\ 6 * l + 6 - 7 = 6 * l - 1
       /\ 1 \in 1..6 /\ 2 \in 1..6 /\ 3 \in 1..6 /\ 5 \in 1..6 /\ 6 \in 1..6
  BY <1>1
<1>11. o.kind = "input" => b["sum"] = l - 1
  BY <1>5, <1>6, <1>9, <1>10, Zenon
<1>12. o.kind = "dispatch" => b["x"] = l
  BY <1>5, <1>6, <1>9, <1>10, Zenon
<1>13. o.kind = "experts" => b["recv"] = l
  BY <1>5, <1>6, <1>9, <1>10, Zenon
<1>14. o.kind = "copy" => b["combined"] = l
  BY <1>5, <1>6, <1>9, <1>10, Zenon
<1>15. o.kind = "sum" => b["output"] = l /\ b["shared"] = l
  BY <1>4, <1>5, <1>6, <1>7, <1>9, <1>10, Zenon
<1>16. o.kind = "shared" => b["x"] = l
  BY <1>3, <1>6
<1> QED BY <1>11, <1>12, <1>13, <1>14, <1>15, <1>16 DEF Finds, b, l

\* What a collective finds on all ranks.
AllPrepared(o) == \A t \in Ranks : mem[t][o.ubatch]["x"] = o.layer
AllComputed(o) == \A t \in Ranks :
    LET a == Head(queue[t][IF setup.async THEN "comm" ELSE "compute"]).arg
    IN  a[1] = o.layer /\ (a[2] = "none" \/ mem[t][o.ubatch][a[2]] = o.layer)

\* An operation that finds its own layer's buffers leaves its result.
LEMMA LocalResult ==
  ASSUME EPTypes, NEW r \in Ranks, NEW p \in [Ubatches -> Nat], NEW q \in [Ubatches -> Nat],
         NEW s \in Streams, NEW o, DueAt(r, s, p, q, o),
         Filled(mem[r][o.ubatch], p[o.ubatch], q[o.ubatch]),
         o.kind = "dispatch" => AllPrepared(o), o.kind = "combine" => AllComputed(o)
  PROVE  Effect(r, o) = Result(mem[r][o.ubatch], o)
<1> DEFINE l == o.layer
           b == mem[r][o.ubatch]
<1>1. o \in OpsOf(Ubatches) /\ o.kind \in Kinds \cup {"barrier"}
  BY DEF DueAt, OpsOf
<1>2. /\ o.kind = "input" => b["sum"] = l - 1
      /\ o.kind = "experts" => b["recv"] = l
      /\ o.kind = "copy" => b["combined"] = l
      /\ o.kind = "shared" => b["x"] = l
      /\ o.kind = "sum" => b["output"] = l /\ b["shared"] = l
  <2>1. Finds(b, o)
    BY DueReads
  <2> QED BY <2>1 DEF Finds
<1>3. ASSUME NEW k PROVE Holds(r, o.ubatch, k, l) = (b[k] = l)
  BY DEF Holds
<1>4. b.combined = b["combined"] /\ b.x = b["x"]
  <2>1. b \in [Buffers -> Int] /\ "combined" \in Buffers /\ "x" \in Buffers
    BY <1>1 DEF EPTypes, DeviceTypes, OpsOf, Buffers
  <2> QED BY <2>1
<1>5. CASE o.kind = "input"
  <2>1. Effect(r, o) = [b EXCEPT !["x"] = If(Holds(r, o.ubatch, "sum", l - 1), l)]
    BY <1>5 DEF Effect
  <2>2. If(Holds(r, o.ubatch, "sum", l - 1), l) = l
    BY <1>2, <1>5 DEF If, Holds
  <2> QED BY <1>5, <2>1, <2>2 DEF Result
<1>6. CASE o.kind = "experts"
  <2>1. Effect(r, o) = IF o.arg = "none" THEN b
                       ELSE [b EXCEPT ![o.arg] = If(Holds(r, o.ubatch, "recv", l), l)]
    BY <1>6 DEF Effect
  <2>2. If(Holds(r, o.ubatch, "recv", l), l) = l
    BY <1>2, <1>3, <1>6 DEF If
  <2> QED BY <1>6, <2>1, <2>2 DEF Result
<1>7. CASE o.kind = "copy"
  <2>1. Effect(r, o) = [b EXCEPT !["output"] = b["combined"]]
    BY <1>4, <1>7 DEF Effect
  <2> QED BY <1>2, <1>7, <2>1 DEF Result
<1>8. CASE o.kind = "shared"
  <2>1. Effect(r, o) = [b EXCEPT !["shared"] = b["x"]]
    BY <1>4, <1>8 DEF Effect
  <2> QED BY <1>2, <1>8, <2>1 DEF Result
<1>9. CASE o.kind = "sum"
  <2> DEFINE ok == Holds(r, o.ubatch, "output", l) /\ Holds(r, o.ubatch, "shared", l)
  <2>1. Effect(r, o) = [b EXCEPT !["sum"] = If(ok, l), !["ws"] = None]
    BY <1>9 DEF Effect
  <2>2. If(ok, l) = l
    BY <1>2, <1>3, <1>9 DEF If
  <2> HIDE DEF ok
  <2> QED BY <1>9, <2>1, <2>2 DEF Result
<1>10. CASE o.kind = "dispatch"
  <2> DEFINE ok == \A t \in Ranks : Holds(t, o.ubatch, "x", l)
  <2>1. Effect(r, o) = [b EXCEPT !["recv"] = If(ok, l)]
    BY <1>10 DEF Effect
  <2>2. If(ok, l) = l
    BY <1>10 DEF If, Holds, AllPrepared
  <2> HIDE DEF ok
  <2> QED BY <1>10, <2>1, <2>2 DEF Result
<1>11. CASE o.kind = "barrier"
  BY <1>11 DEF Effect, Result
<1>12. CASE o.kind = "combine"
  <2> DEFINE ok == \A t \in Ranks :
                LET a == Head(queue[t][IF setup.async THEN "comm" ELSE "compute"]).arg
                IN  a[1] = l /\ (a[2] = "none" \/ Holds(t, o.ubatch, a[2], l))
  <2>1. Effect(r, o) = [b EXCEPT !["combined"] = If(ok, l)]
    BY <1>12 DEF Effect
  <2>2. ok
    BY <1>12 DEF Holds, AllComputed
  <2> HIDE DEF ok
  <2>3. If(ok, l) = l
    BY <2>2 DEF If
  <2> QED BY <1>12, <2>1, <2>3 DEF Result
<1> QED BY <1>1, <1>5, <1>6, <1>7, <1>8, <1>9, <1>10, <1>11, <1>12 DEF Kinds

\* What operation o leaves in the buffers of the microbatches.
After(mm, mm2, U, o) ==
    \A v \in U : mm2[v] = IF v = o.ubatch THEN Result(mm[v], o) ELSE mm[v]

\* The operation at the head of stream s is done: Q2, mm2, p2 and q2 are what is left.
Pops(U, Q, N, s, Q2, mm, mm2, p, q, p2, q2) ==
    /\ Q \in [Streams -> Seq(OpsOf(U))] /\ s \in Streams /\ 1 \in 1..Len(Q[s])
    /\ Shorter(Q, N, Q2, s)
    /\ mm \in [U -> [Buffers -> Int]] /\ After(mm, mm2, U, Q[s][1])
    /\ p \in [U -> Nat] /\ q \in [U -> Nat] /\ p2 \in [U -> Nat] /\ q2 \in [U -> Nat]
    /\ IsNext(p, q, Q[s][1]) /\ Took(U, p, q, p2, q2, Q[s][1])

\* Whom a number is of.
LEMMA NumIs ==
  ASSUME NEW U, NEW a \in OpsOf(U), Main(a), NEW l \in Int, NEW k \in 1..6,
         Num(a) = 6 * (l - 1) + k
  PROVE  Index(a.kind) = k /\ a.layer = l
<1> DEFINE x == a.layer
           y == Index(a.kind)
<1>1. x \in Nat /\ y \in 1..6 /\ 6 * (x - 1) + y = 6 * (l - 1) + k
  BY DEF OpsOf, Main, MainKinds, Index, Num
<1> HIDE DEF x, y
<1> DEFINE d == x - l
<1>2. d \in Int /\ 6 * d = k - y
  BY <1>1
<1> HIDE DEF d
<1>3. d = 0
  BY <1>1, <1>2
<1>4. y = k
  BY <1>1, <1>2, <1>3
<1>5. x = l
  BY <1>1, <1>3 DEF d
<1> QED BY <1>4, <1>5 DEF x, y

\* The rows of a combine stay where it looks for them.
LEMMA SuitsStays ==
  ASSUME NEW U, NEW Q, NEW N, NEW s, NEW Q2, NEW mm, NEW mm2, NEW p, NEW q, NEW p2, NEW q2,
         Pops(U, Q, N, s, Q2, mm, mm2, p, q, p2, q2),
         NEW u \in U, NEW l \in Nat, NEW m, Suits(Q, mm[u], u, p[u], l, m)
  PROVE  Suits(Q2, mm2[u], u, p2[u], l, m)
<1> DEFINE o == Q[s][1]
<1>0. /\ Q \in [Streams -> Seq(OpsOf(U))] /\ s \in Streams /\ 1 \in 1..Len(Q[s])
      /\ Shorter(Q, N, Q2, s)
      /\ mm \in [U -> [Buffers -> Int]] /\ After(mm, mm2, U, Q[s][1])
      /\ p \in [U -> Nat] /\ q \in [U -> Nat] /\ p2 \in [U -> Nat] /\ q2 \in [U -> Nat]
      /\ IsNext(p, q, Q[s][1]) /\ Took(U, p, q, p2, q2, Q[s][1])
  BY DEF Pops
<1>1. o \in OpsOf(U) /\ o.kind \in Kinds \cup {"barrier"}
  <2>1. o \in OpsOf(U)
    BY <1>0
  <2> HIDE DEF o
  <2> QED BY <2>1 DEF OpsOf
<1>2. /\ m \in Dests
      /\ \A t \in Streams : \A i \in 1..Len(Q[t]) :
            Q[t][i].kind = "experts" /\ Q[t][i].ubatch = u /\ Q[t][i].layer = l => Q[t][i].arg = m
      /\ p[u] = 6 * l - 3 => m = "none" \/ mm[u][m] = l
  BY DEF Suits
<1>3. \A t \in Streams : \A i \in 1..Len(Q2[t]) : \E k \in 1..Len(Q[t]) : Q2[t][i] = Q[t][k]
  BY <1>0 DEF Shorter
<1>4. ASSUME NEW t \in Streams, NEW i \in 1..Len(Q2[t]),
             Q2[t][i].kind = "experts", Q2[t][i].ubatch = u, Q2[t][i].layer = l
      PROVE  Q2[t][i].arg = m
  <2>1. PICK k \in 1..Len(Q[t]) : Q2[t][i] = Q[t][k]
    BY <1>3
  <2> QED BY <1>2, <1>4, <2>1
<1>5. mm2[u] = IF u = o.ubatch THEN Result(mm[u], o) ELSE mm[u]
  BY <1>0 DEF After
<1>6. p2[u] = IF Main(o) /\ u = o.ubatch THEN Num(o) ELSE p[u]
  BY <1>0 DEF Took
<1>7. o.kind = "experts" /\ o.ubatch = u /\ o.layer = l => o.arg = m
  BY <1>0, <1>2
<1>9. mm[u] \in [Buffers -> Int]
  BY <1>0
<1> HIDE DEF o
<1>8. ASSUME p2[u] = 6 * l - 3 PROVE m = "none" \/ mm2[u][m] = l
  <2>1. CASE u # o.ubatch
    BY <1>2, <1>5, <1>6, <1>8, <2>1
  <2>2. CASE u = o.ubatch /\ Main(o)
    <3>1. Num(o) = 6 * (l - 1) + 3
      <4>1. Num(o) = 6 * l - 3
        BY <1>6, <1>8, <2>2
      <4> DEFINE n == Num(o)
      <4>2. n = 6 * l - 3
        BY <4>1
      <4> HIDE DEF n
      <4>3. n = 6 * (l - 1) + 3
        BY <4>2
      <4> QED BY <4>3 DEF n
    <3>2. Index(o.kind) = 3 /\ o.layer = l
      <4>1. l \in Int /\ 3 \in 1..6
        OBVIOUS
      <4> QED BY <1>1, <2>2, <3>1, <4>1, NumIs
    <3>3. o.kind = "experts"
      BY <2>2, <3>2 DEF Index, Main, MainKinds
    <3>4. o.arg = m
      BY <1>7, <2>2, <3>2, <3>3
    <3>5. mm2[u] = IF m = "none" THEN mm[u] ELSE [mm[u] EXCEPT ![m] = l]
      BY <1>5, <2>2, <3>2, <3>3, <3>4 DEF Result
    <3>6. m # "none" => m \in Buffers
      BY <1>2 DEF Dests, Buffers
    <3> QED BY <1>9, <3>5, <3>6
  <2>3. CASE u = o.ubatch /\ ~ Main(o)
    <3>1. p2[u] = p[u] /\ o.kind \in {"shared", "barrier"}
      BY <1>1, <1>6, <2>3 DEF Main, MainKinds, Kinds
    <3>2. mm2[u] = IF o.kind = "shared" THEN [mm[u] EXCEPT !["shared"] = o.layer] ELSE mm[u]
      BY <1>5, <2>3, <3>1 DEF Result
    <3>3. m # "shared"
      BY <1>2 DEF Dests
    <3>4. m # "none" => m \in Buffers
      BY <1>2 DEF Dests, Buffers
    <3>5. m # "none" => mm2[u][m] = mm[u][m]
      BY <1>9, <3>2, <3>3, <3>4
    <3> QED BY <1>2, <1>8, <3>1, <3>5
  <2> QED BY <2>1, <2>2, <2>3
<1> QED BY <1>2, <1>4, <1>8 DEF Suits

\* The arguments that wait still suit.
LEMMA ArgsStay ==
  ASSUME NEW U, NEW Q, NEW N, NEW s, NEW Q2, NEW mm, NEW mm2, NEW p, NEW q, NEW p2, NEW q2,
         Pops(U, Q, N, s, Q2, mm, mm2, p, q, p2, q2), Args(Q, mm, p)
  PROVE  Args(Q2, mm2, p2)
<1>1. \A t \in Streams : \A i \in 1..Len(Q2[t]) : \E k \in 1..Len(Q[t]) : Q2[t][i] = Q[t][k]
  BY DEF Pops, Shorter
<1>2. ASSUME NEW t \in Streams, NEW i \in 1..Len(Q2[t])
      PROVE  /\ Q2[t][i].kind = "experts" => Q2[t][i].arg \in Dests
             /\ Q2[t][i].kind = "combine" =>
                  \E m \in Dests :
                     /\ Q2[t][i].arg = << Q2[t][i].layer, m >>
                     /\ Suits(Q2, mm2[Q2[t][i].ubatch], Q2[t][i].ubatch, p2[Q2[t][i].ubatch],
                              Q2[t][i].layer, m)
  <2>1. PICK k \in 1..Len(Q[t]) : Q2[t][i] = Q[t][k]
    BY <1>1
  <2> DEFINE a == Q[t][k]
  <2>2. a \in OpsOf(U)
    BY DEF Pops
  <2>3. a.ubatch \in U /\ a.layer \in Nat
    BY <2>2 DEF OpsOf
  <2>4. /\ a.kind = "experts" => a.arg \in Dests
        /\ a.kind = "combine" =>
              \E m \in Dests : /\ a.arg = << a.layer, m >>
                               /\ Suits(Q, mm[a.ubatch], a.ubatch, p[a.ubatch], a.layer, m)
    BY DEF Args
  <2> HIDE DEF a
  <2>5. ASSUME NEW m, Suits(Q, mm[a.ubatch], a.ubatch, p[a.ubatch], a.layer, m)
        PROVE  Suits(Q2, mm2[a.ubatch], a.ubatch, p2[a.ubatch], a.layer, m)
    BY <2>3, <2>5, SuitsStays
  <2>6. Q2[t][i] = a
    BY <2>1 DEF a
  <2> QED BY <2>4, <2>5, <2>6
<1> QED BY <1>2 DEF Args

\* What a thread relies on.
Undisturbed(md, U, Q, N, Q2, mm, mm2, p, p2) == \A u \in U : \A M, c, h, m, w, g : \A l \in Nat :
    ThreadSuits(md, Q, N, mm[u], u, M, p[u], c, l, h, m, w, g) =>
        ThreadSuits(md, Q2, N, mm2[u], u, M, p2[u], c, l, h, m, w, g)

\* A thread is not disturbed by what is done.
LEMMA ThreadStays ==
  ASSUME NEW md, NEW U, NEW Q, NEW N, NEW s, NEW Q2, NEW mm, NEW mm2, NEW p, NEW q, NEW p2, NEW q2,
         Pops(U, Q, N, s, Q2, mm, mm2, p, q, p2, q2)
  PROVE  Undisturbed(md, U, Q, N, Q2, mm, mm2, p, p2)
<1> SUFFICES ASSUME NEW u \in U, NEW M, NEW c, NEW h, NEW m, NEW w, NEW g, NEW l \in Nat,
                    ThreadSuits(md, Q, N, mm[u], u, M, p[u], c, l, h, m, w, g)
             PROVE  ThreadSuits(md, Q2, N, mm2[u], u, M, p2[u], c, l, h, m, w, g)
  BY DEF Undisturbed
<1>1. Suits(Q, mm[u], u, p[u], l, m) => Suits(Q2, mm2[u], u, p2[u], l, m)
  BY SuitsStays
<1>2. \A t \in Streams : \A i \in 1..Len(Q2[t]) : \E k \in 1..Len(Q[t]) :
          Q2[t][i] = Q[t][k] /\ Where(Q2, N, t, i) = Where(Q, N, t, k)
  BY DEF Pops, Shorter
<1>3. ASSUME c \in {"dispatch", "experts", "combine", "sum"},
             NEW t \in Streams, NEW j \in 1..Len(Q2[t]),
             Main(Q2[t][j]), Q2[t][j].ubatch = u, Num(Q2[t][j]) = M, t # StreamOf(md, c)
      PROVE  Where(Q2, N, t, j) <= w
  <2>1. PICK k \in 1..Len(Q[t]) : Q2[t][j] = Q[t][k] /\ Where(Q2, N, t, j) = Where(Q, N, t, k)
    BY <1>2
  <2> QED BY <1>3, <2>1 DEF ThreadSuits
<1>4. /\ c = "combine" => h = l /\ Suits(Q, mm[u], u, p[u], l, m)
      /\ c = "experts" /\ md.async => g = l
  BY DEF ThreadSuits
<1> QED BY <1>1, <1>3, <1>4 DEF ThreadSuits

\* On each rank of R the operation at the head of s leaves its result.
Fruitful(R, s) == \A r \in R :
    Effect(r, Head(queue[r][s])) = Result(mem[r][Head(queue[r][s]).ubatch], Head(queue[r][s]))

\* What an operation of a rank alone leaves.
LEMMA LocalFruitful ==
  ASSUME EPTypes, NEW r \in Ranks, Good(r), NEW s \in Streams, Local(r, s)
  PROVE  Fruitful({r}, s)
<1> DEFINE o == Head(queue[r][s])
<1>1. PICK p \in [Ubatches -> Nat], q \in [Ubatches -> Nat] : GoodFor(r, p, q)
  BY DEF Good
<1>2. Ready(r, s) /\ o.kind \notin Collectives
  BY DEF Local
<1>3. DueAt(r, s, p, q, o)
  BY <1>1, <1>2, HeadDue
<1>4. o.ubatch \in Ubatches
  BY <1>3 DEF DueAt, OpsOf
<1>5. Filled(mem[r][o.ubatch], p[o.ubatch], q[o.ubatch])
  BY <1>1, <1>4 DEF GoodFor
<1>6. o.kind # "dispatch" /\ o.kind # "combine"
  BY <1>2 DEF Collectives
<1> HIDE DEF o
<1>7. Effect(r, o) = Result(mem[r][o.ubatch], o)
  BY <1>3, <1>5, <1>6, LocalResult
<1> QED BY <1>7 DEF Fruitful, o

\* What a collective leaves.
LEMMA JointFruitful ==
  ASSUME EPTypes, \A r \in Ranks : Good(r), NEW s \in Streams, Joint(s)
  PROVE  Fruitful(Ranks, s)
<1>1. ASSUME NEW r \in Ranks
      PROVE  \E p, q \in [Ubatches -> Nat] :
                /\ DueAt(r, s, p, q, Head(queue[r][s]))
                /\ Filled(mem[r][Head(queue[r][s]).ubatch], p[Head(queue[r][s]).ubatch],
                          q[Head(queue[r][s]).ubatch])
  <2> DEFINE o == Head(queue[r][s])
  <2>1. PICK p \in [Ubatches -> Nat], q \in [Ubatches -> Nat] : GoodFor(r, p, q)
    BY DEF Good
  <2>2. Ready(r, s)
    BY DEF Joint
  <2>3. DueAt(r, s, p, q, o)
    BY <2>1, <2>2, HeadDue
  <2>4. o.ubatch \in Ubatches
    BY <2>3 DEF DueAt, OpsOf
  <2>5. Filled(mem[r][o.ubatch], p[o.ubatch], q[o.ubatch])
    BY <2>1, <2>4 DEF GoodFor
  <2> QED BY <2>3, <2>5
<1>2. ASSUME NEW r \in Ranks
      PROVE  Effect(r, Head(queue[r][s])) =
                Result(mem[r][Head(queue[r][s]).ubatch], Head(queue[r][s]))
  <2> DEFINE o == Head(queue[r][s])
  <2>1. PICK p \in [Ubatches -> Nat], q \in [Ubatches -> Nat] :
            DueAt(r, s, p, q, o) /\ Filled(mem[r][o.ubatch], p[o.ubatch], q[o.ubatch])
    BY <1>1
  <2>2. ASSUME NEW t \in Ranks
        PROVE  /\ o.kind = "dispatch" => mem[t][o.ubatch]["x"] = o.layer
               /\ o.kind = "combine" =>
                     LET a == Head(queue[t][s]).arg
                     IN  a[1] = o.layer /\ (a[2] = "none" \/ mem[t][o.ubatch][a[2]] = o.layer)
    <3> DEFINE w == Head(queue[t][s])
    <3>1. PICK pt \in [Ubatches -> Nat], qt \in [Ubatches -> Nat] :
              DueAt(t, s, pt, qt, w) /\ Filled(mem[t][w.ubatch], pt[w.ubatch], qt[w.ubatch])
      BY <1>1
    <3>2. w.kind = o.kind /\ w.ubatch = o.ubatch /\ w.layer = o.layer
      BY DEF Joint, Same
    <3> HIDE DEF o, w
    <3>3. Finds(mem[t][w.ubatch], w)
      BY <3>1, DueReads
    <3>4. o.kind = "dispatch" => mem[t][o.ubatch]["x"] = o.layer
      BY <3>2, <3>3 DEF Finds
    <3>5. o.kind = "combine" =>
              w.arg[1] = o.layer /\ (w.arg[2] = "none" \/ mem[t][o.ubatch][w.arg[2]] = o.layer)
      BY <3>1, <3>2 DEF DueAt
    <3> QED BY <3>4, <3>5 DEF w
  <2>3. o.kind = "combine" => s = IF setup.async THEN "comm" ELSE "compute"
    BY <2>1 DEF DueAt, StreamOf, Main, MainKinds
  <2> HIDE DEF o
  <2>4. o.kind = "dispatch" => AllPrepared(o)
    BY <2>2 DEF AllPrepared
  <2>5. o.kind = "combine" => AllComputed(o)
    BY <2>2, <2>3 DEF AllComputed
  <2>6. Effect(r, o) = Result(mem[r][o.ubatch], o)
    BY <2>1, <2>4, <2>5, LocalResult
  <2> QED BY <2>6 DEF o
<1> QED BY <1>2 DEF Fruitful

\* A rank of which nothing changes.
LEMMA GoodStays ==
  ASSUME NEW r \in Ranks, Good(r), setup' = setup, queue'[r] = queue[r], put'[r] = put[r],
         mem'[r] = mem[r], pc'[r] = pc[r], layer'[r] = layer[r], mark'[r] = mark[r],
         handle'[r] = handle[r], rows'[r] = rows[r], handles'[r] = handles[r]
  PROVE  Good(r)'
<1>1. Ubatches' = Ubatches
  BY DEF Ubatches
<1>2. MainPut(r)' = MainPut(r) /\ SharedPut(r)' = SharedPut(r)
  BY <1>1 DEF MainPut, SharedPut
<1>3. PICK p \in [Ubatches -> Nat], q \in [Ubatches -> Nat] : GoodFor(r, p, q)
  BY DEF Good
<1>4. GoodFor(r, p, q)'
  BY <1>1, <1>2, <1>3 DEF GoodFor
<1> QED BY <1>1, <1>4 DEF Good

\* A step of the device keeps the ranks good.
LEMMA DeviceGood ==
  ASSUME EPTypes, NEW R \in SUBSET Ranks, NEW s \in Streams, DeviceStep(R, s), Fruitful(R, s),
         NEW r \in Ranks, Good(r)
  PROVE  Good(r)'
<1>0. /\ setup' = setup /\ put' = put /\ pc' = pc /\ layer' = layer /\ mark' = mark
      /\ handle' = handle /\ rows' = rows /\ handles' = handles
  BY DEF DeviceStep, threads
<1>1. /\ EPTypes'
      /\ r \notin R => queue'[r] = queue[r] /\ mem'[r] = mem[r]
      /\ r \in R =>
            /\ queue[r][s] # << >> /\ queue'[r][s] = Tail(queue[r][s])
            /\ \A t \in Streams \ {s} : queue'[r][t] = queue[r][t]
            /\ mem'[r] = [mem[r] EXCEPT ![Head(queue[r][s]).ubatch] =
                              Effect(r, Head(queue[r][s]))]
  <2>1. /\ EPTypes'
        /\ \A t \in Ranks \ R : queue'[t] = queue[t] /\ mem'[t] = mem[t]
        /\ \A t \in R :
              /\ queue[t][s] # << >> /\ Head(queue[t][s]) \in Ops
              /\ queue'[t][s] = Tail(queue[t][s])
              /\ \A w \in Streams \ {s} : queue'[t][w] = queue[t][w]
              /\ mem'[t] = [mem[t] EXCEPT ![Head(queue[t][s]).ubatch] =
                                Effect(t, Head(queue[t][s]))]
    BY DeviceDoes
  <2> QED BY <2>1
<1>2. CASE r \notin R
  BY <1>0, <1>1, <1>2, GoodStays
<1>3. CASE r \in R
  <2> DEFINE Q == queue[r]
             N == put[r]
             o == Q[s][1]
  <2>1. PICK p \in [Ubatches -> Nat], q \in [Ubatches -> Nat] : GoodFor(r, p, q)
    BY DEF Good
  <2>2. DueAt(r, s, p, q, o) /\ Head(Q[s]) = o /\ 1 \in 1..Len(Q[s])
    <3>1. Ready(r, s)
      BY <1>3 DEF DeviceStep
    <3>2. DueAt(r, s, p, q, Head(Q[s])) /\ Head(Q[s]) = Q[s][1] /\ 1 \in 1..Len(Q[s])
      BY <2>1, <3>1, HeadDue
    <3> QED BY <3>2
  <2>3. /\ Q \in [Streams -> Seq(OpsOf(Ubatches))] /\ N \in [Streams -> Nat]
        /\ MainPut(r) \in [Ubatches -> Int] /\ SharedPut(r) \in [Ubatches -> Int]
    BY PartTypes
  <2>4. Ubatches' = Ubatches /\ MainPut(r)' = MainPut(r) /\ SharedPut(r)' = SharedPut(r)
    BY <1>0 DEF Ubatches, MainPut, SharedPut
  <2>5. queue'[r] \in [Streams -> Seq(OpsOf(Ubatches))]
    <3>1. (queue \in [Ranks -> [Streams -> Seq(OpsOf(Ubatches))]])'
      BY <1>1 DEF EPTypes, DeviceTypes, Ops, OpsOf
    <3> QED BY <2>4, <3>1
  <2>6. /\ o \in OpsOf(Ubatches) /\ IsNext(p, q, o) /\ o.ubatch \in Ubatches /\ o.layer \in Nat
        /\ o.kind = "experts" => o.arg \in Dests
    BY <2>2 DEF DueAt, OpsOf
  <2>7. Shorter(Q, N, queue'[r], s)
    <3>1. Q[s] # << >> /\ queue'[r][s] = Tail(Q[s]) /\ \A t \in Streams \ {s} : queue'[r][t] = Q[t]
      BY <1>1, <1>3
    <3> HIDE DEF Q, N
    <3> QED BY <2>3, <2>5, <3>1, TailShortens
  <2>8. mem[r] \in [Ubatches -> [Buffers -> Int]]
    BY DEF EPTypes, DeviceTypes
  <2>9. After(mem[r], mem'[r], Ubatches, o)
    <3>1. mem'[r] = [mem[r] EXCEPT ![o.ubatch] = Result(mem[r][o.ubatch], o)]
      BY <1>1, <1>3, <2>2 DEF Fruitful
    <3> HIDE DEF o
    <3> QED BY <2>8, <3>1 DEF After
  <2>10. PICK p2 \in [Ubatches -> Nat], q2 \in [Ubatches -> Nat] : Took(Ubatches, p, q, p2, q2, o)
    <3> HIDE DEF o
    <3>1. Main(o) => Num(o) \in Nat
      <4>1. Main(o) => p[o.ubatch] = Num(o) - 1 /\ Num(o) \in Int /\ p[o.ubatch] \in Nat
        BY <2>6, NumbersDiffer DEF IsNext
      <4> DEFINE n == Num(o)
      <4> HIDE DEF n
      <4>2. Main(o) => n \in Nat
        BY <4>1 DEF n
      <4> QED BY <4>2 DEF n
    <3> DEFINE p2 == [v \in Ubatches |-> IF Main(o) /\ v = o.ubatch THEN Num(o) ELSE p[v]]
               q2 == [v \in Ubatches |->
                         IF o.kind = "shared" /\ v = o.ubatch THEN o.layer ELSE q[v]]
    <3>2. p2 \in [Ubatches -> Nat] /\ q2 \in [Ubatches -> Nat]
      BY <2>6, <3>1
    <3>3. Took(Ubatches, p, q, p2, q2, o)
      BY DEF Took
    <3> HIDE DEF p2, q2
    <3> QED BY <3>2, <3>3
  <2>11. Pops(Ubatches, Q, N, s, queue'[r], mem[r], mem'[r], p, q, p2, q2)
    BY <2>2, <2>3, <2>6, <2>7, <2>8, <2>9, <2>10 DEF Pops
  <2>12. /\ Fine(setup, Ubatches, Q, N, MainPut(r), SharedPut(r), p, q)
         /\ Args(Q, mem[r], p)
         /\ \A u \in Ubatches : Filled(mem[r][u], p[u], q[u])
         /\ \A u \in Ubatches :
               ThreadSuits(setup, Q, N, mem[r][u], u, MainPut(r)[u], p[u], pc[r][u],
                           layer[r][u], handle[r][u], rows[r][u], mark[r][u], handles[r][u])
    BY <2>1 DEF GoodFor
  <2> HIDE DEF Q, N, o
  <2>13. Fine(setup, Ubatches, queue'[r], N, MainPut(r), SharedPut(r), p2, q2)
    BY <2>2, <2>3, <2>6, <2>7, <2>10, <2>12, TakeOne DEF o
  <2>14. Args(queue'[r], mem'[r], p2)
    BY <2>11, <2>12, ArgsStay
  <2>15. ASSUME NEW u \in Ubatches PROVE Filled(mem'[r][u], p2[u], q2[u])
    <3>1. /\ p2[u] = IF Main(o) /\ u = o.ubatch THEN Num(o) ELSE p[u]
          /\ q2[u] = IF o.kind = "shared" /\ u = o.ubatch THEN o.layer ELSE q[u]
      BY <2>10 DEF Took
    <3>2. mem'[r][u] = IF u = o.ubatch THEN Result(mem[r][u], o) ELSE mem[r][u]
      BY <2>9 DEF After
    <3>3. CASE u # o.ubatch
      BY <2>12, <3>1, <3>2, <3>3
    <3>4. CASE u = o.ubatch
      <4>1. /\ Filled(mem[r][u], p[u], q[u]) /\ p[u] \in Nat /\ q[u] \in Nat /\ p2[u] \in Nat
            /\ q2[u] \in Nat /\ mem[r][u] \in [Buffers -> Int]
        BY <2>8, <2>12
      <4>2. /\ Main(o) => p[u] = Num(o) - 1
            /\ o.kind = "shared" => 6 * o.layer - 3 <= p[u] /\ p[u] <= 6 * o.layer - 1
        BY <2>6, <3>4 DEF IsNext
      <4>3. /\ p2[u] = IF Main(o) THEN Num(o) ELSE p[u]
            /\ q2[u] = IF o.kind = "shared" THEN o.layer ELSE q[u]
        BY <3>1, <3>4
      <4>4. Filled(Result(mem[r][u], o), p2[u], q2[u])
        BY <2>6, <4>1, <4>2, <4>3, Fills
      <4> QED BY <3>2, <3>4, <4>4
    <3> QED BY <3>3, <3>4
  <2>16. ASSUME NEW u \in Ubatches
         PROVE  ThreadSuits(setup, queue'[r], N, mem'[r][u], u, MainPut(r)[u], p2[u], pc[r][u],
                            layer[r][u], handle[r][u], rows[r][u], mark[r][u], handles[r][u])
    <3>1. layer[r][u] \in Nat
      BY DEF EPTypes, ThreadTypes
    <3>2. ThreadSuits(setup, Q, N, mem[r][u], u, MainPut(r)[u], p[u], pc[r][u],
                      layer[r][u], handle[r][u], rows[r][u], mark[r][u], handles[r][u])
      BY <2>12
    <3>3. Undisturbed(setup, Ubatches, Q, N, queue'[r], mem[r], mem'[r], p, p2)
      BY <2>11, ThreadStays
    <3> QED BY <3>1, <3>2, <3>3 DEF Undisturbed
  <2>17. GoodFor(r, p2, q2)'
    BY <1>0, <2>4, <2>13, <2>14, <2>15, <2>16 DEF GoodFor, N
  <2> QED BY <2>4, <2>17 DEF Good
<1> QED BY <1>2, <1>3

-----------------------------------------------------------------------------
(* What a host thread queues.                                                *)

\* The parts of a good rank that queuing changes.
Sane(md, U, Q, N, M, S, mm, p, q) ==
    /\ Q \in [Streams -> Seq(OpsOf(U))] /\ N \in [Streams -> Nat]
    /\ M \in [U -> Int] /\ S \in [U -> Int] /\ p \in [U -> Nat] /\ q \in [U -> Nat]
    /\ Fine(md, U, Q, N, M, S, p, q) /\ Args(Q, mm, p)

\* An operation's argument suits.
Proper(Q, mm, p, o) ==
    /\ o.kind = "experts" => o.arg \in Dests
    /\ o.kind = "combine" =>
          \E m \in Dests : /\ o.arg = << o.layer, m >>
                           /\ Suits(Q, mm[o.ubatch], o.ubatch, p[o.ubatch], o.layer, m)

\* Threads of other microbatches than u rely on nothing that has changed.
Others(md, u, Q, N, Q2, N2) == \A b, v, M, p, c, l, h, m, w, g :
    v # u /\ ThreadSuits(md, Q, N, b, v, M, p, c, l, h, m, w, g) =>
        ThreadSuits(md, Q2, N2, b, v, M, p, c, l, h, m, w, g)

\* On another stream than that of kind c, operation n of u is at position w at most.
Marked(md, Q, N, u, n, c, w) == \A t \in Streams : \A j \in 1..Len(Q[t]) :
    Main(Q[t][j]) /\ Q[t][j].ubatch = u /\ Num(Q[t][j]) = n /\ t # StreamOf(md, c)
        => Where(Q, N, t, j) <= w

\* One operation more.
OneMore(U, Q, N, M, S, Q2, N2, M2, S2, s, o) ==
    /\ s \in Streams /\ o \in OpsOf(U) /\ Grows(Q, N, Q2, N2, s, o)
    /\ Q2 \in [Streams -> Seq(OpsOf(U))] /\ N2 \in [Streams -> Nat]
    /\ M2 \in [U -> Int] /\ S2 \in [U -> Int]
    /\ \A v \in U : M2[v] = IF Main(o) /\ v = o.ubatch THEN M[v] + 1 ELSE M[v]
    /\ \A v \in U : S2[v] = IF o.kind = "shared" /\ v = o.ubatch THEN S[v] + 1 ELSE S[v]

\* The rows of a combine when an operation is queued.
LEMMA SuitsGrows ==
  ASSUME NEW Q, NEW N, NEW Q2, NEW N2, NEW s, NEW o, Longer(Q, N, Q2, N2, s, o),
         NEW b, NEW u, NEW p, NEW l, NEW m, Suits(Q, b, u, p, l, m),
         o.kind = "experts" /\ o.ubatch = u /\ o.layer = l => o.arg = m
  PROVE  Suits(Q2, b, u, p, l, m)
<1>1. ASSUME NEW t \in Streams, NEW i \in 1..Len(Q2[t]),
             Q2[t][i].kind = "experts", Q2[t][i].ubatch = u, Q2[t][i].layer = l
      PROVE  Q2[t][i].arg = m
  <2>1. \/ i \in 1..Len(Q[t]) /\ Q2[t][i] = Q[t][i]
        \/ Q2[t][i] = o
    BY DEF Longer
  <2> QED BY <1>1, <2>1 DEF Suits
<1> QED BY <1>1 DEF Suits

\* An operation that does not count leaves a mark right.
LEMMA MarkedGrows ==
  ASSUME NEW md, NEW Q, NEW N, NEW Q2, NEW N2, NEW s, NEW o, Longer(Q, N, Q2, N2, s, o),
         NEW u, NEW n, NEW c, NEW w, Marked(md, Q, N, u, n, c, w),
         ~ Main(o) \/ o.ubatch # u
  PROVE  Marked(md, Q2, N2, u, n, c, w)
<1>1. ASSUME NEW t \in Streams, NEW j \in 1..Len(Q2[t]),
             Main(Q2[t][j]), Q2[t][j].ubatch = u, Num(Q2[t][j]) = n, t # StreamOf(md, c)
      PROVE  Where(Q2, N2, t, j) <= w
  <2>1. j \in 1..Len(Q[t]) /\ Q2[t][j] = Q[t][j]
    BY <1>1 DEF Longer
  <2>2. Where(Q2, N2, t, j) = Where(Q, N, t, j)
    BY DEF Longer
  <2>3. Main(Q[t][j]) /\ Q[t][j].ubatch = u /\ Num(Q[t][j]) = n
    BY <1>1, <2>1
  <2> QED BY <1>1, <2>1, <2>2, <2>3 DEF Marked
<1> QED BY <1>1 DEF Marked

\* An operation queued keeps what is sane.
LEMMA AddGood ==
  ASSUME NEW md, NEW U, NEW Q, NEW N, NEW M, NEW S, NEW mm, NEW p, NEW q,
         Sane(md, U, Q, N, M, S, mm, p, q),
         NEW Q2, NEW N2, NEW M2, NEW S2, NEW s, NEW o,
         OneMore(U, Q, N, M, S, Q2, N2, M2, S2, s, o),
         Fits(md, U, Q, N, M, S, M2, S2, s, o), Proper(Q, mm, p, o)
  PROVE  Sane(md, U, Q2, N2, M2, S2, mm, p, q) /\ Others(md, o.ubatch, Q, N, Q2, N2)
<1>1. /\ Q \in [Streams -> Seq(OpsOf(U))] /\ N \in [Streams -> Nat]
      /\ M \in [U -> Int] /\ S \in [U -> Int] /\ p \in [U -> Nat] /\ q \in [U -> Nat]
      /\ Fine(md, U, Q, N, M, S, p, q) /\ Args(Q, mm, p)
  BY DEF Sane
<1>2. /\ s \in Streams /\ o \in OpsOf(U) /\ Grows(Q, N, Q2, N2, s, o)
      /\ Q2 \in [Streams -> Seq(OpsOf(U))] /\ N2 \in [Streams -> Nat]
      /\ M2 \in [U -> Int] /\ S2 \in [U -> Int]
  BY DEF OneMore
<1>3. Longer(Q, N, Q2, N2, s, o)
  BY <1>2, GrownParts
<1>4. Fine(md, U, Q2, N2, M2, S2, p, q)
  BY <1>1, <1>2, AddOne
<1>5. Args(Q2, mm, p)
  <2>1. ASSUME NEW t \in Streams, NEW i \in 1..Len(Q2[t])
        PROVE  /\ Q2[t][i].kind = "experts" => Q2[t][i].arg \in Dests
               /\ Q2[t][i].kind = "combine" =>
                    \E m \in Dests :
                       /\ Q2[t][i].arg = << Q2[t][i].layer, m >>
                       /\ Suits(Q2, mm[Q2[t][i].ubatch], Q2[t][i].ubatch, p[Q2[t][i].ubatch],
                                Q2[t][i].layer, m)
    <3> DEFINE a == Q2[t][i]
    <3>1. \/ i \in 1..Len(Q[t]) /\ a = Q[t][i]
          \/ a = o
      BY <1>3 DEF Longer
    <3> HIDE DEF a
    <3>2. CASE a = o
      <4>1. a.kind = "experts" => a.arg \in Dests
        BY <3>2 DEF Proper
      <4>2. ASSUME a.kind = "combine"
            PROVE  \E m \in Dests : /\ a.arg = << a.layer, m >>
                                    /\ Suits(Q2, mm[a.ubatch], a.ubatch, p[a.ubatch], a.layer, m)
        <5>1. PICK m \in Dests : /\ o.arg = << o.layer, m >>
                                 /\ Suits(Q, mm[o.ubatch], o.ubatch, p[o.ubatch], o.layer, m)
          BY <3>2, <4>2 DEF Proper
        <5>2. o.kind # "experts"
          BY <3>2, <4>2
        <5>3. Suits(Q2, mm[o.ubatch], o.ubatch, p[o.ubatch], o.layer, m)
          BY <1>3, <5>1, <5>2, SuitsGrows
        <5> QED BY <3>2, <5>1, <5>3
      <4> QED BY <4>1, <4>2 DEF a
    <3>3. CASE i \in 1..Len(Q[t]) /\ a = Q[t][i]
      <4>1. a.kind = "experts" => a.arg \in Dests
        BY <1>1, <3>3 DEF Args
      <4>2. ASSUME a.kind = "combine"
            PROVE  \E m \in Dests : /\ a.arg = << a.layer, m >>
                                    /\ Suits(Q2, mm[a.ubatch], a.ubatch, p[a.ubatch], a.layer, m)
        <5>1. PICK m \in Dests : /\ a.arg = << a.layer, m >>
                                 /\ Suits(Q, mm[a.ubatch], a.ubatch, p[a.ubatch], a.layer, m)
          BY <1>1, <3>3, <4>2 DEF Args
        <5>2. ~ (o.kind = "experts" /\ o.ubatch = a.ubatch /\ o.layer = a.layer)
          <6>1. ASSUME o.kind = "experts", o.ubatch = a.ubatch, o.layer = a.layer PROVE FALSE
            <7>1. Main(a) /\ Num(a) = 6 * (a.layer - 1) + 4
              BY <4>2 DEF Main, MainKinds, Num, Index
            <7>2. Main(o) /\ Num(o) = 6 * (a.layer - 1) + 3
              BY <6>1 DEF Main, MainKinds, Num, Index
            <7>3. Num(a) <= M[a.ubatch] /\ Num(o) = M[a.ubatch] + 1
              BY <1>1, <3>3, <6>1, <7>1, <7>2 DEF Fine, Listed, Fits
            <7>4. a.layer \in Nat /\ M[a.ubatch] \in Int
              BY <1>1, <1>2, <6>1 DEF OpsOf
            <7> DEFINE x == a.layer
                       y == M[a.ubatch]
                       n == Num(a)
                       k == Num(o)
            <7>5. /\ n = 6 * (x - 1) + 4 /\ k = 6 * (x - 1) + 3 /\ n <= y /\ k = y + 1
                  /\ x \in Nat /\ y \in Int
              BY <7>1, <7>2, <7>3, <7>4
            <7> HIDE DEF x, y, n, k
            <7> QED BY <7>5
          <6> QED BY <6>1
        <5>3. Suits(Q2, mm[a.ubatch], a.ubatch, p[a.ubatch], a.layer, m)
          BY <1>3, <5>1, <5>2, SuitsGrows
        <5> QED BY <5>1, <5>3
      <4> QED BY <4>1, <4>2 DEF a
    <3> QED BY <3>1, <3>2, <3>3
  <2> QED BY <2>1 DEF Args
<1>6. Others(md, o.ubatch, Q, N, Q2, N2)
  <2> SUFFICES ASSUME NEW b, NEW v, NEW X, NEW P, NEW c, NEW l, NEW h, NEW m, NEW w, NEW g,
                      v # o.ubatch, ThreadSuits(md, Q, N, b, v, X, P, c, l, h, m, w, g)
               PROVE  ThreadSuits(md, Q2, N2, b, v, X, P, c, l, h, m, w, g)
    BY DEF Others
  <2>1. Suits(Q, b, v, P, l, m) => Suits(Q2, b, v, P, l, m)
    BY <1>3, SuitsGrows
  <2>2. Marked(md, Q, N, v, X, c, w) => Marked(md, Q2, N2, v, X, c, w)
    BY <1>3, MarkedGrows
  <2> QED BY <2>1, <2>2 DEF ThreadSuits, Marked
<1> QED BY <1>1, <1>2, <1>4, <1>5, <1>6 DEF Sane

\* A mark that covers all that is queued.
LEMMA MarkCovers ==
  ASSUME NEW U, NEW md, NEW Q \in [Streams -> Seq(OpsOf(U))], NEW N \in [Streams -> Nat],
         NEW u, NEW n, NEW c, NEW w \in Int,
         \A t \in Streams : t # StreamOf(md, c) => N[t] <= w
  PROVE  Marked(md, Q, N, u, n, c, w)
<1>1. ASSUME NEW t \in Streams, NEW j \in 1..Len(Q[t]), t # StreamOf(md, c)
      PROVE  Where(Q, N, t, j) <= w
  <2> DEFINE x == Len(Q[t])
             y == N[t]
  <2>1. x \in Nat /\ y \in Nat /\ y <= w /\ j \in 1..x /\ Where(Q, N, t, j) = y - x + j
    BY <1>1 DEF Where
  <2> HIDE DEF x, y
  <2>2. y - x + j <= w
    BY <2>1
  <2> QED BY <2>1, <2>2
<1> QED BY <1>1 DEF Marked

\* What went to the same stream needs no mark.
LEMMA SameStream ==
  ASSUME NEW md, NEW U, NEW Q, NEW N, NEW M, NEW S, NEW mm, NEW p, NEW q,
         Sane(md, U, Q, N, M, S, mm, p, q),
         NEW u, NEW l \in Int, NEW k \in MainKinds, NEW n, n = 6 * (l - 1) + Index(k),
         NEW c, StreamOf(md, k) = StreamOf(md, c), NEW w
  PROVE  Marked(md, Q, N, u, n, c, w)
<1>1. ASSUME NEW t \in Streams, NEW j \in 1..Len(Q[t]), Main(Q[t][j]), Num(Q[t][j]) = n
      PROVE  t = StreamOf(md, c)
  <2> DEFINE a == Q[t][j]
  <2>1. a \in OpsOf(U) /\ t = StreamOf(md, a.kind)
    BY <1>1 DEF Sane, Fine, Listed
  <2>2. Main(a) /\ Num(a) = n
    BY <1>1
  <2> HIDE DEF a
  <2>3. Index(k) \in 1..6
    BY DEF Index
  <2>4. Index(a.kind) = Index(k)
    BY <2>1, <2>2, <2>3, NumIs
  <2>5. a.kind = k
    BY <2>2, <2>4 DEF Index, Main, MainKinds
  <2> QED BY <2>1, <2>5
<1> QED BY <1>1 DEF Marked

\* Of a layer's main operations only the copy and the sum may follow its shared experts.
InPlace(x, o) ==
    \/ x = o.layer - 1 /\ o.kind # "sum"
    \/ x = o.layer /\ o.kind \in {"copy", "sum"}

\* A main operation in its turn.
LEMMA FitsMain ==
  ASSUME NEW md, NEW U, NEW Q, NEW N, NEW M, NEW S, NEW Q2, NEW N2, NEW M2, NEW S2, NEW s,
         NEW o, OneMore(U, Q, N, M, S, Q2, N2, M2, S2, s, o), Main(o),
         s = StreamOf(md, o.kind), NEW m \in Int, M[o.ubatch] = m,
         6 * (o.layer - 1) + Index(o.kind) = m + 1,
         InPlace(S[o.ubatch], o),
         Marked(md, Q, N, o.ubatch, m, o.kind, o.after)
  PROVE  Fits(md, U, Q, N, M, S, M2, S2, s, o)
<1> DEFINE l == o.layer
           k == Index(o.kind)
           x == S[o.ubatch]
           n == Num(o)
<1>1. /\ \A v \in U : M2[v] = IF Main(o) /\ v = o.ubatch THEN M[v] + 1 ELSE M[v]
      /\ \A v \in U : S2[v] = IF o.kind = "shared" /\ v = o.ubatch THEN S[v] + 1 ELSE S[v]
      /\ o \in OpsOf(U)
  BY DEF OneMore
<1>2. n = m + 1 /\ n = 6 * (l - 1) + k
  BY DEF Num
<1>3. l \in Nat /\ k \in 1..6
  BY <1>1 DEF OpsOf, Index
<1>4. (x = l - 1 /\ k \in 1..5) \/ (x = l /\ k \in 5..6)
  <2>1. o.kind # "sum" => k \in 1..5
    BY DEF Index, Main, MainKinds
  <2>2. o.kind \in {"copy", "sum"} => k \in 5..6
    BY DEF Index
  <2> QED BY <2>1, <2>2 DEF InPlace
<1>5. o.kind # "shared"
  BY DEF Main, MainKinds
<1> HIDE DEF l, k, x, n
<1>6. 6 * x - 3 < n /\ n <= 6 * x + 5
  <2>1. CASE x = l - 1 /\ k \in 1..5
    BY <1>2, <1>3, <2>1
  <2>2. CASE x = l /\ k \in 5..6
    BY <1>2, <1>3, <2>2
  <2> QED BY <1>4, <2>1, <2>2
<1>7. \A t \in Streams \ {s} : \A j \in 1..Len(Q[t]) :
          Main(Q[t][j]) /\ Q[t][j].ubatch = o.ubatch /\ Num(Q[t][j]) = m
              => Where(Q, N, t, j) <= o.after
  BY DEF Marked
<1> QED BY <1>1, <1>2, <1>5, <1>6, <1>7 DEF Fits, x, n

\* The shared experts beside the combine.
LEMMA FitsShared ==
  ASSUME NEW md, NEW U, NEW Q, NEW N, NEW M, NEW S, NEW Q2, NEW N2, NEW M2, NEW S2, NEW s,
         NEW o, OneMore(U, Q, N, M, S, Q2, N2, M2, S2, s, o), o.kind = "shared", s = "compute",
         S[o.ubatch] = o.layer - 1,
         M[o.ubatch] = 6 * (o.layer - 1) + 4 \/ M[o.ubatch] = 6 * (o.layer - 1) + 5
  PROVE  Fits(md, U, Q, N, M, S, M2, S2, s, o)
<1> DEFINE l == o.layer
           x == S[o.ubatch]
           m == M[o.ubatch]
<1>1. /\ \A v \in U : M2[v] = IF Main(o) /\ v = o.ubatch THEN M[v] + 1 ELSE M[v]
      /\ \A v \in U : S2[v] = IF o.kind = "shared" /\ v = o.ubatch THEN S[v] + 1 ELSE S[v]
      /\ o \in OpsOf(U)
  BY DEF OneMore
<1>2. l \in Nat /\ x = l - 1 /\ (m = 6 * (l - 1) + 4 \/ m = 6 * (l - 1) + 5)
  BY <1>1 DEF OpsOf
<1>3. ~ Main(o)
  BY DEF Main, MainKinds
<1> HIDE DEF l, x, m
<1>4. l = x + 1 /\ 6 * x + 4 <= m
  BY <1>2
<1> QED BY <1>1, <1>3, <1>4 DEF Fits, l, x, m

\* The timer's barrier.
LEMMA FitsBarrier ==
  ASSUME NEW md, NEW U, NEW Q, NEW N, NEW M, NEW S, NEW Q2, NEW N2, NEW M2, NEW S2, NEW s,
         NEW o, OneMore(U, Q, N, M, S, Q2, N2, M2, S2, s, o), o.kind = "barrier"
  PROVE  Fits(md, U, Q, N, M, S, M2, S2, s, o)
<1>1. ~ Main(o) /\ o.kind # "shared"
  BY DEF Main, MainKinds
<1> QED BY <1>1 DEF Fits, OneMore

\* A stream one operation longer.
LEMMA ConcatGrows ==
  ASSUME NEW X, NEW Q \in [Streams -> Seq(X)], NEW N \in [Streams -> Nat],
         NEW Q2 \in [Streams -> Seq(X)], NEW N2 \in [Streams -> Nat],
         NEW s \in Streams, NEW o \in X, Q2[s] = Q[s] \o << o >>, N2[s] = N[s] + 1,
         \A t \in Streams \ {s} : Q2[t] = Q[t] /\ N2[t] = N[t]
  PROVE  Grows(Q, N, Q2, N2, s, o)
<1>1. /\ Len(Q2[s]) = Len(Q[s]) + 1 /\ Q2[s][Len(Q[s]) + 1] = o
      /\ \A i \in 1..Len(Q[s]) : Q2[s][i] = Q[s][i]
  <2> DEFINE a == Q[s]
  <2>1. a \in Seq(X)
    OBVIOUS
  <2> HIDE DEF a
  <2>2. /\ Len(a \o << o >>) = Len(a) + 1 /\ (a \o << o >>)[Len(a) + 1] = o
        /\ \A i \in 1..Len(a) : (a \o << o >>)[i] = a[i]
    BY <2>1
  <2> QED BY <2>2 DEF a
<1>2. \A t \in Streams : Len(Q[t]) \in Nat /\ N[t] \in Nat
  OBVIOUS
<1> QED BY <1>1, <1>2 DEF Grows

\* Two operations are queued one after the other: a on s, then b on t.
Doubled(X, Q, N, Q2, N2, s, t, a, b) ==
    \E Q1 \in [Streams -> Seq(X)], N1 \in [Streams -> Nat] :
        /\ Grows(Q, N, Q1, N1, s, a) /\ Grows(Q1, N1, Q2, N2, t, b)
        /\ N1 = [N EXCEPT ![s] = N[s] + 1]

\* How that is seen from the two ends.
LEMMA TwoGrow ==
  ASSUME NEW X, NEW Q \in [Streams -> Seq(X)], NEW N \in [Streams -> Nat],
         NEW Q2 \in [Streams -> Seq(X)], NEW N2 \in [Streams -> Nat],
         NEW s \in Streams, NEW t \in Streams, NEW a \in X, NEW b \in X,
         s = t => Q2[s] = Q[s] \o << a, b >> /\ N2[s] = N[s] + 2,
         s # t => /\ Q2[s] = Q[s] \o << a >> /\ N2[s] = N[s] + 1
                  /\ Q2[t] = Q[t] \o << b >> /\ N2[t] = N[t] + 1,
         \A w \in Streams \ {s, t} : Q2[w] = Q[w] /\ N2[w] = N[w]
  PROVE  Doubled(X, Q, N, Q2, N2, s, t, a, b)
<1> DEFINE Q1 == [Q EXCEPT ![s] = Append(Q[s], a)]
           N1 == [N EXCEPT ![s] = N[s] + 1]
<1>1. Grows(Q, N, Q1, N1, s, a) /\ Q1 \in [Streams -> Seq(X)] /\ N1 \in [Streams -> Nat]
  BY AppendGrows
<1>2. Q1[s] = Q[s] \o << a >> /\ N1[s] = N[s] + 1
  <2> DEFINE x == Q[s]
  <2>1. x \in Seq(X)
    OBVIOUS
  <2> HIDE DEF x
  <2>2. Append(x, a) = x \o << a >>
    <3>1. << a >> \in Seq(X)
      OBVIOUS
    <3>2. Append(x, a) \in Seq(X) /\ x \o << a >> \in Seq(X)
      BY <2>1, <3>1
    <3>3. Len(Append(x, a)) = Len(x \o << a >>)
      BY <2>1, <3>1
    <3>4. \A i \in 1..Len(Append(x, a)) : Append(x, a)[i] = (x \o << a >>)[i]
      <4>1. ASSUME NEW i \in 1..Len(x) PROVE Append(x, a)[i] = (x \o << a >>)[i]
        <5>1. Append(x, a)[i] = x[i]
          BY <2>1
        <5>2. (x \o << a >>)[i] = x[i]
          BY <2>1, <3>1
        <5> QED BY <5>1, <5>2
      <4>2. Append(x, a)[Len(x) + 1] = a
        BY <2>1
      <4>3. (x \o << a >>)[Len(x) + 1] = a
        BY <2>1, <3>1
      <4>4. \A i \in 1..Len(Append(x, a)) : i \in 1..Len(x) \/ i = Len(x) + 1
        <5> DEFINE n == Len(x)
        <5>1. n \in Nat /\ Len(Append(x, a)) = n + 1
          BY <2>1
        <5> HIDE DEF n
        <5>2. \A i \in 1..n + 1 : i \in 1..n \/ i = n + 1
          BY <5>1
        <5> QED BY <5>1, <5>2 DEF n
      <4> QED BY <4>1, <4>2, <4>3, <4>4
    <3> QED BY <3>2, <3>3, <3>4, SeqEqual
  <2>3. Q1[s] = Append(Q[s], a)
    OBVIOUS
  <2> QED BY <2>2, <2>3 DEF x
<1>3. \A w \in Streams \ {s} : Q1[w] = Q[w] /\ N1[w] = N[w]
  OBVIOUS
<1> HIDE DEF Q1, N1
<1>4. Q2[t] = Q1[t] \o << b >> /\ N2[t] = N1[t] + 1
  <2>1. CASE s = t
    <3> DEFINE x == Q[s]
               n == N[s]
    <3>1. x \in Seq(X) /\ n \in Nat
      OBVIOUS
    <3>2. Q2[t] = x \o << a, b >> /\ Q1[t] = x \o << a >> /\ N2[t] = n + 2 /\ N1[t] = n + 1
      BY <1>2, <2>1
    <3> HIDE DEF x, n
    <3>3. x \o << a >> \o << b >> = x \o << a, b >>
      BY <3>1, ConcatTwo
    <3>4. n + 2 = (n + 1) + 1
      BY <3>1
    <3>5. (x \o << a >>) \o << b >> = x \o << a, b >>
      BY <3>3
    <3> QED BY <3>2, <3>4, <3>5
  <2>2. CASE s # t
    BY <1>3, <2>2
  <2> QED BY <2>1, <2>2
<1>5. \A w \in Streams \ {t} : Q2[w] = Q1[w] /\ N2[w] = N1[w]
  <2>1. ASSUME NEW w \in Streams \ {t} PROVE Q2[w] = Q1[w] /\ N2[w] = N1[w]
    <3>1. CASE w = s
      <4>1. s # t
        BY <3>1
      <4>2. Q2[s] = Q[s] \o << a >> /\ N2[s] = N[s] + 1
        BY <4>1
      <4> QED BY <1>2, <3>1, <4>2
    <3>2. CASE w # s
      BY <1>3, <3>2
    <3> QED BY <3>1, <3>2
  <2> QED BY <2>1
<1>6. Grows(Q1, N1, Q2, N2, t, b)
  BY <1>1, <1>4, <1>5, ConcatGrows
<1> QED BY <1>1, <1>6 DEF Doubled, N1

\* One operation is queued on a rank.
LEMMA OneQueued ==
  ASSUME EPTypes, EPTypes', setup' = setup, NEW r \in Ranks, NEW s \in Streams,
         NEW o \in OpsOf(Ubatches),
         s = "compute" => Queued(r, << o >>, << >>),
         s = "comm" => Queued(r, << >>, << o >>)
  PROVE  /\ Grows(queue[r], put[r], queue'[r], put'[r], s, o)
         /\ queue'[r] \in [Streams -> Seq(OpsOf(Ubatches))] /\ put'[r] \in [Streams -> Nat]
<1>1. /\ queue[r] \in [Streams -> Seq(OpsOf(Ubatches))] /\ put[r] \in [Streams -> Nat]
      /\ queue'[r] \in [Streams -> Seq(OpsOf(Ubatches))] /\ put'[r] \in [Streams -> Nat]
  <2>1. Ubatches' = Ubatches
    BY DEF Ubatches
  <2>2. (/\ queue \in [Ranks -> [Streams -> Seq(OpsOf(Ubatches))]]
         /\ put \in [Ranks -> [Streams -> Nat]])'
    BY DEF EPTypes, DeviceTypes, Ops, OpsOf
  <2>3. queue[r] \in [Streams -> Seq(OpsOf(Ubatches))] /\ put[r] \in [Streams -> Nat]
    BY PartTypes
  <2> QED BY <2>1, <2>2, <2>3
<1>2. Len(<< o >>) = 1 /\ Len(<< >>) = 0
  OBVIOUS
<1>3. \A t \in Streams : queue[r][t] \o << >> = queue[r][t] /\ put[r][t] + 0 = put[r][t]
  <2>1. ASSUME NEW t \in Streams
        PROVE  queue[r][t] \o << >> = queue[r][t] /\ put[r][t] + 0 = put[r][t]
    <3>1. queue[r][t] \in Seq(OpsOf(Ubatches)) /\ put[r][t] \in Nat
      BY <1>1
    <3> DEFINE x == queue[r][t]
               n == put[r][t]
    <3> HIDE DEF x, n
    <3>2. x \o << >> = x /\ n + 0 = n
      BY <3>1, ConcatEmptySeq DEF x, n
    <3> QED BY <3>2 DEF x, n
  <2> QED BY <2>1
<1>4. \A t \in Streams : t = "compute" \/ t = "comm"
  BY DEF Streams
<1>5. queue'[r][s] = queue[r][s] \o << o >> /\ put'[r][s] = put[r][s] + 1
  BY <1>2, <1>4 DEF Queued
<1>6. \A t \in Streams \ {s} : queue'[r][t] = queue[r][t] /\ put'[r][t] = put[r][t]
  BY <1>2, <1>3, <1>4 DEF Queued
<1>7. Grows(queue[r], put[r], queue'[r], put'[r], s, o)
  BY <1>1, <1>5, <1>6, ConcatGrows
<1> QED BY <1>1, <1>7

\* Two operations are queued on a rank.
LEMMA TwoQueued ==
  ASSUME EPTypes, EPTypes', setup' = setup, NEW r \in Ranks, NEW s \in Streams, NEW t \in Streams,
         NEW a \in OpsOf(Ubatches), NEW b \in OpsOf(Ubatches),
         s = "compute" /\ t = "compute" => Queued(r, << a, b >>, << >>),
         s = "compute" /\ t = "comm" => Queued(r, << a >>, << b >>),
         s = "comm" /\ t = "comm" => Queued(r, << >>, << a, b >>),
         s = "comm" => t = "comm"
  PROVE  /\ Doubled(OpsOf(Ubatches), queue[r], put[r], queue'[r], put'[r], s, t, a, b)
         /\ queue'[r] \in [Streams -> Seq(OpsOf(Ubatches))] /\ put'[r] \in [Streams -> Nat]
<1>1. /\ queue[r] \in [Streams -> Seq(OpsOf(Ubatches))] /\ put[r] \in [Streams -> Nat]
      /\ queue'[r] \in [Streams -> Seq(OpsOf(Ubatches))] /\ put'[r] \in [Streams -> Nat]
  <2>1. Ubatches' = Ubatches
    BY DEF Ubatches
  <2>2. (/\ queue \in [Ranks -> [Streams -> Seq(OpsOf(Ubatches))]]
         /\ put \in [Ranks -> [Streams -> Nat]])'
    BY DEF EPTypes, DeviceTypes, Ops, OpsOf
  <2>3. queue[r] \in [Streams -> Seq(OpsOf(Ubatches))] /\ put[r] \in [Streams -> Nat]
    BY PartTypes
  <2> QED BY <2>1, <2>2, <2>3
<1>2. Len(<< a >>) = 1 /\ Len(<< b >>) = 1 /\ Len(<< a, b >>) = 2 /\ Len(<< >>) = 0
  OBVIOUS
<1>3. \A w \in Streams : queue[r][w] \o << >> = queue[r][w] /\ put[r][w] + 0 = put[r][w]
  <2>1. ASSUME NEW w \in Streams
        PROVE  queue[r][w] \o << >> = queue[r][w] /\ put[r][w] + 0 = put[r][w]
    <3>1. queue[r][w] \in Seq(OpsOf(Ubatches)) /\ put[r][w] \in Nat
      BY <1>1
    <3> DEFINE x == queue[r][w]
               n == put[r][w]
    <3> HIDE DEF x, n
    <3>2. x \o << >> = x /\ n + 0 = n
      BY <3>1, ConcatEmptySeq DEF x, n
    <3> QED BY <3>2 DEF x, n
  <2> QED BY <2>1
<1>4. \A w \in Streams : w = "compute" \/ w = "comm"
  BY DEF Streams
<1>5. s = t => queue'[r][s] = queue[r][s] \o << a, b >> /\ put'[r][s] = put[r][s] + 2
  BY <1>2, <1>4 DEF Queued
<1>6. s # t => /\ queue'[r][s] = queue[r][s] \o << a >> /\ put'[r][s] = put[r][s] + 1
               /\ queue'[r][t] = queue[r][t] \o << b >> /\ put'[r][t] = put[r][t] + 1
  BY <1>2, <1>4 DEF Queued
<1>7. \A w \in Streams \ {s, t} : queue'[r][w] = queue[r][w] /\ put'[r][w] = put[r][w]
  BY <1>2, <1>3, <1>4 DEF Queued
<1>8. Doubled(OpsOf(Ubatches), queue[r], put[r], queue'[r], put'[r], s, t, a, b)
  <2> DEFINE Q == queue[r]
             N == put[r]
             Q2 == queue'[r]
             N2 == put'[r]
             X == OpsOf(Ubatches)
  <2> HIDE DEF Q, N, Q2, N2, X
  <2>1. Q \in [Streams -> Seq(X)] /\ N \in [Streams -> Nat]
    BY <1>1 DEF Q, N, X
  <2>2. Q2 \in [Streams -> Seq(X)] /\ N2 \in [Streams -> Nat] /\ a \in X /\ b \in X
    BY <1>1 DEF Q2, N2, X
  <2>3. s = t => Q2[s] = Q[s] \o << a, b >> /\ N2[s] = N[s] + 2
    BY <1>5 DEF Q, N, Q2, N2
  <2>4. s # t => /\ Q2[s] = Q[s] \o << a >> /\ N2[s] = N[s] + 1
                 /\ Q2[t] = Q[t] \o << b >> /\ N2[t] = N[t] + 1
    BY <1>6 DEF Q, N, Q2, N2
  <2>5. \A w \in Streams \ {s, t} : Q2[w] = Q[w] /\ N2[w] = N[w]
    BY <1>7 DEF Q, N, Q2, N2
  <2>6. Doubled(X, Q, N, Q2, N2, s, t, a, b)
    BY <2>1, <2>2, <2>3, <2>4, <2>5, TwoGrow
  <2> QED BY <2>6 DEF Q, N, Q2, N2, X
<1> QED BY <1>1, <1>8

\* Operation o is next, with m main and x shared operations queued before it.
Due(m, x, o) ==
    \/ Main(o) /\ 6 * (o.layer - 1) + Index(o.kind) = m + 1 /\ InPlace(x, o)
    \/ /\ o.kind = "shared" /\ x = o.layer - 1
       /\ m = 6 * (o.layer - 1) + 4 \/ m = 6 * (o.layer - 1) + 5
    \/ o.kind = "barrier"

\* An operation that is next may be queued.
LEMMA FitsDue ==
  ASSUME NEW md, NEW U, NEW Q, NEW N, NEW M \in [U -> Int], NEW S, NEW Q2, NEW N2, NEW M2,
         NEW S2, NEW s, NEW o, OneMore(U, Q, N, M, S, Q2, N2, M2, S2, s, o),
         Due(M[o.ubatch], S[o.ubatch], o),
         Main(o) => /\ s = StreamOf(md, o.kind)
                    /\ Marked(md, Q, N, o.ubatch, M[o.ubatch], o.kind, o.after),
         o.kind = "shared" => s = "compute"
  PROVE  Fits(md, U, Q, N, M, S, M2, S2, s, o)
<1>1. M[o.ubatch] \in Int
  BY DEF OneMore, OpsOf
<1>2. o.kind = "shared" \/ o.kind = "barrier" => ~ Main(o)
  BY DEF Main, MainKinds
<1>3. CASE Main(o)
  <2>1. /\ 6 * (o.layer - 1) + Index(o.kind) = M[o.ubatch] + 1
        /\ InPlace(S[o.ubatch], o)
    BY <1>2, <1>3 DEF Due
  <2>2. PICK m \in Int : M[o.ubatch] = m
    BY <1>1
  <2>3. s = StreamOf(md, o.kind) /\ Marked(md, Q, N, o.ubatch, m, o.kind, o.after)
    BY <1>3, <2>2
  <2>4. 6 * (o.layer - 1) + Index(o.kind) = m + 1
    BY <2>1, <2>2
  <2> QED BY <1>3, <2>1, <2>2, <2>3, <2>4, FitsMain
<1>4. CASE o.kind = "shared"
  <2>1. /\ S[o.ubatch] = o.layer - 1
        /\ M[o.ubatch] = 6 * (o.layer - 1) + 4 \/ M[o.ubatch] = 6 * (o.layer - 1) + 5
    BY <1>2, <1>4 DEF Due
  <2> QED BY <1>4, <2>1, FitsShared
<1>5. CASE o.kind = "barrier"
  BY <1>5, FitsBarrier
<1> QED BY <1>3, <1>4, <1>5 DEF Due

\* Another operation but the experts' does not change what suits.
LEMMA ProperGrows ==
  ASSUME NEW Q, NEW N, NEW Q2, NEW N2, NEW s, NEW a, Longer(Q, N, Q2, N2, s, a),
         a.kind # "experts", NEW mm, NEW p, NEW o, Proper(Q, mm, p, o)
  PROVE  Proper(Q2, mm, p, o)
<1>1. o.kind = "experts" => o.arg \in Dests
  BY DEF Proper
<1>2. ASSUME o.kind = "combine"
      PROVE  \E m \in Dests : /\ o.arg = << o.layer, m >>
                              /\ Suits(Q2, mm[o.ubatch], o.ubatch, p[o.ubatch], o.layer, m)
  <2>1. PICK m \in Dests : /\ o.arg = << o.layer, m >>
                           /\ Suits(Q, mm[o.ubatch], o.ubatch, p[o.ubatch], o.layer, m)
    BY <1>2 DEF Proper
  <2>2. Suits(Q2, mm[o.ubatch], o.ubatch, p[o.ubatch], o.layer, m)
    BY <2>1, SuitsGrows
  <2> QED BY <2>1, <2>2
<1> QED BY <1>1, <1>2 DEF Proper

MainAt(l, c) == 6 * (l - 1) + PutIndex(c)
SharedAt(l, c) == IF c \in {"sum", "done"} THEN l ELSE l - 1

\* What is queued, by the places.
LEMMA PutMoves ==
  ASSUME EPTypes, EPTypes', NEW r \in Ranks, NEW u \in Ubatches, HostFrame(r, u)
  PROVE  /\ MainPut(r)' \in [Ubatches -> Int] /\ SharedPut(r)' \in [Ubatches -> Int]
         /\ \A v \in Ubatches \ {u} :
               MainPut(r)'[v] = MainPut(r)[v] /\ SharedPut(r)'[v] = SharedPut(r)[v]
         /\ MainPut(r)[u] = MainAt(layer[r][u], pc[r][u])
         /\ SharedPut(r)[u] = SharedAt(layer[r][u], pc[r][u])
         /\ MainPut(r)'[u] = MainAt(layer'[r][u], pc'[r][u])
         /\ SharedPut(r)'[u] = SharedAt(layer'[r][u], pc'[r][u])
<1>1. Ubatches' = Ubatches
  BY DEF HostFrame, Ubatches
<1>2. (MainPut(r) \in [Ubatches -> Int] /\ SharedPut(r) \in [Ubatches -> Int])'
  <2>1. \A t \in Ranks : MainPut(t) \in [Ubatches -> Int] /\ SharedPut(t) \in [Ubatches -> Int]
    BY PartTypes
  <2>2. ASSUME NEW x \in Ubatches'
        PROVE  /\ 6 * (layer'[r][x] - 1) + PutIndex(pc'[r][x]) \in Int
               /\ layer'[r][x] \in Int /\ layer'[r][x] - 1 \in Int
    <3>1. PutIndex(pc'[r][x]) \in Int
      BY DEF PutIndex
    <3>2. layer'[r][x] \in Int
      BY DEF EPTypes, ThreadTypes
    <3> QED BY <3>1, <3>2
  <2>3. MainPut(r)' \in [Ubatches' -> Int]
    BY <2>2 DEF MainPut
  <2>4. SharedPut(r)' \in [Ubatches' -> Int]
    BY <2>2 DEF SharedPut
  <2> QED BY <2>3, <2>4
<1>3. \A v \in Ubatches : /\ MainPut(r)[v] = MainAt(layer[r][v], pc[r][v])
                          /\ SharedPut(r)[v] = SharedAt(layer[r][v], pc[r][v])
                          /\ MainPut(r)'[v] = MainAt(layer'[r][v], pc'[r][v])
                          /\ SharedPut(r)'[v] = SharedAt(layer'[r][v], pc'[r][v])
  BY <1>1 DEF MainPut, SharedPut, MainAt, SharedAt
<1>4. \A v \in Ubatches \ {u} : layer'[r][v] = layer[r][v] /\ pc'[r][v] = pc[r][v]
  BY DEF HostFrame
<1> QED BY <1>1, <1>2, <1>3, <1>4

\* A good rank's parts.
LEMMA SaneNow ==
  ASSUME EPTypes, NEW r \in Ranks, NEW p \in [Ubatches -> Nat], NEW q \in [Ubatches -> Nat],
         GoodFor(r, p, q)
  PROVE  Sane(setup, Ubatches, queue[r], put[r], MainPut(r), SharedPut(r), mem[r], p, q)
BY PartTypes DEF GoodFor, Sane

\* What is left of a good rank after a step of its thread u.
LEMMA HostAssemble ==
  ASSUME EPTypes, NEW r \in Ranks, NEW u \in Ubatches, HostFrame(r, u),
         NEW p \in [Ubatches -> Nat], NEW q \in [Ubatches -> Nat], GoodFor(r, p, q),
         Sane(setup, Ubatches, queue'[r], put'[r], MainPut(r)', SharedPut(r)', mem[r], p, q),
         Others(setup, u, queue[r], put[r], queue'[r], put'[r]),
         \A v \in Ubatches \ {u} : MainPut(r)'[v] = MainPut(r)[v],
         ThreadSuits(setup, queue'[r], put'[r], mem[r][u], u, MainPut(r)'[u], p[u], pc'[r][u],
                     layer'[r][u], handle'[r][u], rows'[r][u], mark'[r][u], handles'[r][u])
  PROVE  Good(r)'
<1>1. setup' = setup /\ mem' = mem /\ Ubatches' = Ubatches
  BY DEF HostFrame, Ubatches
<1>2. /\ Fine(setup, Ubatches, queue'[r], put'[r], MainPut(r)', SharedPut(r)', p, q)
      /\ Args(queue'[r], mem[r], p)
  BY DEF Sane
<1>3. \A v \in Ubatches : Filled(mem[r][v], p[v], q[v])
  BY DEF GoodFor
<1>4. ASSUME NEW v \in Ubatches
      PROVE  ThreadSuits(setup, queue'[r], put'[r], mem[r][v], v, MainPut(r)'[v], p[v], pc'[r][v],
                  layer'[r][v], handle'[r][v], rows'[r][v], mark'[r][v], handles'[r][v])
  <2>1. CASE v = u
    BY <2>1
  <2>2. CASE v # u
    <3>1. /\ pc'[r][v] = pc[r][v] /\ layer'[r][v] = layer[r][v] /\ mark'[r][v] = mark[r][v]
          /\ handle'[r][v] = handle[r][v] /\ rows'[r][v] = rows[r][v]
          /\ handles'[r][v] = handles[r][v] /\ MainPut(r)'[v] = MainPut(r)[v]
      BY <2>2 DEF HostFrame
    <3>2. ThreadSuits(setup, queue[r], put[r], mem[r][v], v, MainPut(r)[v], p[v], pc[r][v],
                      layer[r][v], handle[r][v], rows[r][v], mark[r][v], handles[r][v])
      BY DEF GoodFor
    <3>3. ThreadSuits(setup, queue'[r], put'[r], mem[r][v], v, MainPut(r)[v], p[v], pc[r][v],
                      layer[r][v], handle[r][v], rows[r][v], mark[r][v], handles[r][v])
      BY <2>2, <3>2 DEF Others
    <3> QED BY <3>1, <3>3
  <2> QED BY <2>1, <2>2
<1>5. GoodFor(r, p, q)'
  BY <1>1, <1>2, <1>3, <1>4 DEF GoodFor
<1> QED BY <1>1, <1>5 DEF Good

\* How many operations an operation adds to those of its microbatch.
Adds(o, m, x, m2, x2) ==
    /\ m2 = IF Main(o) THEN m + 1 ELSE m
    /\ x2 = IF o.kind = "shared" THEN x + 1 ELSE x

\* What thread u relies on after its step, if its queues are in order.
Prepared(r, u, p, q) ==
    Sane(setup, Ubatches, queue'[r], put'[r], MainPut(r)', SharedPut(r)', mem[r], p, q) =>
        ThreadSuits(setup, queue'[r], put'[r], mem[r][u], u, MainPut(r)'[u], p[u], pc'[r][u],
                    layer'[r][u], handle'[r][u], rows'[r][u], mark'[r][u], handles'[r][u])

\* A step of thread u that queues o on s.
OneStep(r, u, p, q, s, o) ==
    /\ o.ubatch = u
    /\ s = "compute" => Queued(r, << o >>, << >>)
    /\ s = "comm" => Queued(r, << >>, << o >>)
    /\ Adds(o, MainPut(r)[u], SharedPut(r)[u], MainPut(r)'[u], SharedPut(r)'[u])
    /\ Due(MainPut(r)[u], SharedPut(r)[u], o)
    /\ Main(o) => /\ s = StreamOf(setup, o.kind)
                  /\ Marked(setup, queue[r], put[r], u, MainPut(r)[u], o.kind, o.after)
    /\ o.kind = "shared" => s = "compute"
    /\ Proper(queue[r], mem[r], p, o)
    /\ Prepared(r, u, p, q)

\* One operation of thread u.
LEMMA OneGood ==
  ASSUME EPTypes, EPTypes', NEW r \in Ranks, NEW u \in Ubatches, HostFrame(r, u),
         NEW p \in [Ubatches -> Nat], NEW q \in [Ubatches -> Nat], GoodFor(r, p, q),
         NEW s \in Streams, NEW o \in OpsOf(Ubatches), OneStep(r, u, p, q, s, o)
  PROVE  Good(r)'
<1>0. /\ o.ubatch = u
      /\ s = "compute" => Queued(r, << o >>, << >>)
      /\ s = "comm" => Queued(r, << >>, << o >>)
      /\ Adds(o, MainPut(r)[u], SharedPut(r)[u], MainPut(r)'[u], SharedPut(r)'[u])
      /\ Due(MainPut(r)[u], SharedPut(r)[u], o)
      /\ Main(o) => /\ s = StreamOf(setup, o.kind)
                    /\ Marked(setup, queue[r], put[r], u, MainPut(r)[u], o.kind, o.after)
      /\ o.kind = "shared" => s = "compute"
      /\ Proper(queue[r], mem[r], p, o) /\ Prepared(r, u, p, q)
  BY DEF OneStep
<1>1. setup' = setup
  BY DEF HostFrame
<1>2. /\ Grows(queue[r], put[r], queue'[r], put'[r], s, o)
      /\ queue'[r] \in [Streams -> Seq(OpsOf(Ubatches))] /\ put'[r] \in [Streams -> Nat]
  BY <1>0, <1>1, OneQueued
<1>3. /\ MainPut(r)' \in [Ubatches -> Int] /\ SharedPut(r)' \in [Ubatches -> Int]
      /\ \A v \in Ubatches \ {u} :
            MainPut(r)'[v] = MainPut(r)[v] /\ SharedPut(r)'[v] = SharedPut(r)[v]
  BY PutMoves
<1>4. Sane(setup, Ubatches, queue[r], put[r], MainPut(r), SharedPut(r), mem[r], p, q)
  BY SaneNow
<1> DEFINE M == MainPut(r)
           S == SharedPut(r)
           M2 == MainPut(r)'
           S2 == SharedPut(r)'
<1>5. M \in [Ubatches -> Int]
  BY <1>4 DEF Sane
<1> HIDE DEF M, S, M2, S2
<1>6. OneMore(Ubatches, queue[r], put[r], M, S, queue'[r], put'[r], M2, S2, s, o)
  <2>1. \A v \in Ubatches : M2[v] = IF Main(o) /\ v = o.ubatch THEN M[v] + 1 ELSE M[v]
    BY <1>0, <1>3 DEF M, M2, Adds
  <2>2. \A v \in Ubatches : S2[v] = IF o.kind = "shared" /\ v = o.ubatch THEN S[v] + 1 ELSE S[v]
    BY <1>0, <1>3 DEF S, S2, Adds
  <2> QED BY <1>2, <1>3, <2>1, <2>2 DEF OneMore, M2, S2
<1>7. Fits(setup, Ubatches, queue[r], put[r], M, S, M2, S2, s, o)
  <2>1. /\ Due(M[o.ubatch], S[o.ubatch], o)
        /\ Main(o) => /\ s = StreamOf(setup, o.kind)
                      /\ Marked(setup, queue[r], put[r], o.ubatch, M[o.ubatch], o.kind, o.after)
    BY <1>0 DEF M, S
  <2> QED BY <1>0, <1>5, <1>6, <2>1, FitsDue
<1>8. /\ Sane(setup, Ubatches, queue'[r], put'[r], M2, S2, mem[r], p, q)
      /\ Others(setup, u, queue[r], put[r], queue'[r], put'[r])
  <2>1. Sane(setup, Ubatches, queue[r], put[r], M, S, mem[r], p, q)
    BY <1>4 DEF M, S
  <2> QED BY <1>0, <1>6, <1>7, <2>1, AddGood
<1>9. \A v \in Ubatches \ {u} : MainPut(r)'[v] = MainPut(r)[v]
  BY <1>3
<1> QED BY <1>0, <1>8, <1>9, HostAssemble DEF M2, S2, Prepared

\* Why b finds its predecessor done, queued after a on stream s.
Sheltered(r, s, u, a, b, n) ==
    \/ \E l \in Int : \E k \in MainKinds :
          n = 6 * (l - 1) + Index(k) /\ StreamOf(setup, k) = StreamOf(setup, b.kind)
    \/ ~ Main(a) /\ Marked(setup, queue[r], put[r], u, n, b.kind, b.after)
    \/ \A t \in Streams : t # StreamOf(setup, b.kind) =>
          [put[r] EXCEPT ![s] = put[r][s] + 1][t] <= b.after

\* A step of thread u that queues a on s and then b on t.
PairStep(r, u, p, q, s, t, a, b, m, x) ==
    /\ a.ubatch = u /\ b.ubatch = u
    /\ s = "compute" /\ t = "compute" => Queued(r, << a, b >>, << >>)
    /\ s = "compute" /\ t = "comm" => Queued(r, << a >>, << b >>)
    /\ s = "comm" /\ t = "comm" => Queued(r, << >>, << a, b >>)
    /\ s = "comm" => t = "comm"
    /\ Adds(a, MainPut(r)[u], SharedPut(r)[u], m, x)
    /\ Adds(b, m, x, MainPut(r)'[u], SharedPut(r)'[u])
    /\ Due(MainPut(r)[u], SharedPut(r)[u], a) /\ Due(m, x, b)
    /\ Main(a) => /\ s = StreamOf(setup, a.kind)
                  /\ Marked(setup, queue[r], put[r], u, MainPut(r)[u], a.kind, a.after)
    /\ Main(b) => t = StreamOf(setup, b.kind) /\ Sheltered(r, s, u, a, b, m)
    /\ a.kind = "shared" => s = "compute"
    /\ b.kind = "shared" => t = "compute"
    /\ Proper(queue[r], mem[r], p, a) /\ Proper(queue[r], mem[r], p, b) /\ a.kind # "experts"
    /\ Prepared(r, u, p, q)

\* Two operations of thread u.
LEMMA PairGood ==
  ASSUME EPTypes, EPTypes', NEW r \in Ranks, NEW u \in Ubatches, HostFrame(r, u),
         NEW p \in [Ubatches -> Nat], NEW q \in [Ubatches -> Nat], GoodFor(r, p, q),
         NEW s \in Streams, NEW t \in Streams,
         NEW a \in OpsOf(Ubatches), NEW b \in OpsOf(Ubatches), NEW m \in Int, NEW x \in Int,
         PairStep(r, u, p, q, s, t, a, b, m, x)
  PROVE  Good(r)'
<1>0. /\ a.ubatch = u /\ b.ubatch = u
      /\ s = "compute" /\ t = "compute" => Queued(r, << a, b >>, << >>)
      /\ s = "compute" /\ t = "comm" => Queued(r, << a >>, << b >>)
      /\ s = "comm" /\ t = "comm" => Queued(r, << >>, << a, b >>)
      /\ s = "comm" => t = "comm"
      /\ Adds(a, MainPut(r)[u], SharedPut(r)[u], m, x)
      /\ Adds(b, m, x, MainPut(r)'[u], SharedPut(r)'[u])
      /\ Due(MainPut(r)[u], SharedPut(r)[u], a) /\ Due(m, x, b)
      /\ Main(a) => /\ s = StreamOf(setup, a.kind)
                    /\ Marked(setup, queue[r], put[r], u, MainPut(r)[u], a.kind, a.after)
      /\ Main(b) => t = StreamOf(setup, b.kind) /\ Sheltered(r, s, u, a, b, m)
      /\ a.kind = "shared" => s = "compute"
      /\ b.kind = "shared" => t = "compute"
      /\ Proper(queue[r], mem[r], p, a) /\ Proper(queue[r], mem[r], p, b) /\ a.kind # "experts"
      /\ Prepared(r, u, p, q)
  BY DEF PairStep
<1>01. /\ Doubled(OpsOf(Ubatches), queue[r], put[r], queue'[r], put'[r], s, t, a, b)
       /\ queue'[r] \in [Streams -> Seq(OpsOf(Ubatches))] /\ put'[r] \in [Streams -> Nat]
  <2>1. setup' = setup
    BY DEF HostFrame
  <2> QED BY <1>0, <2>1, TwoQueued
<1>1. /\ MainPut(r)' \in [Ubatches -> Int] /\ SharedPut(r)' \in [Ubatches -> Int]
      /\ \A v \in Ubatches \ {u} :
            MainPut(r)'[v] = MainPut(r)[v] /\ SharedPut(r)'[v] = SharedPut(r)[v]
  BY PutMoves
<1>2. Sane(setup, Ubatches, queue[r], put[r], MainPut(r), SharedPut(r), mem[r], p, q)
  BY SaneNow
<1> DEFINE M == MainPut(r)
           S == SharedPut(r)
           M2 == MainPut(r)'
           S2 == SharedPut(r)'
           M1 == [v \in Ubatches |-> IF v = u THEN m ELSE M[v]]
           S1 == [v \in Ubatches |-> IF v = u THEN x ELSE S[v]]
<1>3. /\ M \in [Ubatches -> Int] /\ S \in [Ubatches -> Int]
      /\ queue[r] \in [Streams -> Seq(OpsOf(Ubatches))] /\ put[r] \in [Streams -> Nat]
  BY <1>2 DEF Sane
<1> HIDE DEF M, S, M2, S2
<1>4. M1 \in [Ubatches -> Int] /\ S1 \in [Ubatches -> Int] /\ M1[u] = m /\ S1[u] = x
  BY <1>3
<1>5. PICK Q1 \in [Streams -> Seq(OpsOf(Ubatches))], N1 \in [Streams -> Nat] :
          /\ Grows(queue[r], put[r], Q1, N1, s, a) /\ Grows(Q1, N1, queue'[r], put'[r], t, b)
          /\ N1 = [put[r] EXCEPT ![s] = put[r][s] + 1]
  BY <1>01 DEF Doubled
<1>6. OneMore(Ubatches, queue[r], put[r], M, S, Q1, N1, M1, S1, s, a)
  <2>1. \A v \in Ubatches : M1[v] = IF Main(a) /\ v = a.ubatch THEN M[v] + 1 ELSE M[v]
    BY <1>0 DEF M, Adds
  <2>2. \A v \in Ubatches : S1[v] = IF a.kind = "shared" /\ v = a.ubatch THEN S[v] + 1 ELSE S[v]
    BY <1>0 DEF S, Adds
  <2> HIDE DEF M1, S1
  <2> QED BY <1>4, <1>5, <2>1, <2>2 DEF OneMore
<1>7. OneMore(Ubatches, Q1, N1, M1, S1, queue'[r], put'[r], M2, S2, t, b)
  <2>1. \A v \in Ubatches : M2[v] = IF Main(b) /\ v = b.ubatch THEN M1[v] + 1 ELSE M1[v]
    BY <1>0, <1>1 DEF M, M2, Adds
  <2>2. \A v \in Ubatches : S2[v] = IF b.kind = "shared" /\ v = b.ubatch THEN S1[v] + 1 ELSE S1[v]
    BY <1>0, <1>1 DEF S, S2, Adds
  <2>3. M2 \in [Ubatches -> Int] /\ S2 \in [Ubatches -> Int]
    BY <1>1 DEF M2, S2
  <2> HIDE DEF M1, S1
  <2> QED BY <1>01, <1>5, <2>1, <2>2, <2>3 DEF OneMore
<1> HIDE DEF M1, S1
<1>8. Fits(setup, Ubatches, queue[r], put[r], M, S, M1, S1, s, a)
  <2>1. /\ Due(M[a.ubatch], S[a.ubatch], a)
        /\ Main(a) => /\ s = StreamOf(setup, a.kind)
                      /\ Marked(setup, queue[r], put[r], a.ubatch, M[a.ubatch], a.kind, a.after)
    BY <1>0 DEF M, S
  <2> QED BY <1>0, <1>3, <1>6, <2>1, FitsDue
<1>9. /\ Sane(setup, Ubatches, Q1, N1, M1, S1, mem[r], p, q)
      /\ Others(setup, u, queue[r], put[r], Q1, N1)
  <2>1. Sane(setup, Ubatches, queue[r], put[r], M, S, mem[r], p, q)
    BY <1>2 DEF M, S
  <2> QED BY <1>0, <1>6, <1>8, <2>1, AddGood
<1>10. Longer(queue[r], put[r], Q1, N1, s, a)
  BY <1>5, GrownParts
<1>11. Main(b) => Marked(setup, Q1, N1, u, m, b.kind, b.after)
  <2> SUFFICES ASSUME Main(b) PROVE Marked(setup, Q1, N1, u, m, b.kind, b.after)
    OBVIOUS
  <2>1. Sheltered(r, s, u, a, b, m)
    BY <1>0
  <2>2. ASSUME NEW l \in Int, NEW k \in MainKinds, m = 6 * (l - 1) + Index(k),
               StreamOf(setup, k) = StreamOf(setup, b.kind)
        PROVE  Marked(setup, Q1, N1, u, m, b.kind, b.after)
    BY <1>9, <2>2, SameStream
  <2>3. ASSUME ~ Main(a), Marked(setup, queue[r], put[r], u, m, b.kind, b.after)
        PROVE  Marked(setup, Q1, N1, u, m, b.kind, b.after)
    BY <1>10, <2>3, MarkedGrows
  <2>4. ASSUME \A w \in Streams : w # StreamOf(setup, b.kind) =>
                  [put[r] EXCEPT ![s] = put[r][s] + 1][w] <= b.after
        PROVE  Marked(setup, Q1, N1, u, m, b.kind, b.after)
    <3>1. b.after \in Int
      BY DEF OpsOf
    <3>2. \A w \in Streams : w # StreamOf(setup, b.kind) => N1[w] <= b.after
      BY <1>5, <2>4
    <3> QED BY <1>5, <3>1, <3>2, MarkCovers
  <2> QED BY <2>1, <2>2, <2>3, <2>4 DEF Sheltered
<1>12. Fits(setup, Ubatches, Q1, N1, M1, S1, M2, S2, t, b)
  <2>1. /\ Due(M1[b.ubatch], S1[b.ubatch], b)
        /\ Main(b) => /\ t = StreamOf(setup, b.kind)
                      /\ Marked(setup, Q1, N1, b.ubatch, M1[b.ubatch], b.kind, b.after)
    BY <1>0, <1>4, <1>11
  <2> QED BY <1>0, <1>4, <1>7, <2>1, FitsDue
<1>13. Proper(Q1, mem[r], p, b)
  BY <1>0, <1>10, ProperGrows
<1>14. /\ Sane(setup, Ubatches, queue'[r], put'[r], M2, S2, mem[r], p, q)
       /\ Others(setup, u, Q1, N1, queue'[r], put'[r])
  BY <1>0, <1>7, <1>9, <1>12, <1>13, AddGood
<1>15. Others(setup, u, queue[r], put[r], queue'[r], put'[r])
  BY <1>9, <1>14 DEF Others
<1>16. \A v \in Ubatches \ {u} : MainPut(r)'[v] = MainPut(r)[v]
  BY <1>1
<1> QED BY <1>0, <1>14, <1>15, <1>16, HostAssemble DEF M2, S2, Prepared

\* The numbers of the places.
LEMMA PlaceValues ==
  ASSUME NEW l \in Int
  PROVE  /\ MainAt(l, "start") = 6 * (l - 1) /\ MainAt(l, "dispatch") = 6 * (l - 1) + 1
         /\ MainAt(l, "spin") = 6 * (l - 1) + 2 /\ MainAt(l, "experts") = 6 * (l - 1) + 2
         /\ MainAt(l, "combine") = 6 * (l - 1) + 3 /\ MainAt(l, "finish") = 6 * (l - 1) + 4
         /\ MainAt(l, "sum") = 6 * (l - 1) + 5 /\ MainAt(l, "done") = 6 * (l - 1) + 6
         /\ MainAt(l + 1, "start") = 6 * (l - 1) + 6
         /\ \A c \in {"start", "dispatch", "spin", "experts", "combine", "finish"} :
               SharedAt(l, c) = l - 1
         /\ SharedAt(l, "sum") = l /\ SharedAt(l, "done") = l /\ SharedAt(l + 1, "start") = l
BY DEF MainAt, SharedAt, PutIndex

\* What each kind is.
LEMMA KindValues ==
  ASSUME NEW o
  PROVE  /\ o.kind = "input" => Main(o) /\ Index(o.kind) = 1
         /\ o.kind = "dispatch" => Main(o) /\ Index(o.kind) = 2
         /\ o.kind = "experts" => Main(o) /\ Index(o.kind) = 3
         /\ o.kind = "combine" => Main(o) /\ Index(o.kind) = 4
         /\ o.kind = "copy" => Main(o) /\ Index(o.kind) = 5
         /\ o.kind = "sum" => Main(o) /\ Index(o.kind) = 6
         /\ o.kind \in {"shared", "barrier"} => ~ Main(o)
BY DEF Main, MainKinds, Index

\* What a thread relies on at its place.
LEMMA SuitsAt ==
  ASSUME NEW md, NEW Q, NEW N, NEW b, NEW u, NEW M, NEW p, NEW c, NEW l, NEW h, NEW m, NEW w,
         NEW g, c = "combine" => h = l /\ Suits(Q, b, u, p, l, m),
         c = "experts" /\ md.async => g = l,
         c \in {"dispatch", "experts", "combine", "sum"} => Marked(md, Q, N, u, M, c, w)
  PROVE  ThreadSuits(md, Q, N, b, u, M, p, c, l, h, m, w, g)
BY DEF ThreadSuits, Marked

\* And the other way round.
LEMMA SuitsGives ==
  ASSUME NEW md, NEW Q, NEW N, NEW b, NEW u, NEW M, NEW p, NEW c, NEW l, NEW h, NEW m, NEW w,
         NEW g, ThreadSuits(md, Q, N, b, u, M, p, c, l, h, m, w, g)
  PROVE  /\ c = "combine" => h = l /\ Suits(Q, b, u, p, l, m)
         /\ c = "experts" /\ md.async => g = l
         /\ c \in {"dispatch", "experts", "combine", "sum"} => Marked(md, Q, N, u, M, c, w)
BY DEF ThreadSuits, Marked

\* A mark that covers what a rank has queued after a step.
LEMMA MarkNow ==
  ASSUME EPTypes', setup' = setup, NEW r \in Ranks, NEW u, NEW n, NEW c, NEW w \in Int,
         \A t \in Streams : t # StreamOf(setup, c) => put'[r][t] <= w
  PROVE  Marked(setup, queue'[r], put'[r], u, n, c, w)
<1>1. Ubatches' = Ubatches
  BY DEF Ubatches
<1>2. (/\ queue \in [Ranks -> [Streams -> Seq(OpsOf(Ubatches))]]
       /\ put \in [Ranks -> [Streams -> Nat]])'
  BY DEF EPTypes, DeviceTypes, Ops, OpsOf
<1>3. queue'[r] \in [Streams -> Seq(OpsOf(Ubatches))] /\ put'[r] \in [Streams -> Nat]
  BY <1>1, <1>2
<1> QED BY <1>3, MarkCovers

\* What is known of thread u of a good rank before and after its step.
HostFacts(r, u, p, q) ==
    /\ layer[r][u] \in Nat /\ mark[r][u] \in Nat /\ rows[r][u] \in Dests
    /\ MainPut(r)[u] = MainAt(layer[r][u], pc[r][u])
    /\ SharedPut(r)[u] = SharedAt(layer[r][u], pc[r][u])
    /\ MainPut(r)'[u] = MainAt(layer'[r][u], pc'[r][u])
    /\ SharedPut(r)'[u] = SharedAt(layer'[r][u], pc'[r][u])
    /\ Sane(setup, Ubatches, queue[r], put[r], MainPut(r), SharedPut(r), mem[r], p, q)
    /\ pc[r][u] = "combine" =>
          handle[r][u] = layer[r][u]
            /\ Suits(queue[r], mem[r][u], u, p[u], layer[r][u], rows[r][u])
    /\ pc[r][u] = "experts" /\ setup.async => handles[r][u] = layer[r][u]
    /\ pc[r][u] \in {"dispatch", "experts", "combine", "sum"} =>
          Marked(setup, queue[r], put[r], u, MainPut(r)[u], pc[r][u], mark[r][u])
    /\ setup' = setup /\ setup.async \in BOOLEAN /\ setup.dbo \in BOOLEAN
    /\ setup.dbo => setup.async

\* These follow.
LEMMA HostFactsHold ==
  ASSUME EPTypes, EPTypes', NEW r \in Ranks, NEW u \in Ubatches, HostFrame(r, u),
         NEW p \in [Ubatches -> Nat], NEW q \in [Ubatches -> Nat], GoodFor(r, p, q)
  PROVE  HostFacts(r, u, p, q)
<1>1. layer[r][u] \in Nat /\ mark[r][u] \in Nat /\ rows[r][u] \in Dests /\ setup \in Setups
  BY DEF EPTypes, ThreadTypes
<1>2. /\ MainPut(r)[u] = MainAt(layer[r][u], pc[r][u])
      /\ SharedPut(r)[u] = SharedAt(layer[r][u], pc[r][u])
      /\ MainPut(r)'[u] = MainAt(layer'[r][u], pc'[r][u])
      /\ SharedPut(r)'[u] = SharedAt(layer'[r][u], pc'[r][u])
  BY PutMoves
<1>3. Sane(setup, Ubatches, queue[r], put[r], MainPut(r), SharedPut(r), mem[r], p, q)
  BY SaneNow
<1>4. ThreadSuits(setup, queue[r], put[r], mem[r][u], u, MainPut(r)[u], p[u], pc[r][u],
                  layer[r][u], handle[r][u], rows[r][u], mark[r][u], handles[r][u])
  BY DEF GoodFor
<1>5. /\ pc[r][u] = "combine" =>
            handle[r][u] = layer[r][u]
              /\ Suits(queue[r], mem[r][u], u, p[u], layer[r][u], rows[r][u])
      /\ pc[r][u] = "experts" /\ setup.async => handles[r][u] = layer[r][u]
      /\ pc[r][u] \in {"dispatch", "experts", "combine", "sum"} =>
            Marked(setup, queue[r], put[r], u, MainPut(r)[u], pc[r][u], mark[r][u])
  BY <1>4, SuitsGives
<1>6. /\ setup' = setup /\ setup.async \in BOOLEAN /\ setup.dbo \in BOOLEAN
      /\ setup.dbo => setup.async
  BY <1>1, SetupTyped DEF HostFrame
<1> QED BY <1>1, <1>2, <1>3, <1>5, <1>6 DEF HostFacts

-----------------------------------------------------------------------------
(* A good rank stays good when a host thread makes a step.                   *)

\* An operation of a thread, for the lemmas on values.
LEMMA OpBuilt ==
  ASSUME EPTypes, NEW k \in AllKinds, NEW u \in Ubatches, NEW l \in Nat,
         NEW after \in Nat, NEW arg \in OpArgs
  PROVE  /\ Op(k, u, l, after, arg) \in OpsOf(Ubatches)
         /\ Op(k, u, l, after, arg).kind = k /\ Op(k, u, l, after, arg).ubatch = u
         /\ Op(k, u, l, after, arg).layer = l /\ Op(k, u, l, after, arg).after = after
         /\ Op(k, u, l, after, arg).arg = arg
<1>1. Ops = OpsOf(Ubatches)
  BY DEF Ops, OpsOf
<1> QED BY <1>1, OpTyped DEF AllKinds

\* What an operation of layer l is due after.
LEMMA DueBy ==
  ASSUME NEW o, NEW l \in Nat, o.layer = l
  PROVE  /\ o.kind = "input" => Due(6 * (l - 1), l - 1, o)
         /\ o.kind = "dispatch" => Due(6 * (l - 1) + 1, l - 1, o)
         /\ o.kind = "experts" => Due(6 * (l - 1) + 2, l - 1, o)
         /\ o.kind = "combine" => Due(6 * (l - 1) + 3, l - 1, o)
         /\ o.kind = "copy" => Due(6 * (l - 1) + 4, l - 1, o) /\ Due(6 * (l - 1) + 4, l, o)
         /\ o.kind = "shared" => Due(6 * (l - 1) + 4, l - 1, o) /\ Due(6 * (l - 1) + 5, l - 1, o)
         /\ o.kind = "sum" => Due(6 * (l - 1) + 5, l, o)
         /\ o.kind = "barrier" => \A m, x : Due(m, x, o)
<1> DEFINE n == 6 * (l - 1)
<1>1. n \in Int /\ n + 1 + 1 = n + 2 /\ n + 2 + 1 = n + 3 /\ n + 3 + 1 = n + 4 /\ n + 4 + 1 = n + 5
      /\ n + 5 + 1 = n + 6
  OBVIOUS
<1> HIDE DEF n
<1>2. 6 * (o.layer - 1) = n
  BY DEF n
<1>0. /\ o.kind = "input" => Main(o) /\ Index(o.kind) = 1
      /\ o.kind = "dispatch" => Main(o) /\ Index(o.kind) = 2
      /\ o.kind = "experts" => Main(o) /\ Index(o.kind) = 3
      /\ o.kind = "combine" => Main(o) /\ Index(o.kind) = 4
      /\ o.kind = "copy" => Main(o) /\ Index(o.kind) = 5
      /\ o.kind = "sum" => Main(o) /\ Index(o.kind) = 6
  BY KindValues
<1>3. o.kind = "input" => Due(n, l - 1, o)
  BY <1>0, <1>1, <1>2 DEF Due, InPlace
<1>4. o.kind = "dispatch" => Due(n + 1, l - 1, o)
  BY <1>0, <1>1, <1>2 DEF Due, InPlace
<1>5. o.kind = "experts" => Due(n + 2, l - 1, o)
  BY <1>0, <1>1, <1>2 DEF Due, InPlace
<1>6. o.kind = "combine" => Due(n + 3, l - 1, o)
  BY <1>0, <1>1, <1>2 DEF Due, InPlace
<1>7. o.kind = "copy" => Due(n + 4, l - 1, o) /\ Due(n + 4, l, o)
  BY <1>0, <1>1, <1>2 DEF Due, InPlace
<1>8. o.kind = "shared" => Due(n + 4, l - 1, o) /\ Due(n + 5, l - 1, o)
  BY DEF Due, n
<1>9. o.kind = "sum" => Due(n + 5, l, o)
  BY <1>0, <1>1, <1>2 DEF Due, InPlace
<1>10. o.kind = "barrier" => \A m, x : Due(m, x, o)
  BY DEF Due
<1> QED BY <1>3, <1>4, <1>5, <1>6, <1>7, <1>8, <1>9, <1>10 DEF n

\* What an operation of layer l adds.
LEMMA AddsBy ==
  ASSUME NEW o, NEW l \in Nat
  PROVE  /\ o.kind = "input" => Adds(o, 6 * (l - 1), l - 1, 6 * (l - 1) + 1, l - 1)
         /\ o.kind = "dispatch" => Adds(o, 6 * (l - 1) + 1, l - 1, 6 * (l - 1) + 2, l - 1)
         /\ o.kind = "experts" => Adds(o, 6 * (l - 1) + 2, l - 1, 6 * (l - 1) + 3, l - 1)
         /\ o.kind = "combine" => Adds(o, 6 * (l - 1) + 3, l - 1, 6 * (l - 1) + 4, l - 1)
         /\ o.kind = "copy" => /\ Adds(o, 6 * (l - 1) + 4, l - 1, 6 * (l - 1) + 5, l - 1)
                               /\ Adds(o, 6 * (l - 1) + 4, l, 6 * (l - 1) + 5, l)
         /\ o.kind = "shared" => /\ Adds(o, 6 * (l - 1) + 4, l - 1, 6 * (l - 1) + 4, l)
                                 /\ Adds(o, 6 * (l - 1) + 5, l - 1, 6 * (l - 1) + 5, l)
         /\ o.kind = "sum" => Adds(o, 6 * (l - 1) + 5, l, 6 * (l - 1) + 6, l)
         /\ o.kind = "barrier" => \A m, x : Adds(o, m, x, m, x)
<1> DEFINE n == 6 * (l - 1)
<1>1. n \in Int /\ n + 1 + 1 = n + 2 /\ n + 2 + 1 = n + 3 /\ n + 3 + 1 = n + 4 /\ n + 4 + 1 = n + 5
      /\ n + 5 + 1 = n + 6 /\ (l - 1) + 1 = l
  OBVIOUS
<1> HIDE DEF n
<1>2. \A m, x : /\ Main(o) /\ o.kind # "shared" => Adds(o, m, x, m + 1, x)
                /\ ~ Main(o) /\ o.kind = "shared" => Adds(o, m, x, m, x + 1)
                /\ ~ Main(o) /\ o.kind # "shared" => Adds(o, m, x, m, x)
  BY DEF Adds
<1>3. /\ o.kind = "input" => Adds(o, n, l - 1, n + 1, l - 1)
      /\ o.kind = "dispatch" => Adds(o, n + 1, l - 1, n + 1 + 1, l - 1)
      /\ o.kind = "experts" => Adds(o, n + 2, l - 1, n + 2 + 1, l - 1)
      /\ o.kind = "combine" => Adds(o, n + 3, l - 1, n + 3 + 1, l - 1)
      /\ o.kind = "copy" => /\ Adds(o, n + 4, l - 1, n + 4 + 1, l - 1)
                            /\ Adds(o, n + 4, l, n + 4 + 1, l)
      /\ o.kind = "shared" => /\ Adds(o, n + 4, l - 1, n + 4, (l - 1) + 1)
                              /\ Adds(o, n + 5, l - 1, n + 5, (l - 1) + 1)
      /\ o.kind = "sum" => Adds(o, n + 5, l, n + 5 + 1, l)
      /\ o.kind = "barrier" => \A m, x : Adds(o, m, x, m, x)
  BY <1>2, KindValues, Zenon
<1> QED BY <1>1, <1>3 DEF n

\* Where the predecessor went to the same stream.
LEMMA NoMark ==
  ASSUME NEW md, NEW U, NEW Q, NEW N, NEW M, NEW S, NEW mm, NEW p, NEW q,
         Sane(md, U, Q, N, M, S, mm, p, q), NEW u, NEW l \in Int, NEW c, NEW w
  PROVE  /\ StreamOf(md, "sum") = StreamOf(md, c) => Marked(md, Q, N, u, 6 * (l - 1), c, w)
         /\ StreamOf(md, "input") = StreamOf(md, c) =>
               Marked(md, Q, N, u, 6 * (l - 1) + 1, c, w)
         /\ StreamOf(md, "dispatch") = StreamOf(md, c) =>
               Marked(md, Q, N, u, 6 * (l - 1) + 2, c, w)
         /\ StreamOf(md, "experts") = StreamOf(md, c) =>
               Marked(md, Q, N, u, 6 * (l - 1) + 3, c, w)
         /\ StreamOf(md, "combine") = StreamOf(md, c) =>
               Marked(md, Q, N, u, 6 * (l - 1) + 4, c, w)
         /\ StreamOf(md, "copy") = StreamOf(md, c) =>
               Marked(md, Q, N, u, 6 * (l - 1) + 5, c, w)
<1>1. ASSUME NEW k \in MainKinds, NEW x \in Int, NEW n, n = 6 * (x - 1) + Index(k),
             StreamOf(md, k) = StreamOf(md, c)
      PROVE  Marked(md, Q, N, u, n, c, w)
  BY <1>1, SameStream
<1>2. /\ Index("input") = 1 /\ Index("dispatch") = 2 /\ Index("experts") = 3
      /\ Index("combine") = 4 /\ Index("copy") = 5 /\ Index("sum") = 6
      /\ "input" \in MainKinds /\ "dispatch" \in MainKinds /\ "experts" \in MainKinds
      /\ "combine" \in MainKinds /\ "copy" \in MainKinds /\ "sum" \in MainKinds
  BY DEF Index, MainKinds
<1>3. 6 * (l - 1) = 6 * ((l - 1) - 1) + 6 /\ l - 1 \in Int
  OBVIOUS
<1>4. StreamOf(md, "sum") = StreamOf(md, c) => Marked(md, Q, N, u, 6 * (l - 1), c, w)
  BY <1>1, <1>2, <1>3
<1>5. /\ StreamOf(md, "input") = StreamOf(md, c) => Marked(md, Q, N, u, 6 * (l - 1) + 1, c, w)
      /\ StreamOf(md, "dispatch") = StreamOf(md, c) => Marked(md, Q, N, u, 6 * (l - 1) + 2, c, w)
      /\ StreamOf(md, "experts") = StreamOf(md, c) => Marked(md, Q, N, u, 6 * (l - 1) + 3, c, w)
  BY <1>1, <1>2
<1>6. /\ StreamOf(md, "combine") = StreamOf(md, c) => Marked(md, Q, N, u, 6 * (l - 1) + 4, c, w)
      /\ StreamOf(md, "copy") = StreamOf(md, c) => Marked(md, Q, N, u, 6 * (l - 1) + 5, c, w)
  BY <1>1, <1>2
<1> QED BY <1>4, <1>5, <1>6

\* The same of the second of two operations.
LEMMA ShelteredBy ==
  ASSUME NEW r, NEW s, NEW u, NEW a, NEW b, NEW l \in Int
  PROVE  /\ StreamOf(setup, "input") = StreamOf(setup, b.kind) =>
               Sheltered(r, s, u, a, b, 6 * (l - 1) + 1)
         /\ StreamOf(setup, "combine") = StreamOf(setup, b.kind) =>
               Sheltered(r, s, u, a, b, 6 * (l - 1) + 4)
<1>1. "input" \in MainKinds /\ Index("input") = 1 /\ "combine" \in MainKinds /\ Index("combine") = 4
  BY DEF MainKinds, Index
<1>2. ASSUME NEW k \in MainKinds, NEW n, n = 6 * (l - 1) + Index(k),
             StreamOf(setup, k) = StreamOf(setup, b.kind)
      PROVE  Sheltered(r, s, u, a, b, n)
  BY <1>2 DEF Sheltered
<1> QED BY <1>1, <1>2

\* How much is queued, by the place.
LEMMA HostAt ==
  ASSUME NEW r, NEW u, NEW p, NEW q, HostFacts(r, u, p, q), NEW l, l = layer[r][u]
  PROVE  /\ l \in Nat
         /\ pc[r][u] = "start" => MainPut(r)[u] = 6 * (l - 1) /\ SharedPut(r)[u] = l - 1
         /\ pc[r][u] = "dispatch" => MainPut(r)[u] = 6 * (l - 1) + 1 /\ SharedPut(r)[u] = l - 1
         /\ pc[r][u] = "experts" => MainPut(r)[u] = 6 * (l - 1) + 2 /\ SharedPut(r)[u] = l - 1
         /\ pc[r][u] = "combine" => MainPut(r)[u] = 6 * (l - 1) + 3 /\ SharedPut(r)[u] = l - 1
         /\ pc[r][u] = "finish" => MainPut(r)[u] = 6 * (l - 1) + 4 /\ SharedPut(r)[u] = l - 1
         /\ pc[r][u] = "sum" => MainPut(r)[u] = 6 * (l - 1) + 5 /\ SharedPut(r)[u] = l
<1>1. l \in Int /\ l \in Nat
  BY DEF HostFacts
<1>2. MainPut(r)[u] = MainAt(l, pc[r][u]) /\ SharedPut(r)[u] = SharedAt(l, pc[r][u])
  BY DEF HostFacts
<1> QED BY <1>1, <1>2, PlaceValues

\* And afterwards.
LEMMA HostThen ==
  ASSUME NEW r, NEW u, NEW p, NEW q, HostFacts(r, u, p, q), NEW l, l = layer[r][u]
  PROVE  /\ layer'[r][u] = l =>
              /\ pc'[r][u] = "dispatch" =>
                    MainPut(r)'[u] = 6 * (l - 1) + 1 /\ SharedPut(r)'[u] = l - 1
              /\ pc'[r][u] \in {"spin", "experts"} =>
                    MainPut(r)'[u] = 6 * (l - 1) + 2 /\ SharedPut(r)'[u] = l - 1
              /\ pc'[r][u] = "combine" =>
                    MainPut(r)'[u] = 6 * (l - 1) + 3 /\ SharedPut(r)'[u] = l - 1
              /\ pc'[r][u] = "finish" =>
                    MainPut(r)'[u] = 6 * (l - 1) + 4 /\ SharedPut(r)'[u] = l - 1
              /\ pc'[r][u] = "sum" =>
                    MainPut(r)'[u] = 6 * (l - 1) + 5 /\ SharedPut(r)'[u] = l
              /\ pc'[r][u] = "done" =>
                    MainPut(r)'[u] = 6 * (l - 1) + 6 /\ SharedPut(r)'[u] = l
         /\ layer'[r][u] = l + 1 /\ pc'[r][u] = "start" =>
              MainPut(r)'[u] = 6 * (l - 1) + 6 /\ SharedPut(r)'[u] = l
<1>1. l \in Int
  BY DEF HostFacts
<1>2. ASSUME NEW x, x = layer'[r][u]
      PROVE  MainPut(r)'[u] = MainAt(x, pc'[r][u]) /\ SharedPut(r)'[u] = SharedAt(x, pc'[r][u])
  BY <1>2 DEF HostFacts
<1>3. layer'[r][u] = l =>
        MainPut(r)'[u] = MainAt(l, pc'[r][u]) /\ SharedPut(r)'[u] = SharedAt(l, pc'[r][u])
  BY <1>2
<1>4. layer'[r][u] = l + 1 =>
        MainPut(r)'[u] = MainAt(l + 1, pc'[r][u]) /\ SharedPut(r)'[u] = SharedAt(l + 1, pc'[r][u])
  BY <1>2
<1> QED BY <1>1, <1>3, <1>4, PlaceValues

\* A layer begins.
LEMMA StartGood ==
  ASSUME EPTypes, NEW r \in Ranks, NEW u \in Ubatches, Start(r, u),
         NEW p \in [Ubatches -> Nat], NEW q \in [Ubatches -> Nat], GoodFor(r, p, q)
  PROVE  Good(r)'
<1>1. /\ EPTypes' /\ HostFrame(r, u) /\ pc[r][u] = "start"
      /\ pc'[r][u] = IF setup.async THEN "dispatch" ELSE "experts"
      /\ layer'[r][u] = layer[r][u] /\ mark'[r][u] = put'[r]["compute"]
      /\ StartQueues(r, u)
  BY StartDoes
<1>2. HostFacts(r, u, p, q)
  BY <1>1, HostFactsHold
<1>3. PICK l \in Nat : l = layer[r][u]
  BY <1>2, HostAt
<1> DEFINE a == Op("input", u, l, 0, None)
           b == Op("dispatch", u, l, 0, None)
<1>4. None \in OpArgs /\ "input" \in AllKinds /\ "dispatch" \in AllKinds
  BY DEF OpArgs, Kinds, AllKinds
<1>5. a \in OpsOf(Ubatches) /\ a.kind = "input" /\ a.ubatch = u /\ a.layer = l /\ a.after = 0
  BY <1>4, OpBuilt
<1>6. b \in OpsOf(Ubatches) /\ b.kind = "dispatch" /\ b.ubatch = u /\ b.layer = l /\ b.after = 0
  BY <1>4, OpBuilt
<1>7. IF setup.async THEN Queued(r, << a >>, << >>) ELSE Queued(r, << a, b >>, << >>)
  BY <1>1, <1>3 DEF StartQueues
<1> HIDE DEF a, b
<1>8. MainPut(r)[u] = 6 * (l - 1) /\ SharedPut(r)[u] = l - 1
  BY <1>1, <1>2, <1>3, HostAt
<1>9. put'[r]["compute"] \in Int /\ Streams = {"compute", "comm"} /\ setup' = setup
  BY <1>1, <1>2 DEF EPTypes, DeviceTypes, Streams, HostFacts
<1>10. Sane(setup, Ubatches, queue[r], put[r], MainPut(r), SharedPut(r), mem[r], p, q)
  BY <1>2 DEF HostFacts
<1>11. l \in Int /\ 6 * (l - 1) + 1 \in Int /\ l - 1 \in Int
  OBVIOUS
<1>12. Marked(setup, queue[r], put[r], u, 6 * (l - 1), a.kind, a.after)
  <2>1. StreamOf(setup, "sum") = StreamOf(setup, a.kind)
    BY <1>5 DEF StreamOf
  <2> QED BY <1>10, <1>11, <2>1, NoMark
<1>13. /\ Due(6 * (l - 1), l - 1, a) /\ Due(6 * (l - 1) + 1, l - 1, b)
       /\ Adds(a, 6 * (l - 1), l - 1, 6 * (l - 1) + 1, l - 1)
       /\ Adds(b, 6 * (l - 1) + 1, l - 1, 6 * (l - 1) + 2, l - 1)
  BY <1>5, <1>6, DueBy, AddsBy
<1>14. Proper(queue[r], mem[r], p, a) /\ Proper(queue[r], mem[r], p, b)
  BY <1>5, <1>6 DEF Proper
<1>15. StreamOf(setup, a.kind) = "compute" /\ (~ setup.async => StreamOf(setup, b.kind) = "compute")
  BY <1>5, <1>6 DEF StreamOf
<1>16. "compute" \in Streams /\ "compute" # "comm"
  BY <1>9
<1>17. CASE setup.async
  <2>1. MainPut(r)'[u] = 6 * (l - 1) + 1 /\ SharedPut(r)'[u] = l - 1 /\ pc'[r][u] = "dispatch"
    BY <1>1, <1>2, <1>3, <1>17, HostThen
  <2>2. Marked(setup, queue'[r], put'[r], u, 6 * (l - 1) + 1, "dispatch", mark'[r][u])
    <3>1. \A t \in Streams : t # StreamOf(setup, "dispatch") => t = "compute"
      BY <1>9, <1>17 DEF StreamOf
    <3>2. \A t \in Streams : t # StreamOf(setup, "dispatch") => put'[r][t] <= put'[r]["compute"]
      BY <1>9, <3>1
    <3> QED BY <1>1, <1>9, <3>2, MarkNow
  <2>3. Prepared(r, u, p, q)
    <3>1. ThreadSuits(setup, queue'[r], put'[r], mem[r][u], u, MainPut(r)'[u], p[u], pc'[r][u],
                    layer'[r][u], handle'[r][u], rows'[r][u], mark'[r][u], handles'[r][u])
      BY <2>1, <2>2, SuitsAt
    <3> QED BY <3>1 DEF Prepared
  <2>4. OneStep(r, u, p, q, "compute", a)
    BY <1>5, <1>7, <1>8, <1>12, <1>13, <1>14, <1>15, <1>16, <1>17, <2>1, <2>3 DEF OneStep
  <2> QED BY <1>1, <1>5, <1>16, <2>4, OneGood
<1>18. CASE ~ setup.async
  <2>1. MainPut(r)'[u] = 6 * (l - 1) + 2 /\ SharedPut(r)'[u] = l - 1 /\ pc'[r][u] = "experts"
    BY <1>1, <1>2, <1>3, <1>18, HostThen
  <2>2. Sheltered(r, "compute", u, a, b, 6 * (l - 1) + 1)
    <3>1. StreamOf(setup, "input") = StreamOf(setup, b.kind)
      BY <1>15, <1>18 DEF StreamOf
    <3> QED BY <1>11, <3>1, ShelteredBy
  <2>3. Prepared(r, u, p, q)
    <3>1. ASSUME Sane(setup, Ubatches, queue'[r], put'[r], MainPut(r)', SharedPut(r)', mem[r], p, q)
          PROVE  ThreadSuits(setup, queue'[r], put'[r], mem[r][u], u, MainPut(r)'[u], p[u],
                    pc'[r][u], layer'[r][u], handle'[r][u], rows'[r][u], mark'[r][u],
                    handles'[r][u])
      <4>1. StreamOf(setup, "dispatch") = StreamOf(setup, "experts")
        BY <1>18 DEF StreamOf
      <4>2. Marked(setup, queue'[r], put'[r], u, 6 * (l - 1) + 2, "experts", mark'[r][u])
        BY <1>11, <3>1, <4>1, NoMark
      <4> QED BY <1>18, <2>1, <4>2, SuitsAt
    <3> QED BY <3>1 DEF Prepared
  <2>4. PairStep(r, u, p, q, "compute", "compute", a, b, 6 * (l - 1) + 1, l - 1)
    <3>1. a.kind # "shared" /\ b.kind # "shared" /\ a.kind # "experts"
      BY <1>5, <1>6
    <3>2. Queued(r, << a, b >>, << >>)
      BY <1>7, <1>18
    <3> QED BY <1>5, <1>6, <1>8, <1>12, <1>13, <1>14, <1>15, <1>16, <1>18, <2>1, <2>2, <2>3,
               <3>1, <3>2 DEF PairStep
  <2> QED BY <1>1, <1>5, <1>6, <1>11, <1>16, <2>4, PairGood
<1> QED BY <1>17, <1>18

\* The dispatch goes out.
LEMMA DispatchGood ==
  ASSUME EPTypes, NEW r \in Ranks, NEW u \in Ubatches, Dispatch(r, u), setup.async,
         NEW p \in [Ubatches -> Nat], NEW q \in [Ubatches -> Nat], GoodFor(r, p, q)
  PROVE  Good(r)'
<1>1. /\ EPTypes' /\ HostFrame(r, u) /\ pc[r][u] = "dispatch" /\ pc'[r][u] = "spin"
      /\ layer'[r][u] = layer[r][u] /\ DispatchQueues(r, u)
  BY DispatchDoes
<1>2. HostFacts(r, u, p, q)
  BY <1>1, HostFactsHold
<1>3. PICK l \in Nat : l = layer[r][u]
  BY <1>2, HostAt
<1>4. PICK w \in Nat : w = mark[r][u]
  BY <1>2 DEF HostFacts
<1> DEFINE o == Op("dispatch", u, l, w, None)
<1>5. o \in OpsOf(Ubatches) /\ o.kind = "dispatch" /\ o.ubatch = u /\ o.layer = l /\ o.after = w
  <2>1. None \in OpArgs /\ "dispatch" \in AllKinds
    BY DEF OpArgs, Kinds, AllKinds
  <2> QED BY <2>1, OpBuilt
<1>6. Queued(r, << >>, << o >>)
  BY <1>1, <1>3, <1>4 DEF DispatchQueues
<1> HIDE DEF o
<1>7. MainPut(r)[u] = 6 * (l - 1) + 1 /\ SharedPut(r)[u] = l - 1
  BY <1>1, <1>2, <1>3, HostAt
<1>8. MainPut(r)'[u] = 6 * (l - 1) + 2 /\ SharedPut(r)'[u] = l - 1
  BY <1>1, <1>2, <1>3, HostThen
<1>9. Marked(setup, queue[r], put[r], u, MainPut(r)[u], o.kind, o.after)
  BY <1>1, <1>2, <1>4, <1>5 DEF HostFacts
<1>10. /\ Due(6 * (l - 1) + 1, l - 1, o)
       /\ Adds(o, 6 * (l - 1) + 1, l - 1, 6 * (l - 1) + 2, l - 1)
  BY <1>5, DueBy, AddsBy
<1>11. Proper(queue[r], mem[r], p, o)
  BY <1>5 DEF Proper
<1>12. StreamOf(setup, o.kind) = "comm" /\ "comm" \in Streams /\ "comm" # "compute"
  BY <1>5 DEF StreamOf, Streams
<1>13. Prepared(r, u, p, q)
  <2>1. ThreadSuits(setup, queue'[r], put'[r], mem[r][u], u, MainPut(r)'[u], p[u], pc'[r][u],
                    layer'[r][u], handle'[r][u], rows'[r][u], mark'[r][u], handles'[r][u])
    BY <1>1, SuitsAt
  <2> QED BY <2>1 DEF Prepared
<1>14. OneStep(r, u, p, q, "comm", o)
  BY <1>5, <1>6, <1>7, <1>8, <1>9, <1>10, <1>11, <1>12, <1>13 DEF OneStep
<1> QED BY <1>1, <1>5, <1>12, <1>14, OneGood

\* The counts are there.
LEMMA ReceiveGood ==
  ASSUME EPTypes, NEW r \in Ranks, NEW u \in Ubatches, Receive(r, u),
         NEW p \in [Ubatches -> Nat], NEW q \in [Ubatches -> Nat], GoodFor(r, p, q)
  PROVE  Good(r)'
<1>1. /\ EPTypes' /\ HostFrame(r, u) /\ pc[r][u] = "spin" /\ pc'[r][u] = "experts"
      /\ layer'[r][u] = layer[r][u] /\ mark'[r][u] = put[r]["comm"]
      /\ handles'[r][u] = layer[r][u]
      /\ queue' = queue /\ put' = put
  BY ReceiveDoes
<1>2. HostFacts(r, u, p, q)
  BY <1>1, HostFactsHold
<1>3. PICK l \in Int : l = layer[r][u]
  BY <1>2 DEF HostFacts
<1>4. MainPut(r)[u] = MainAt(l, "spin") /\ MainPut(r)'[u] = MainAt(l, "experts")
      /\ SharedPut(r)[u] = SharedAt(l, "spin") /\ SharedPut(r)'[u] = SharedAt(l, "experts")
  BY <1>1, <1>2, <1>3 DEF HostFacts
<1>5. MainPut(r)'[u] = MainPut(r)[u] /\ SharedPut(r)'[u] = SharedPut(r)[u]
  BY <1>3, <1>4, PlaceValues
<1>6. /\ MainPut(r)' \in [Ubatches -> Int] /\ SharedPut(r)' \in [Ubatches -> Int]
      /\ \A v \in Ubatches \ {u} :
            MainPut(r)'[v] = MainPut(r)[v] /\ SharedPut(r)'[v] = SharedPut(r)[v]
  BY <1>1, PutMoves
<1>7. Sane(setup, Ubatches, queue[r], put[r], MainPut(r), SharedPut(r), mem[r], p, q)
  BY SaneNow
<1>8. MainPut(r)' = MainPut(r) /\ SharedPut(r)' = SharedPut(r)
  <2> DEFINE M == MainPut(r)
             S == SharedPut(r)
             M2 == MainPut(r)'
             S2 == SharedPut(r)'
  <2>1. M \in [Ubatches -> Int] /\ S \in [Ubatches -> Int]
    BY <1>7 DEF Sane
  <2>2. M2 \in [Ubatches -> Int] /\ S2 \in [Ubatches -> Int]
        /\ \A v \in Ubatches : M2[v] = M[v] /\ S2[v] = S[v]
    BY <1>5, <1>6
  <2> HIDE DEF M, S, M2, S2
  <2>3. M2 = M /\ S2 = S
    BY <2>1, <2>2
  <2> QED BY <2>3 DEF M, S, M2, S2
<1>9. /\ Sane(setup, Ubatches, queue'[r], put'[r], MainPut(r)', SharedPut(r)', mem[r], p, q)
      /\ Others(setup, u, queue[r], put[r], queue'[r], put'[r])
  BY <1>1, <1>7, <1>8 DEF Others
<1>10. put[r]["comm"] \in Int /\ put[r]["compute"] \in Int /\ Streams = {"compute", "comm"}
       /\ setup' = setup
  BY <1>2 DEF EPTypes, DeviceTypes, Streams, HostFacts
<1>11. Marked(setup, queue'[r], put'[r], u, MainPut(r)'[u], "experts", put[r]["comm"])
  <2>1. \A t \in Streams : t # StreamOf(setup, "experts") => t = "comm"
    BY <1>10 DEF StreamOf
  <2>2. \A t \in Streams : t # StreamOf(setup, "experts") => put'[r][t] <= put[r]["comm"]
    BY <1>1, <1>10, <2>1
  <2> QED BY <1>1, <1>10, <2>2, MarkNow
<1>12. ThreadSuits(setup, queue'[r], put'[r], mem[r][u], u, MainPut(r)'[u], p[u], pc'[r][u],
                   layer'[r][u], handle'[r][u], rows'[r][u], mark'[r][u], handles'[r][u])
  BY <1>1, <1>11, SuitsAt
<1>13. \A v \in Ubatches \ {u} : MainPut(r)'[v] = MainPut(r)[v]
  BY <1>6
<1> QED BY <1>1, <1>9, <1>12, <1>13, HostAssemble

\* The halves are added.
LEMMA SumGood ==
  ASSUME EPTypes, NEW r \in Ranks, NEW u \in Ubatches, Sum(r, u),
         NEW p \in [Ubatches -> Nat], NEW q \in [Ubatches -> Nat], GoodFor(r, p, q)
  PROVE  Good(r)'
<1>1. /\ EPTypes' /\ HostFrame(r, u) /\ pc[r][u] = "sum" /\ SumQueues(r, u)
      /\ \/ layer'[r][u] = layer[r][u] + 1 /\ pc'[r][u] = "start"
         \/ layer'[r][u] = layer[r][u] /\ pc'[r][u] = "done"
  BY SumDoes
<1>2. HostFacts(r, u, p, q)
  BY <1>1, HostFactsHold
<1>3. PICK l \in Nat : l = layer[r][u]
  BY <1>2, HostAt
<1>4. PICK w \in Nat : w = mark[r][u]
  BY <1>2 DEF HostFacts
<1> DEFINE o == Op("sum", u, l, w, None)
<1>5. o \in OpsOf(Ubatches) /\ o.kind = "sum" /\ o.ubatch = u /\ o.layer = l /\ o.after = w
  <2>1. None \in OpArgs /\ "sum" \in AllKinds
    BY DEF OpArgs, Kinds, AllKinds
  <2> QED BY <2>1, OpBuilt
<1>6. Queued(r, << o >>, << >>)
  BY <1>1, <1>3, <1>4 DEF SumQueues
<1> HIDE DEF o
<1>7. MainPut(r)[u] = 6 * (l - 1) + 5 /\ SharedPut(r)[u] = l
  BY <1>1, <1>2, <1>3, HostAt
<1>8. MainPut(r)'[u] = 6 * (l - 1) + 6 /\ SharedPut(r)'[u] = l
  BY <1>1, <1>2, <1>3, HostThen
<1>9. Marked(setup, queue[r], put[r], u, MainPut(r)[u], o.kind, o.after)
  BY <1>1, <1>2, <1>4, <1>5 DEF HostFacts
<1>10. /\ Due(6 * (l - 1) + 5, l, o)
       /\ Adds(o, 6 * (l - 1) + 5, l, 6 * (l - 1) + 6, l)
  BY <1>5, DueBy, AddsBy
<1>11. Proper(queue[r], mem[r], p, o)
  BY <1>5 DEF Proper
<1>12. StreamOf(setup, o.kind) = "compute" /\ "compute" \in Streams /\ "comm" # "compute"
  BY <1>5 DEF StreamOf, Streams
<1>13. Prepared(r, u, p, q)
  <2>1. ThreadSuits(setup, queue'[r], put'[r], mem[r][u], u, MainPut(r)'[u], p[u], pc'[r][u],
                    layer'[r][u], handle'[r][u], rows'[r][u], mark'[r][u], handles'[r][u])
    BY <1>1, SuitsAt
  <2> QED BY <2>1 DEF Prepared
<1>14. OneStep(r, u, p, q, "compute", o)
  BY <1>5, <1>6, <1>7, <1>8, <1>9, <1>10, <1>11, <1>12, <1>13 DEF OneStep
<1> QED BY <1>1, <1>5, <1>12, <1>14, OneGood

\* The combine goes out.
LEMMA CombineGood ==
  ASSUME EPTypes, NEW r \in Ranks, NEW u \in Ubatches, Combine(r, u),
         NEW p \in [Ubatches -> Nat], NEW q \in [Ubatches -> Nat], GoodFor(r, p, q)
  PROVE  Good(r)'
<1>1. /\ EPTypes' /\ HostFrame(r, u) /\ pc[r][u] = "combine" /\ pc'[r][u] = "finish"
      /\ layer'[r][u] = layer[r][u] /\ CombineQueues(r, u)
  BY CombineDoes
<1>2. HostFacts(r, u, p, q)
  BY <1>1, HostFactsHold
<1>3. PICK l \in Nat : l = layer[r][u]
  BY <1>2, HostAt
<1>4. PICK w \in Nat : w = mark[r][u]
  BY <1>2 DEF HostFacts
<1>5. PICK d \in Dests : d = rows[r][u]
  BY <1>2 DEF HostFacts
<1>6. handle[r][u] = l /\ Suits(queue[r], mem[r][u], u, p[u], l, d)
  BY <1>1, <1>2, <1>3, <1>5 DEF HostFacts
<1>60. PICK g \in OpArgs : g = << l, d >>
  BY DEF OpArgs
<1> DEFINE combine(after) == Op("combine", u, l, after, g)
           barrier == Op("barrier", u, l, 0, None)
<1>7. /\ barrier \in OpsOf(Ubatches) /\ barrier.kind = "barrier" /\ barrier.ubatch = u
      /\ barrier.layer = l
  <2>1. None \in OpArgs /\ "barrier" \in AllKinds /\ 0 \in Nat
    BY DEF OpArgs, AllKinds
  <2> QED BY <2>1, OpBuilt
<1>8. ASSUME NEW after \in Nat
      PROVE  /\ combine(after) \in OpsOf(Ubatches) /\ combine(after).kind = "combine"
             /\ combine(after).ubatch = u /\ combine(after).layer = l
             /\ combine(after).after = after /\ combine(after).arg = << l, d >>
  <2>1. "combine" \in AllKinds
    BY DEF Kinds, AllKinds
  <2>2. /\ combine(after) \in OpsOf(Ubatches) /\ combine(after).kind = "combine"
        /\ combine(after).ubatch = u /\ combine(after).layer = l
        /\ combine(after).after = after /\ combine(after).arg = g
    BY <2>1, OpBuilt
  <2> QED BY <1>60, <2>2
<1>9. /\ ~ setup.async => Queued(r, << combine(0) >>, << >>)
      /\ setup.async /\ setup.timer # "barrier" => Queued(r, << >>, << combine(w) >>)
      /\ setup.dbo /\ setup.timer = "barrier" => Queued(r, << >>, << barrier, combine(w) >>)
      /\ setup.async /\ ~ setup.dbo /\ setup.timer = "barrier" =>
            Queued(r, << barrier >>, << combine(put[r]["compute"] + 1) >>)
  BY <1>1, <1>3, <1>4, <1>5, <1>6, <1>60 DEF CombineQueues
<1> HIDE DEF combine, barrier
<1>10. MainPut(r)[u] = 6 * (l - 1) + 3 /\ SharedPut(r)[u] = l - 1
  BY <1>1, <1>2, <1>3, HostAt
<1>11. MainPut(r)'[u] = 6 * (l - 1) + 4 /\ SharedPut(r)'[u] = l - 1
  BY <1>1, <1>2, <1>3, HostThen
<1>12. Sane(setup, Ubatches, queue[r], put[r], MainPut(r), SharedPut(r), mem[r], p, q)
  BY <1>2 DEF HostFacts
<1>13. Marked(setup, queue[r], put[r], u, 6 * (l - 1) + 3, "combine", w)
  BY <1>1, <1>2, <1>4, <1>10 DEF HostFacts
<1>14. ASSUME NEW after \in Nat
       PROVE  /\ Due(6 * (l - 1) + 3, l - 1, combine(after))
              /\ Adds(combine(after), 6 * (l - 1) + 3, l - 1, 6 * (l - 1) + 4, l - 1)
              /\ Proper(queue[r], mem[r], p, combine(after))
  <2> DEFINE o == combine(after)
  <2>1. /\ o.kind = "combine" /\ o.ubatch = u /\ o.layer = l /\ o.arg = << l, d >>
    BY <1>8
  <2> HIDE DEF o
  <2>2. /\ Due(6 * (l - 1) + 3, l - 1, o)
        /\ Adds(o, 6 * (l - 1) + 3, l - 1, 6 * (l - 1) + 4, l - 1)
    BY <2>1, DueBy, AddsBy
  <2>3. Proper(queue[r], mem[r], p, o)
    BY <1>6, <2>1 DEF Proper
  <2> QED BY <2>2, <2>3 DEF o
<1>15. /\ Due(6 * (l - 1) + 3, l - 1, barrier)
       /\ Adds(barrier, 6 * (l - 1) + 3, l - 1, 6 * (l - 1) + 3, l - 1)
       /\ Proper(queue[r], mem[r], p, barrier) /\ ~ Main(barrier)
  BY <1>7, DueBy, AddsBy, KindValues DEF Proper
<1>16. Prepared(r, u, p, q)
  <2>1. ThreadSuits(setup, queue'[r], put'[r], mem[r][u], u, MainPut(r)'[u], p[u], pc'[r][u],
                    layer'[r][u], handle'[r][u], rows'[r][u], mark'[r][u], handles'[r][u])
    BY <1>1, SuitsAt
  <2> QED BY <2>1 DEF Prepared
<1>17. /\ "compute" \in Streams /\ "comm" \in Streams /\ "comm" # "compute"
       /\ Streams = {"compute", "comm"} /\ setup.async \in BOOLEAN /\ setup.dbo \in BOOLEAN
       /\ (setup.dbo => setup.async)
  BY <1>2 DEF Streams, HostFacts
<1>18. CASE ~ setup.async
  <2> DEFINE o == combine(0)
  <2>1. /\ o \in OpsOf(Ubatches) /\ o.kind = "combine" /\ o.ubatch = u /\ Queued(r, << o >>, << >>)
        /\ Due(6 * (l - 1) + 3, l - 1, o)
        /\ Adds(o, 6 * (l - 1) + 3, l - 1, 6 * (l - 1) + 4, l - 1)
        /\ Proper(queue[r], mem[r], p, o)
    BY <1>8, <1>9, <1>14, <1>18
  <2> HIDE DEF o
  <2>2. StreamOf(setup, o.kind) = "compute" /\ StreamOf(setup, "experts") = StreamOf(setup, o.kind)
    BY <1>18, <2>1 DEF StreamOf
  <2>3. Marked(setup, queue[r], put[r], u, 6 * (l - 1) + 3, o.kind, o.after)
    BY <1>12, <2>2, NoMark
  <2>4. OneStep(r, u, p, q, "compute", o)
    BY <1>10, <1>11, <1>16, <1>17, <2>1, <2>2, <2>3 DEF OneStep
  <2> QED BY <1>1, <1>17, <2>1, <2>4, OneGood
<1>19. CASE setup.async /\ setup.timer # "barrier"
  <2> DEFINE o == combine(w)
  <2>1. /\ o \in OpsOf(Ubatches) /\ o.kind = "combine" /\ o.ubatch = u /\ Queued(r, << >>, << o >>)
        /\ Due(6 * (l - 1) + 3, l - 1, o) /\ o.after = w
        /\ Adds(o, 6 * (l - 1) + 3, l - 1, 6 * (l - 1) + 4, l - 1)
        /\ Proper(queue[r], mem[r], p, o)
    BY <1>8, <1>9, <1>14, <1>19
  <2> HIDE DEF o
  <2>2. StreamOf(setup, o.kind) = "comm"
    BY <1>19, <2>1 DEF StreamOf
  <2>3. Marked(setup, queue[r], put[r], u, 6 * (l - 1) + 3, o.kind, o.after)
    BY <1>13, <2>1
  <2>4. OneStep(r, u, p, q, "comm", o)
    BY <1>10, <1>11, <1>16, <1>17, <2>1, <2>2, <2>3 DEF OneStep
  <2> QED BY <1>1, <1>17, <2>1, <2>4, OneGood
<1>20. CASE setup.dbo /\ setup.timer = "barrier"
  <2> DEFINE o == combine(w)
  <2>1. /\ o \in OpsOf(Ubatches) /\ o.kind = "combine" /\ o.ubatch = u
        /\ Queued(r, << >>, << barrier, o >>)
        /\ Due(6 * (l - 1) + 3, l - 1, o) /\ o.after = w
        /\ Adds(o, 6 * (l - 1) + 3, l - 1, 6 * (l - 1) + 4, l - 1)
        /\ Proper(queue[r], mem[r], p, o)
    BY <1>8, <1>9, <1>14, <1>20
  <2> HIDE DEF o
  <2>2. StreamOf(setup, o.kind) = "comm"
    BY <1>17, <1>20, <2>1 DEF StreamOf
  <2>3. Sheltered(r, "comm", u, barrier, o, 6 * (l - 1) + 3)
    BY <1>13, <1>15, <2>1 DEF Sheltered
  <2>4. PairStep(r, u, p, q, "comm", "comm", barrier, o, 6 * (l - 1) + 3, l - 1)
    <3>1. o.kind # "shared" /\ barrier.kind # "shared" /\ barrier.kind # "experts"
      BY <1>7, <2>1
    <3> QED BY <1>7, <1>10, <1>11, <1>15, <1>16, <1>17, <2>1, <2>2, <2>3, <3>1 DEF PairStep
  <2>5. 6 * (l - 1) + 3 \in Int /\ l - 1 \in Int
    OBVIOUS
  <2> QED BY <1>1, <1>7, <1>17, <2>1, <2>4, <2>5, PairGood
<1>21. CASE setup.async /\ ~ setup.dbo /\ setup.timer = "barrier"
  <2>1. PICK n \in Nat : n = put[r]["compute"]
    BY <1>17 DEF EPTypes, DeviceTypes
  <2> DEFINE o == combine(n + 1)
  <2>2. /\ o \in OpsOf(Ubatches) /\ o.kind = "combine" /\ o.ubatch = u
        /\ Queued(r, << barrier >>, << o >>)
        /\ Due(6 * (l - 1) + 3, l - 1, o) /\ o.after = n + 1
        /\ Adds(o, 6 * (l - 1) + 3, l - 1, 6 * (l - 1) + 4, l - 1)
        /\ Proper(queue[r], mem[r], p, o)
    <3>1. n + 1 \in Nat
      OBVIOUS
    <3> QED BY <1>8, <1>9, <1>14, <1>21, <2>1, <3>1
  <2> HIDE DEF o
  <2>3. StreamOf(setup, o.kind) = "comm"
    BY <1>21, <2>2 DEF StreamOf
  <2>4. Sheltered(r, "compute", u, barrier, o, 6 * (l - 1) + 3)
    <3>1. ASSUME NEW t \in Streams, t # StreamOf(setup, o.kind)
          PROVE  [put[r] EXCEPT !["compute"] = put[r]["compute"] + 1][t] <= o.after
      <4>1. t = "compute"
        BY <1>17, <2>3, <3>1
      <4>2. put[r] \in [Streams -> Nat]
        BY DEF EPTypes, DeviceTypes
      <4>3. [put[r] EXCEPT !["compute"] = put[r]["compute"] + 1][t] = n + 1
        BY <1>17, <2>1, <4>1, <4>2
      <4> QED BY <2>2, <4>3
    <3> QED BY <3>1 DEF Sheltered
  <2>5. PairStep(r, u, p, q, "compute", "comm", barrier, o, 6 * (l - 1) + 3, l - 1)
    <3>1. o.kind # "shared" /\ barrier.kind # "shared" /\ barrier.kind # "experts"
      BY <1>7, <2>2
    <3> QED BY <1>7, <1>10, <1>11, <1>15, <1>16, <1>17, <2>2, <2>3, <2>4, <3>1 DEF PairStep
  <2>6. 6 * (l - 1) + 3 \in Int /\ l - 1 \in Int
    OBVIOUS
  <2> QED BY <1>1, <1>7, <1>17, <2>2, <2>5, <2>6, PairGood
<1> QED BY <1>17, <1>18, <1>19, <1>20, <1>21

\* The shared experts and the copy go out.
LEMMA FinishGood ==
  ASSUME EPTypes, NEW r \in Ranks, NEW u \in Ubatches, Finish(r, u),
         NEW p \in [Ubatches -> Nat], NEW q \in [Ubatches -> Nat], GoodFor(r, p, q)
  PROVE  Good(r)'
<1>1. /\ EPTypes' /\ HostFrame(r, u) /\ pc[r][u] = "finish" /\ pc'[r][u] = "sum"
      /\ layer'[r][u] = layer[r][u] /\ FinishQueues(r, u)
      /\ mark'[r][u] = IF setup.dbo THEN put'[r]["comm"] ELSE 0
  BY FinishDoes
<1>2. HostFacts(r, u, p, q)
  BY <1>1, HostFactsHold
<1>3. PICK l \in Nat : l = layer[r][u]
  BY <1>2, HostAt
<1>4. PICK n \in Nat : n = put[r]["comm"]
  BY DEF EPTypes, DeviceTypes, Streams
<1> DEFINE copy(after) == Op("copy", u, l, after, None)
           run == Op("shared", u, l, 0, None)
<1>5. /\ run \in OpsOf(Ubatches) /\ run.kind = "shared" /\ run.ubatch = u
      /\ run.layer = l
  <2>1. None \in OpArgs /\ "shared" \in AllKinds /\ 0 \in Nat
    BY DEF OpArgs, Kinds, AllKinds
  <2> QED BY <2>1, OpBuilt
<1>6. ASSUME NEW after \in Nat
      PROVE  /\ copy(after) \in OpsOf(Ubatches) /\ copy(after).kind = "copy"
             /\ copy(after).ubatch = u /\ copy(after).layer = l
             /\ copy(after).after = after
  <2>1. None \in OpArgs /\ "copy" \in AllKinds
    BY DEF OpArgs, Kinds, AllKinds
  <2> QED BY <2>1, OpBuilt
<1>7. /\ setup.dbo => Queued(r, << run >>, << copy(0) >>)
      /\ ~ setup.async => Queued(r, << copy(0), run >>, << >>)
      /\ setup.async /\ ~ setup.dbo =>
            \/ Queued(r, << copy(n), run >>, << >>)
            \/ Queued(r, << run, copy(n) >>, << >>)
  BY <1>1, <1>3, <1>4 DEF FinishQueues
<1> HIDE DEF copy, run
<1>8. MainPut(r)[u] = 6 * (l - 1) + 4 /\ SharedPut(r)[u] = l - 1
  BY <1>1, <1>2, <1>3, HostAt
<1>9. MainPut(r)'[u] = 6 * (l - 1) + 5 /\ SharedPut(r)'[u] = l
  BY <1>1, <1>2, <1>3, HostThen
<1>10. Sane(setup, Ubatches, queue[r], put[r], MainPut(r), SharedPut(r), mem[r], p, q)
  BY <1>2 DEF HostFacts
<1>11. ASSUME NEW after \in Nat
       PROVE  /\ Due(6 * (l - 1) + 4, l - 1, copy(after)) /\ Due(6 * (l - 1) + 4, l, copy(after))
              /\ Adds(copy(after), 6 * (l - 1) + 4, l - 1, 6 * (l - 1) + 5, l - 1)
              /\ Adds(copy(after), 6 * (l - 1) + 4, l, 6 * (l - 1) + 5, l)
              /\ Proper(queue[r], mem[r], p, copy(after))
  <2> DEFINE o == copy(after)
  <2>1. o.kind = "copy" /\ o.layer = l
    BY <1>6
  <2> HIDE DEF o
  <2>2. /\ Due(6 * (l - 1) + 4, l - 1, o) /\ Due(6 * (l - 1) + 4, l, o)
        /\ Adds(o, 6 * (l - 1) + 4, l - 1, 6 * (l - 1) + 5, l - 1)
        /\ Adds(o, 6 * (l - 1) + 4, l, 6 * (l - 1) + 5, l)
    BY <2>1, DueBy, AddsBy
  <2>3. Proper(queue[r], mem[r], p, o)
    BY <2>1 DEF Proper
  <2> QED BY <2>2, <2>3 DEF o
<1>12. /\ Due(6 * (l - 1) + 4, l - 1, run) /\ Due(6 * (l - 1) + 5, l - 1, run)
       /\ Adds(run, 6 * (l - 1) + 4, l - 1, 6 * (l - 1) + 4, l)
       /\ Adds(run, 6 * (l - 1) + 5, l - 1, 6 * (l - 1) + 5, l)
       /\ Proper(queue[r], mem[r], p, run) /\ ~ Main(run)
  BY <1>5, DueBy, AddsBy, KindValues DEF Proper
<1>13. /\ "compute" \in Streams /\ "comm" \in Streams /\ "comm" # "compute"
       /\ Streams = {"compute", "comm"} /\ setup.async \in BOOLEAN /\ setup.dbo \in BOOLEAN
       /\ (setup.dbo => setup.async) /\ setup' = setup
  BY <1>2 DEF Streams, HostFacts
<1>14. l \in Int /\ l - 1 \in Int /\ 6 * (l - 1) + 4 \in Int /\ 6 * (l - 1) + 5 \in Int
  OBVIOUS
<1>15. Prepared(r, u, p, q)
  <2>1. ASSUME Sane(setup, Ubatches, queue'[r], put'[r], MainPut(r)', SharedPut(r)', mem[r], p, q)
        PROVE  ThreadSuits(setup, queue'[r], put'[r], mem[r][u], u, MainPut(r)'[u], p[u],
                  pc'[r][u], layer'[r][u], handle'[r][u], rows'[r][u], mark'[r][u],
                  handles'[r][u])
    <3>1. Marked(setup, queue'[r], put'[r], u, 6 * (l - 1) + 5, "sum", mark'[r][u])
      <4>1. CASE setup.dbo
        <5>1. put'[r]["comm"] \in Int
          BY <1>1, <1>13 DEF EPTypes, DeviceTypes
        <5>2. \A t \in Streams : t # StreamOf(setup, "sum") => t = "comm"
          BY <1>13 DEF StreamOf
        <5>3. \A t \in Streams : t # StreamOf(setup, "sum") => put'[r][t] <= put'[r]["comm"]
          BY <5>1, <5>2
        <5>4. Marked(setup, queue'[r], put'[r], u, 6 * (l - 1) + 5, "sum", put'[r]["comm"])
          BY <1>1, <1>13, <5>1, <5>3, MarkNow
        <5> QED BY <1>1, <4>1, <5>4
      <4>2. CASE ~ setup.dbo
        <5>1. StreamOf(setup, "copy") = StreamOf(setup, "sum")
          BY <4>2 DEF StreamOf
        <5> QED BY <1>14, <2>1, <5>1, NoMark
      <4> QED BY <4>1, <4>2
    <3> QED BY <1>1, <1>9, <3>1, SuitsAt
  <2> QED BY <2>1 DEF Prepared
<1>16. CASE setup.dbo
  <2> DEFINE o == copy(0)
  <2>1. /\ o \in OpsOf(Ubatches) /\ o.kind = "copy" /\ o.ubatch = u
        /\ Queued(r, << run >>, << o >>) /\ Due(6 * (l - 1) + 4, l, o)
        /\ Adds(o, 6 * (l - 1) + 4, l, 6 * (l - 1) + 5, l)
        /\ Proper(queue[r], mem[r], p, o)
    BY <1>6, <1>7, <1>11, <1>16
  <2> HIDE DEF o
  <2>2. StreamOf(setup, o.kind) = "comm" /\ StreamOf(setup, "combine") = StreamOf(setup, o.kind)
    BY <1>13, <1>16, <2>1 DEF StreamOf
  <2>3. Sheltered(r, "compute", u, run, o, 6 * (l - 1) + 4)
    BY <1>14, <2>2, ShelteredBy
  <2>4. PairStep(r, u, p, q, "compute", "comm", run, o, 6 * (l - 1) + 4, l)
    <3>1. o.kind # "shared" /\ run.kind # "experts"
      BY <1>5, <2>1
    <3> QED BY <1>5, <1>8, <1>9, <1>12, <1>13, <1>15, <2>1, <2>2, <2>3, <3>1 DEF PairStep
  <2> QED BY <1>1, <1>5, <1>13, <1>14, <2>1, <2>4, PairGood
<1>17. ASSUME ~ setup.dbo, NEW after \in Nat, Queued(r, << copy(after), run >>, << >>),
              Marked(setup, queue[r], put[r], u, 6 * (l - 1) + 4, "copy", after)
       PROVE  Good(r)'
  <2> DEFINE o == copy(after)
  <2>1. /\ o \in OpsOf(Ubatches) /\ o.kind = "copy" /\ o.ubatch = u /\ o.after = after
        /\ Queued(r, << o, run >>, << >>) /\ Due(6 * (l - 1) + 4, l - 1, o)
        /\ Adds(o, 6 * (l - 1) + 4, l - 1, 6 * (l - 1) + 5, l - 1)
        /\ Proper(queue[r], mem[r], p, o)
    BY <1>6, <1>11, <1>17
  <2> HIDE DEF o
  <2>2. StreamOf(setup, o.kind) = "compute"
    BY <1>17, <2>1 DEF StreamOf
  <2>3. Marked(setup, queue[r], put[r], u, 6 * (l - 1) + 4, o.kind, o.after)
    BY <1>17, <2>1
  <2>4. PairStep(r, u, p, q, "compute", "compute", o, run, 6 * (l - 1) + 5, l - 1)
    <3>1. o.kind # "shared" /\ o.kind # "experts"
      BY <2>1
    <3> QED BY <1>5, <1>8, <1>9, <1>12, <1>13, <1>15, <2>1, <2>2, <2>3, <3>1 DEF PairStep
  <2> QED BY <1>1, <1>5, <1>13, <1>14, <2>1, <2>4, PairGood
<1>18. CASE ~ setup.async
  <2>1. StreamOf(setup, "combine") = StreamOf(setup, "copy")
    BY <1>13, <1>18 DEF StreamOf
  <2>2. Marked(setup, queue[r], put[r], u, 6 * (l - 1) + 4, "copy", 0)
    BY <1>10, <1>14, <2>1, NoMark
  <2> QED BY <1>7, <1>13, <1>17, <1>18, <2>2
<1>19. CASE setup.async /\ ~ setup.dbo
  <2>1. ASSUME NEW t \in Streams, t # "compute" PROVE t = "comm" /\ put[r][t] <= n
    BY <1>4, <1>13, <2>1
  <2>2. CASE Queued(r, << copy(n), run >>, << >>)
    <3>1. \A t \in Streams : t # StreamOf(setup, "copy") => put[r][t] <= n
      BY <1>19, <2>1 DEF StreamOf
    <3>2. /\ queue[r] \in [Streams -> Seq(OpsOf(Ubatches))] /\ put[r] \in [Streams -> Nat]
      BY <1>10 DEF Sane
    <3>3. n \in Int
      OBVIOUS
    <3>4. Marked(setup, queue[r], put[r], u, 6 * (l - 1) + 4, "copy", n)
      BY <3>1, <3>2, <3>3, MarkCovers
    <3> QED BY <1>17, <1>19, <2>2, <3>4
  <2>3. CASE Queued(r, << run, copy(n) >>, << >>)
    <3> DEFINE o == copy(n)
    <3>1. /\ o \in OpsOf(Ubatches) /\ o.kind = "copy" /\ o.ubatch = u /\ o.after = n
          /\ Queued(r, << run, o >>, << >>) /\ Due(6 * (l - 1) + 4, l, o)
          /\ Adds(o, 6 * (l - 1) + 4, l, 6 * (l - 1) + 5, l)
          /\ Proper(queue[r], mem[r], p, o)
      BY <1>6, <1>11, <2>3
    <3> HIDE DEF o
    <3>2. StreamOf(setup, o.kind) = "compute"
      BY <1>19, <3>1 DEF StreamOf
    <3>3. Sheltered(r, "compute", u, run, o, 6 * (l - 1) + 4)
      <4>1. ASSUME NEW t \in Streams, t # StreamOf(setup, o.kind)
            PROVE  [put[r] EXCEPT !["compute"] = put[r]["compute"] + 1][t] <= o.after
        <5>1. t # "compute" /\ put[r][t] <= n
          BY <2>1, <3>2, <4>1
        <5>2. put[r] \in [Streams -> Nat]
          BY DEF EPTypes, DeviceTypes
        <5>3. [put[r] EXCEPT !["compute"] = put[r]["compute"] + 1][t] = put[r][t]
          BY <5>1, <5>2
        <5> QED BY <3>1, <5>1, <5>3
      <4> QED BY <4>1 DEF Sheltered
    <3>4. PairStep(r, u, p, q, "compute", "compute", run, o, 6 * (l - 1) + 4, l)
      <4>1. o.kind # "shared" /\ run.kind # "experts"
        BY <1>5, <3>1
      <4> QED BY <1>5, <1>8, <1>9, <1>12, <1>13, <1>15, <3>1, <3>2, <3>3, <4>1 DEF PairStep
    <3> QED BY <1>1, <1>5, <1>13, <1>14, <3>1, <3>4, PairGood
  <2> QED BY <1>7, <1>19, <2>2, <2>3
<1> QED BY <1>13, <1>16, <1>18, <1>19

\* The experts go out, and the handle is read.
LEMMA ExpertsGood ==
  ASSUME EPTypes, NEW r \in Ranks, NEW u \in Ubatches, Experts(r, u),
         NEW p \in [Ubatches -> Nat], NEW q \in [Ubatches -> Nat], GoodFor(r, p, q)
  PROVE  Good(r)'
<1>1. /\ EPTypes' /\ HostFrame(r, u) /\ pc[r][u] = "experts" /\ pc'[r][u] = "combine"
      /\ layer'[r][u] = layer[r][u] /\ mark'[r][u] = put'[r]["compute"]
      /\ handle'[r][u] = IF setup.async THEN handles[r][u] ELSE layer[r][u]
      /\ rows'[r][u] \in Dests /\ ExpertsQueues(r, u)
  BY ExpertsDoes
<1>2. HostFacts(r, u, p, q)
  BY <1>1, HostFactsHold
<1>3. PICK l \in Nat : l = layer[r][u]
  BY <1>2, HostAt
<1>4. PICK w \in Nat : w = IF setup.async THEN mark[r][u] ELSE 0
  BY <1>2 DEF HostFacts
<1>5. PICK d \in OpArgs : d = rows'[r][u] /\ d \in Dests
  BY <1>1 DEF OpArgs
<1> DEFINE o == Op("experts", u, l, w, d)
<1>6. /\ o \in OpsOf(Ubatches) /\ o.kind = "experts" /\ o.ubatch = u /\ o.layer = l /\ o.after = w
      /\ o.arg = d
  <2>1. "experts" \in AllKinds
    BY DEF Kinds, AllKinds
  <2> QED BY <2>1, OpBuilt
<1>7. Queued(r, << o >>, << >>)
  BY <1>1, <1>3, <1>4, <1>5 DEF ExpertsQueues
<1> HIDE DEF o
<1>8. MainPut(r)[u] = 6 * (l - 1) + 2 /\ SharedPut(r)[u] = l - 1
  BY <1>1, <1>2, <1>3, HostAt
<1>9. MainPut(r)'[u] = 6 * (l - 1) + 3 /\ SharedPut(r)'[u] = l - 1
  BY <1>1, <1>2, <1>3, HostThen
<1>10. Sane(setup, Ubatches, queue[r], put[r], MainPut(r), SharedPut(r), mem[r], p, q)
  BY <1>2 DEF HostFacts
<1>11. l \in Int
  OBVIOUS
<1>12. /\ "compute" \in Streams /\ "comm" # "compute" /\ Streams = {"compute", "comm"}
       /\ setup.async \in BOOLEAN /\ setup' = setup /\ StreamOf(setup, o.kind) = "compute"
  BY <1>2, <1>6 DEF Streams, HostFacts, StreamOf
<1>13. Marked(setup, queue[r], put[r], u, 6 * (l - 1) + 2, o.kind, o.after)
  <2>1. CASE setup.async
    <3>1. Marked(setup, queue[r], put[r], u, MainPut(r)[u], "experts", mark[r][u])
      BY <1>1, <1>2 DEF HostFacts
    <3> QED BY <1>4, <1>6, <1>8, <2>1, <3>1
  <2>2. CASE ~ setup.async
    <3>1. StreamOf(setup, "dispatch") = StreamOf(setup, o.kind)
      BY <1>12, <2>2 DEF StreamOf
    <3> QED BY <1>10, <1>11, <3>1, NoMark
  <2> QED BY <1>12, <2>1, <2>2
<1>14. /\ Due(6 * (l - 1) + 2, l - 1, o)
       /\ Adds(o, 6 * (l - 1) + 2, l - 1, 6 * (l - 1) + 3, l - 1)
  BY <1>6, DueBy, AddsBy
<1>15. Proper(queue[r], mem[r], p, o)
  BY <1>5, <1>6 DEF Proper
<1>16. Longer(queue[r], put[r], queue'[r], put'[r], "compute", o)
  <2>1. Grows(queue[r], put[r], queue'[r], put'[r], "compute", o)
    BY <1>1, <1>6, <1>7, <1>12, OneQueued
  <2>2. queue[r] \in [Streams -> Seq(OpsOf(Ubatches))] /\ put[r] \in [Streams -> Nat]
    BY <1>10 DEF Sane
  <2> QED BY <1>12, <2>1, <2>2, GrownParts
<1>17. ASSUME NEW t \in Streams, NEW i \in 1..Len(queue[r][t]),
              queue[r][t][i].kind = "experts", queue[r][t][i].ubatch = u
       PROVE  queue[r][t][i].layer # l
  <2>1. Listed(setup, queue[r], MainPut(r), SharedPut(r), p, q)
    BY <1>10 DEF Sane, Fine
  <2>2. Main(queue[r][t][i]) /\ Index(queue[r][t][i].kind) = 3
    BY <1>17, KindValues
  <2>3. Num(queue[r][t][i]) <= MainPut(r)[u]
    BY <1>17, <2>1, <2>2 DEF Listed
  <2>4. Num(queue[r][t][i]) = 6 * (queue[r][t][i].layer - 1) + 3
    BY <2>2 DEF Num
  <2>5. queue[r][t][i].layer = l => 6 * (l - 1) + 3 <= 6 * (l - 1) + 2
    BY <1>8, <2>3, <2>4
  <2>6. ~ (6 * (l - 1) + 3 <= 6 * (l - 1) + 2)
    OBVIOUS
  <2> QED BY <2>5, <2>6
<1>18. p[u] # 6 * l - 3
  <2>1. p[u] <= MainPut(r)[u] /\ p[u] \in Nat
    BY <1>10 DEF Sane, Fine, Counted
  <2>2. p[u] <= 6 * (l - 1) + 2
    BY <1>8, <2>1
  <2> QED BY <2>1, <2>2
<1>19. Suits(queue'[r], mem[r][u], u, p[u], l, d)
  <2>1. ASSUME NEW t \in Streams, NEW i \in 1..Len(queue'[r][t]),
               queue'[r][t][i].kind = "experts", queue'[r][t][i].ubatch = u,
               queue'[r][t][i].layer = l
        PROVE  queue'[r][t][i].arg = d
    <3>1. \/ i \in 1..Len(queue[r][t]) /\ queue'[r][t][i] = queue[r][t][i]
          \/ queue'[r][t][i] = o
      BY <1>16 DEF Longer
    <3>2. CASE i \in 1..Len(queue[r][t]) /\ queue'[r][t][i] = queue[r][t][i]
      BY <1>17, <2>1, <3>2
    <3>3. CASE queue'[r][t][i] = o
      BY <1>6, <3>3
    <3> QED BY <3>1, <3>2, <3>3
  <2> QED BY <1>5, <1>18, <2>1 DEF Suits
<1>20. handle'[r][u] = l
  BY <1>1, <1>2, <1>3 DEF HostFacts
<1>21. Prepared(r, u, p, q)
  <2>1. ASSUME Sane(setup, Ubatches, queue'[r], put'[r], MainPut(r)', SharedPut(r)', mem[r], p, q)
        PROVE  ThreadSuits(setup, queue'[r], put'[r], mem[r][u], u, MainPut(r)'[u], p[u],
                  pc'[r][u], layer'[r][u], handle'[r][u], rows'[r][u], mark'[r][u],
                  handles'[r][u])
    <3>1. Marked(setup, queue'[r], put'[r], u, 6 * (l - 1) + 3, "combine", mark'[r][u])
      <4>1. CASE setup.async
        <5>1. put'[r]["compute"] \in Int
          BY <1>1, <1>12 DEF EPTypes, DeviceTypes
        <5>2. \A t \in Streams : t # StreamOf(setup, "combine") => t = "compute"
          BY <1>12, <4>1 DEF StreamOf
        <5>3. \A t \in Streams : t # StreamOf(setup, "combine") => put'[r][t] <= put'[r]["compute"]
          BY <5>1, <5>2
        <5> QED BY <1>1, <1>12, <5>1, <5>3, MarkNow
      <4>2. CASE ~ setup.async
        <5>1. StreamOf(setup, "experts") = StreamOf(setup, "combine")
          BY <4>2 DEF StreamOf
        <5> QED BY <1>11, <2>1, <5>1, NoMark
      <4> QED BY <1>12, <4>1, <4>2
    <3>2. /\ pc'[r][u] = "combine" /\ handle'[r][u] = layer'[r][u]
          /\ Suits(queue'[r], mem[r][u], u, p[u], layer'[r][u], rows'[r][u])
          /\ Marked(setup, queue'[r], put'[r], u, MainPut(r)'[u], "combine", mark'[r][u])
      BY <1>1, <1>3, <1>5, <1>9, <1>19, <1>20, <3>1
    <3> QED BY <3>2, SuitsAt
  <2> QED BY <2>1 DEF Prepared
<1>22. OneStep(r, u, p, q, "compute", o)
  <2>1. o.kind # "shared"
    BY <1>6
  <2> QED BY <1>6, <1>7, <1>8, <1>9, <1>12, <1>13, <1>14, <1>15, <1>21, <2>1 DEF OneStep
<1> QED BY <1>1, <1>6, <1>12, <1>22, OneGood

\* A thread's step keeps its rank good.
LEMMA HostGood ==
  ASSUME EPTypes, NEW r \in Ranks, NEW u \in Ubatches, Host(r, u), InTurn(r), Good(r)
  PROVE  Good(r)'
<1>1. PICK p \in [Ubatches -> Nat], q \in [Ubatches -> Nat] : GoodFor(r, p, q)
  BY DEF Good
<1>2. CASE Start(r, u)
  BY <1>1, <1>2, StartGood
<1>3. CASE Dispatch(r, u)
  <2>1. pc[r][u] = "dispatch"
    BY <1>3, DispatchDoes
  <2>2. setup.async
    <3>1. setup.dbo => setup.async
      BY SetupTyped DEF EPTypes, ThreadTypes
    <3>2. ~ setup.dbo => u = 0
      BY DEF Ubatches
    <3> QED BY <2>1, <3>1, <3>2 DEF InTurn
  <2> QED BY <1>1, <1>3, <2>2, DispatchGood
<1>4. CASE Receive(r, u)
  BY <1>1, <1>4, ReceiveGood
<1>5. CASE Experts(r, u)
  BY <1>1, <1>5, ExpertsGood
<1>6. CASE Combine(r, u)
  BY <1>1, <1>6, CombineGood
<1>7. CASE Finish(r, u)
  BY <1>1, <1>7, FinishGood
<1>8. CASE Sum(r, u)
  BY <1>1, <1>8, SumGood
<1> QED BY <1>2, <1>3, <1>4, <1>5, <1>6, <1>7, <1>8 DEF Host

\* At the start nothing is queued and every buffer is empty.
LEMMA GoodInit ==
  ASSUME Init, NEW r \in Ranks
  PROVE  Good(r)
<1> DEFINE z == [u \in Ubatches |-> 0]
<1>1. z \in [Ubatches -> Nat] /\ \A u \in Ubatches : z[u] = 0
  OBVIOUS
<1>2. /\ \A s \in Streams : queue[r][s] = << >>
      /\ \A u \in Ubatches : pc[r][u] = "start" /\ layer[r][u] = 1
      /\ \A u \in Ubatches : \A b \in Buffers : mem[r][u][b] = 0
  BY DEF Init, None
<1>3. \A s \in Streams : Len(queue[r][s]) = 0 /\ 1..Len(queue[r][s]) = {}
  <2>1. Len(<< >>) = 0 /\ 1..0 = {}
    BY SMT
  <2> QED BY <1>2, <2>1
<1>4. \A u \in Ubatches : MainPut(r)[u] = 0 /\ SharedPut(r)[u] = 0
  <2>1. MainAt(1, "start") = 0 /\ SharedAt(1, "start") = 0
    BY PlaceValues
  <2>2. \A u \in Ubatches : /\ MainPut(r)[u] = MainAt(layer[r][u], pc[r][u])
                            /\ SharedPut(r)[u] = SharedAt(layer[r][u], pc[r][u])
    BY DEF MainPut, SharedPut, MainAt, SharedAt
  <2> QED BY <1>2, <2>1, <2>2
<1> HIDE DEF z
<1>5. Fine(setup, Ubatches, queue[r], put[r], MainPut(r), SharedPut(r), z, z)
  <2>1. Listed(setup, queue[r], MainPut(r), SharedPut(r), z, z)
    BY <1>3 DEF Listed
  <2>2. Ordered(queue[r])
    BY <1>3 DEF Ordered
  <2>3. Waiting(queue[r], put[r])
    BY <1>3 DEF Waiting
  <2>4. Covered(Ubatches, queue[r], MainPut(r), SharedPut(r), z, z)
    <3>1. (0 + 1)..0 = {}
      BY SMT
    <3> QED BY <1>1, <1>4, <3>1 DEF Covered
  <2>5. Counted(Ubatches, MainPut(r), SharedPut(r), z, z)
    <3>1. /\ 0 <= 0 /\ 6 * 0 - 3 <= 0 /\ 0 <= 6 * 0 + 5 /\ 6 * 0 - 2 <= 0
      BY SMT
    <3> QED BY <1>1, <1>4, <3>1 DEF Counted
  <2> QED BY <2>1, <2>2, <2>3, <2>4, <2>5 DEF Fine
<1>6. ASSUME NEW u \in Ubatches
      PROVE  Filled(mem[r][u], z[u], z[u])
  <2> DEFINE b == mem[r][u]
  <2>1. \A c \in Buffers : b[c] = 0
    BY <1>2
  <2>2. z[u] = 0
    BY <1>1
  <2> HIDE DEF b
  <2>3. b["x"] = 0 /\ b["recv"] = 0 /\ b["combined"] = 0 /\ b["sum"] = 0 /\ b["shared"] = 0
    BY <2>1 DEF Buffers
  <2>4. Filled(b, 0, 0)
    BY <2>1, <2>3 DEF Filled
  <2> QED BY <2>2, <2>4 DEF b
<1>7. Args(queue[r], mem[r], z)
  BY <1>3 DEF Args
<1>8. ASSUME NEW u \in Ubatches
      PROVE  ThreadSuits(setup, queue[r], put[r], mem[r][u], u, MainPut(r)[u], z[u], pc[r][u],
                         layer[r][u], handle[r][u], rows[r][u], mark[r][u], handles[r][u])
  <2>1. pc[r][u] = "start"
    BY <1>2
  <2> QED BY <2>1, SuitsAt
<1>9. GoodFor(r, z, z)
  BY <1>5, <1>6, <1>7, <1>8 DEF GoodFor
<1> QED BY <1>1, <1>9 DEF Good

AllGood == \A r \in Ranks : Good(r)

\* Every step keeps all ranks good.
LEMMA AllGoodStays ==
  ASSUME EPIInv, AllGood, [Next]_vars
  PROVE  AllGood'
<1>0. EPTypes /\ \A r \in Ranks : InTurn(r) /\ Good(r)
  BY DEF EPIInv, Concerted, AllGood
<1>1. ASSUME NEW r \in Ranks, NEW u \in Ubatches, Host(r, u)
      PROVE  AllGood'
  <2>1. HostFrame(r, u)
    BY <1>0, <1>1, HostFrames
  <2>2. Good(r)'
    BY <1>0, <1>1, HostGood
  <2>3. ASSUME NEW q \in Ranks \ {r} PROVE Good(q)'
    <3>1. /\ setup' = setup /\ mem' = mem /\ queue'[q] = queue[q] /\ put'[q] = put[q]
          /\ pc'[q] = pc[q] /\ layer'[q] = layer[q] /\ mark'[q] = mark[q]
          /\ handle'[q] = handle[q] /\ rows'[q] = rows[q] /\ handles'[q] = handles[q]
      BY <2>1 DEF HostFrame
    <3> QED BY <1>0, <3>1, GoodStays
  <2>4. \A q \in Ranks : Good(q)'
    BY <2>2, <2>3
  <2> QED BY <2>4 DEF AllGood
<1>2. ASSUME NEW r \in Ranks, NEW s \in Streams, Local(r, s)
      PROVE  AllGood'
  <2>1. {r} \in SUBSET Ranks /\ DeviceStep({r}, s)
    BY <1>2, DeviceSteps
  <2>2. Fruitful({r}, s)
    BY <1>0, <1>2, LocalFruitful
  <2>3. \A q \in Ranks : Good(q)'
    BY <1>0, <2>1, <2>2, DeviceGood
  <2> QED BY <2>3 DEF AllGood
<1>3. ASSUME NEW s \in Streams, Joint(s)
      PROVE  AllGood'
  <2>1. Ranks \in SUBSET Ranks /\ DeviceStep(Ranks, s)
    BY <1>3, DeviceSteps
  <2>2. Fruitful(Ranks, s)
    BY <1>0, <1>3, JointFruitful
  <2>3. \A q \in Ranks : Good(q)'
    BY <1>0, <2>1, <2>2, DeviceGood
  <2> QED BY <2>3 DEF AllGood
<1>4. CASE UNCHANGED vars
  <2>1. /\ setup' = setup /\ mem' = mem /\ queue' = queue /\ put' = put
        /\ pc' = pc /\ layer' = layer /\ mark' = mark
        /\ handle' = handle /\ rows' = rows /\ handles' = handles
    BY <1>4 DEF vars, threads, device
  <2>2. \A q \in Ranks : Good(q)'
    BY <1>0, <2>1, GoodStays
  <2> QED BY <2>2 DEF AllGood
<1> QED BY <1>1, <1>2, <1>3, <1>4 DEF Next, Finished

\* No operation finds a buffer of another layer than its own: for any set of ranks, any
\* number of layers, every configuration and every interleaving of threads and streams, what
\* an operation reads was written before it, and is not written again before it is done.
THEOREM ReadsRight == Spec => []ReadsOwnLayer
<1>1. Init => AllGood
  BY GoodInit DEF AllGood
<1>2. EPIInv /\ AllGood /\ [Next]_vars => AllGood'
  BY AllGoodStays
<1>3. AllGood => ReadsOwnLayer
  <2> SUFFICES ASSUME AllGood, NEW r \in Ranks, NEW u \in Ubatches, NEW b \in Buffers
               PROVE  mem[r][u][b] # Bad
    BY DEF ReadsOwnLayer
  <2>1. PICK p \in [Ubatches -> Nat], q \in [Ubatches -> Nat] : GoodFor(r, p, q)
    BY DEF AllGood, Good
  <2>2. mem[r][u][b] \in Nat
    BY <2>1 DEF GoodFor, Filled
  <2> QED BY <2>2 DEF Bad
<1>4. Spec => EPSpec
  BY DEF Spec, EPSpec
<1> QED BY <1>1, <1>2, <1>3, <1>4, EPIInvHolds, PTL DEF EPSpec

=============================================================================
