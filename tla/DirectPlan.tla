------------------------------- MODULE DirectPlan -------------------------------
(***************************************************************************)
(* The replay of a recorded plan (packages/runtime/src/direct-plan.ts and  *)
(* elaboration.ts): transfers collapse networks into their survivors, then *)
(* pairs, producers and their attachments constrain the wire colours.      *)
(*                                                                         *)
(* A plan is [fixed, transfers, pairs, producers]: the colour declared of  *)
(* each network (NoColor for none), the transfers <<destination, source>>, *)
(* the pairs, and [inputs, destinations] of each producer.                 *)
(***************************************************************************)
EXTENDS Integers, Sequences, FiniteSets

Red == 0
Green == 1
NoColor == 2

Started(plan) ==
    LET networks == 1..Len(plan.fixed)
    IN  [root |-> [n \in networks |-> n], consumed |-> {}, failure |-> "none"]

FixedIn(plan, replay, root) ==
    {plan.fixed[n] : n \in {m \in 1..Len(plan.fixed) : replay.root[m] = root}} \ {NoColor}

(* One transfer: the checks in their order, then the union.                 *)
Transferred(plan, replay, transfer) ==
    LET destination == transfer[1]
        source == transfer[2]
        networks == 1..Len(plan.fixed)
        Failed(code) == [replay EXCEPT !.failure = code]
        top == replay.root[destination]
        low == replay.root[source]
    IN  IF replay.failure # "none" THEN replay
        ELSE IF {destination, source} \cap networks # {destination, source}
             THEN Failed("RT2011")
        ELSE IF {destination, source} \cap replay.consumed # {} THEN Failed("RT2012")
        ELSE IF top = low THEN Failed("RT2013")
        ELSE IF Cardinality(FixedIn(plan, replay, top) \cup FixedIn(plan, replay, low)) > 1
             THEN Failed("RT2014")
        ELSE [replay EXCEPT
               !.root = [n \in networks |-> IF @[n] = low THEN top ELSE @[n]],
               !.consumed = @ \cup {source}]

Collapsed(plan) ==
    LET after[i \in 0..Len(plan.transfers)] ==
            IF i = 0 THEN Started(plan)
            ELSE Transferred(plan, after[i - 1], plan.transfers[i])
    IN  after[Len(plan.transfers)]

(* The survivors each producer reads, and those it is attached to, in turn. *)
RootsOf(replay, networks) == {replay.root[n] : n \in networks}
TargetsOf(replay, producer) ==
    [i \in 1..Len(producer.destinations) |-> replay.root[producer.destinations[i]]]
ConnectorsOf(plan, replay) ==
    {RootsOf(replay, plan.producers[p].inputs) : p \in 1..Len(plan.producers)} \cup
    {LET targets == TargetsOf(replay, plan.producers[p])
     IN  {targets[i] : i \in 1..Len(targets)} : p \in 1..Len(plan.producers)}

(* Each output is attached to one or two survivors, no survivor twice.      *)
Attachable(replay, producer) ==
    LET targets == TargetsOf(replay, producer)
    IN  /\ Len(targets) \in {1, 2}
        /\ \A i, j \in 1..Len(targets) : targets[i] = targets[j] => i = j

(* What is left to the colour solver: the two networks of a pair and of a   *)
(* connector differ, and fixed colours hold.                                *)
Solvable(plan, replay) ==
    LET survivors == {replay.root[n] : n \in 1..Len(plan.fixed)}
        apart == {RootsOf(replay, pair) : pair \in plan.pairs}
                     \cup ConnectorsOf(plan, replay)
    IN  \E color \in [survivors -> {Red, Green}] :
            /\ \A n \in 1..Len(plan.fixed) :
                  plan.fixed[n] \in {NoColor, color[replay.root[n]]}
            /\ \A networks \in apart : \A l, r \in networks : l # r => color[l] # color[r]

(* The replay: it fails at the first check that does not hold.              *)
Replay(plan) ==
    LET replay == Collapsed(plan)
        producers == {plan.producers[p] : p \in 1..Len(plan.producers)}
    IN  IF replay.failure # "none" THEN replay.failure
        ELSE IF \E pair \in plan.pairs : Cardinality(RootsOf(replay, pair)) # 2
             THEN "RT2020"
        ELSE IF \E producer \in producers : ~Attachable(replay, producer) THEN "RT2004"
        ELSE IF \E networks \in ConnectorsOf(plan, replay) : Cardinality(networks) > 2
             THEN "RT2009"
        ELSE IF ~Solvable(plan, replay) THEN "RT2010"
        ELSE "none"
=============================================================================
