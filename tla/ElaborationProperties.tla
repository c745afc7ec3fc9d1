-------------------------- MODULE ElaborationProperties --------------------------
(* What the recorder of an elaboration must satisfy.                        *)
EXTENDS Elaboration

Networks == 1..Len(topology.own)

TypeOK ==
    /\ topology.engine.size = Len(topology.own)
    /\ topology.engine \in Colors!Engine(topology.engine.size)
    /\ \A n \in Networks :
          topology.own[n] \in
              [consumed : BOOLEAN, generation : Nat, owner : {Lost} \cup 0..called,
               color : {Red, Green, NoColor}, readers : SUBSET (1..Len(borrows)),
               writer : {NoBorrow} \cup 1..Len(borrows)]
    /\ \A i \in 1..Len(topology.transfers) : topology.transfers[i] \in Networks \X Networks
    /\ \A c \in Combinators :
          /\ Len(topology.combs[c].lanes) \in {1, 2}
          /\ LanesOf(topology.combs[c]) \cup topology.combs[c].inputs \subseteq Networks
          /\ topology.combs[c].used \in BOOLEAN
    /\ \A b \in 1..Len(borrows) : borrows[b] \in
          [network : Nat \ {0}, capability : {"readonly", "ref"}, active : BOOLEAN]
    /\ called \in 0..MaxCalls /\ Len(frames) <= called
    /\ \A i \in 1..Len(frames) :
          frames[i] \in [owner : 1..called, borrows : SUBSET (1..Len(borrows)),
                         moves : SUBSET Networks, references : SUBSET Networks]
    /\ \A h \in handles :
          h \in [network : Networks, capability : {"owned", "move", "readonly", "ref"},
                 generation : Nat, borrow : {NoBorrow} \cup 1..Len(borrows)]
    /\ \A pair \in pairs : pair \subseteq Nat \ {0} /\ Cardinality(pair) = 2
    /\ dslCalls \in 0..DslCallBudget + 1
    /\ caught \in BOOLEAN
    /\ forgotten \subseteq {"colors", "pairs", "moves", "reads"}
    /\ status \in {"active", "failed", "sealed"}

-----------------------------------------------------------------------------
(* Borrows end with the frame that made them, and only then, whatever was   *)
(* rolled back in between; and they exclude each other: what a network      *)
(* counts are the active borrows of it, one that is mutable among no others *)
(* (elaboration-ownership.ts, borrow and releaseFrame).                     *)
BorrowsExclude ==
    /\ \A b \in 1..Len(borrows) :
          borrows[b].active <=> \E i \in 1..Len(frames) : b \in frames[i].borrows
    /\ \A n \in Networks :
          LET own == topology.own[n]
              Active(capability) ==
                  {b \in 1..Len(borrows) : borrows[b] =
                      [network |-> n, capability |-> capability, active |-> TRUE]}
          IN  /\ own.readers = Active("readonly")
              /\ {own.writer} \ {NoBorrow} = Active("ref")
              /\ own.writer # NoBorrow => own.readers = {}

(* A network that is borrowed is neither consumed nor moved until the borrow *)
(* has ended, through any handle, except that the frame that made the       *)
(* borrow may return a network of its own.                                  *)
BorrowsOf(t, n) == t.own[n].readers \cup ({t.own[n].writer} \ {NoBorrow})

BorrowedStaysPut ==
    [][\A n \in Networks :
          /\ n <= Len(topology'.own)
          /\ BorrowsOf(topology, n) \cap BorrowsOf(topology', n) # {}
          /\ ~(frames # <<>> /\ BorrowsOf(topology, n) \subseteq Frame.borrows)
          => /\ topology'.own[n].consumed = topology.own[n].consumed
             /\ topology'.own[n].generation = topology.own[n].generation]_vars

(* Ownership is in one place.  Of all the handles a program has kept, two   *)
(* that may consume the same network were given by the same move; and what  *)
(* was moved into a function may be consumed only until the function ends.  *)
OneOwner ==
    /\ \A h, g \in {x \in Usable : Consumable(topology, x)} :
          h.network = g.network => h.generation = g.generation
    /\ "moves" \in forgotten \/ \A h \in handles :
          h.capability = "move" /\ Consumable(topology, h) =>
              \E i \in 1..Len(frames) : frames[i].owner = Of(topology, h).owner

(* A handle that was moved from, or whose network was consumed or lost,     *)
(* stays dead.  Only a rollback revives one, which was alive before; and    *)
(* when it undoes moves, a later move may get the number of an undone one.  *)
Alive(t, h) == Current(t, h) /\ Of(t, h).owner # Lost

DeadHandlesStayDead ==
    [][\A h \in handles \cap handles' :
          ~Alive(topology, h) /\ Alive(topology', h) =>
             \/ "moves" \in forgotten
             \/ factory # NoFactory /\ Alive(factory.saved, h)]_vars

-----------------------------------------------------------------------------
(* The plan that is sealed.                                                 *)
Direct == INSTANCE DirectPlan

PlanOf ==
    [fixed |-> [n \in Networks |-> topology.own[n].color],
     transfers |-> topology.transfers,
     pairs |-> pairs,
     producers |-> [c \in Combinators |->
         [inputs |-> topology.combs[c].inputs,
          destinations |-> [i \in 1..Len(topology.combs[c].lanes) |->
                                topology.combs[c].lanes[i].network]]]]

(* A plan that was recorded replays: whatever the order of the transfers,   *)
(* pairs and combinators, and of what failed and was undone among them, the *)
(* recorder accepts nothing that the replay rejects, so that every error is *)
(* reported at the line of the source that makes it.  Not so when a         *)
(* rollback left a pair behind, or made the colours forget a fixed one.     *)
PlanReplays ==
    status = "sealed" /\ forgotten \cap {"pairs", "colors"} = {} =>
        Direct!Replay(PlanOf) = "none"

(* ... and its transfers replay in every case.                              *)
TransfersReplay ==
    status = "sealed" =>
        Direct!Collapsed(PlanOf).failure \notin {"RT2011", "RT2012", "RT2013"}

(* The warning that an output is never read or connected is true: none of   *)
(* its lanes is read by a combinator, was transferred or is in a pair, and  *)
(* none was named by a condition that is still kept.  Not so when a rollback *)
(* undid the read of a condition that the program has kept; and a pair that *)
(* a rollback left behind may name a network that was made after it.        *)
UnusedIsUnread ==
    "reads" \in forgotten \/ \A c \in Combinators : ~topology.combs[c].used =>
        \A n \in LanesOf(topology.combs[c]) :
            /\ \A d \in Combinators : n \notin topology.combs[d].inputs
            /\ \A i \in 1..Len(topology.transfers) : n \notin
                  {topology.transfers[i][1], topology.transfers[i][2]}
            /\ n \notin UNION (conditions \cup (IF "pairs" \in forgotten THEN {} ELSE pairs))
=============================================================================
