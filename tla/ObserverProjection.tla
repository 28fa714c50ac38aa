------------------------- MODULE ObserverProjection -------------------------
(***************************************************************************)
(* The bounded projection of chronik-observer/src/lib.rs: the last blocks  *)
(* of the chain its events describe, and a sequence number per event.      *)
(* Every request is answered by the one thread that owns the projection.   *)
(* The totals kept beside the blocks are sums over them and left out, with *)
(* the summaries and fingerprints made for the log.                        *)
(***************************************************************************)
EXTENDS Blocks, FiniteSetsExt, Folds

CONSTANTS MaxBlocks,      \* max_blocks, CHRONIK_OBSERVER_RETAINED_BLOCKS
          MaxSequence     \* u64::MAX

ASSUME ProjectionAssumption ==
  /\ MaxBlocks \in Nat \ {0}
  /\ MaxSequence \in Nat \ {0}

NewObserver ==
  [sequence |-> 0, blocks |-> <<>>, is_truncated |-> FALSE,
   needs_rebuild |-> FALSE]

\* record: the number after the largest is 1, for 0 stands for a rejection.
Record(sequence) == IF sequence = MaxSequence THEN 1 ELSE sequence + 1

ObserverTip(o) == IF o.blocks = <<>> THEN NoBlock ELSE Last(o.blocks)

\* connect_block's tests: the block extends the retained tip.
ConnectsTo(o, b) ==
  /\ ~o.needs_rebuild
  /\ o.blocks # <<>> => /\ PrevHash(b) = ObserverTip(o)
                        /\ Height(b) = Height(ObserverTip(o)) + 1

\* Mutant: eviction forgets to note that the projection is cut off.
ConnectBlockUnmarked(o, b) ==
  LET evicted == Len(o.blocks) = MaxBlocks IN
    [o EXCEPT !.blocks = Append(IF evicted THEN Tail(@) ELSE @, b),
              !.is_truncated = IF o.blocks = <<>> THEN Height(b) > 0 ELSE @,
              !.sequence = Record(@)]

ConnectBlock(o, b) ==
  LET evicted == Len(o.blocks) = MaxBlocks IN
    [o EXCEPT !.blocks = Append(IF evicted THEN Tail(@) ELSE @, b),
              !.is_truncated = IF o.blocks = <<>> THEN Height(b) > 0
                               ELSE @ \/ evicted,
              !.sequence = Record(@)]

\* disconnect_block's tests: the block is the retained tip.
DisconnectsFrom(o, b) ==
  /\ ~o.needs_rebuild
  /\ o.blocks # <<>>
  /\ ObserverTip(o) = b

\* Losing the last block of a truncated projection loses its anchor.
DisconnectBlock(o) ==
  [o EXCEPT !.blocks = Front(@),
            !.needs_rebuild = Len(o.blocks) = 1 /\ o.is_truncated,
            !.sequence = Record(@)]

Observes(o, e) ==
  IF e.kind = "connected" THEN ConnectsTo(o, e.block)
  ELSE DisconnectsFrom(o, e.block)

Observed(o, e) ==
  IF e.kind = "connected" THEN ConnectBlock(o, e.block) ELSE DisconnectBlock(o)

\* A panic inside a request is contained, and the projection is given up.
FailClosedAfterPanic(o) == [o EXCEPT !.needs_rebuild = TRUE]

(***************************************************************************)
(* Bootstrap: a staging projection is fed the end of the active chain and  *)
(* adopted whole; the live sequence goes on.                               *)
(***************************************************************************)
StartHeight(tip) ==
  IF Height(tip) - MaxBlocks + 1 > 0 THEN Height(tip) - MaxBlocks + 1 ELSE 0

\* The blocks are connected in the order of their heights.
Rebuilt(tip) ==
  MapThenFoldSet(LAMBDA b, o : ConnectBlock(o, b), NewObserver,
                 LAMBDA height : BlockAt(tip, height), Max,
                 StartHeight(tip) .. Height(tip))

Adoptable(rebuilt) ==
  /\ rebuilt.blocks # <<>>
  /\ rebuilt.sequence = Len(rebuilt.blocks)
  /\ ~rebuilt.needs_rebuild

AdoptProjection(o, rebuilt) == [rebuilt EXCEPT !.sequence = o.sequence]
=============================================================================
