--------------------------- MODULE PositionReader ---------------------------
(***************************************************************************)
(* NativePositionReader (chronik-cpp/ergon_position_reader.cpp): reads the *)
(* transaction stored at a position of the node's block files, provided    *)
(* its block is active.  A catalogue of the active blocks' positions is    *)
(* brought up to date by the reader that finds it old, in batches between  *)
(* which the node goes on; a layout cache spares whole-block reads.        *)
(*                                                                         *)
(* A block is stored once, the first time it is connected, and stays where *)
(* it is: its header at the block's position and its one transaction next. *)
(* The source's generation counts the changes of the active chain and is 0 *)
(* once exhausted.  Left out: undo data, the checks of the bytes read      *)
(* (files do not change under the node), statistics, blocks without data.  *)
(***************************************************************************)
EXTENDS Blocks, FiniteSets, FiniteSetsExt

CONSTANTS
  Readers,
  PerFile,          \* blocks a file holds
  CATALOGUE_BATCH, LAYOUT_LIMIT,
  MaxGeneration     \* UINT64_MAX

ASSUME ReaderAssumption ==
  /\ PerFile \in Nat \ {0} /\ CATALOGUE_BATCH \in Nat \ {0}
  /\ LAYOUT_LIMIT \in Nat /\ MaxGeneration \in Nat \ {0}

VARIABLES
  tip, generation, stored,   \* the node: active chain, blocks in file order
  available,                 \* neither shutdown nor index_failed
  catalogue,                 \* <<>> while a refresher owns it
  refresh,                   \* what the holder of refresh_mutex works on
  layouts,                   \* positions of the blocks whose layout is cached
  pc, position, ref,         \* per reader
  begun                      \* history: the generation a read began at

source == <<tip, generation, stored, available>>
local == <<position, ref, begun>>
vars == <<source, catalogue, refresh, layouts, pc, local>>

None == <<>>
Some(x) == <<x>>
The(option) == option[1]

PositionOf(b) ==
  LET i == CHOOSE n \in DOMAIN stored : stored[n] = b
  IN  <<(i - 1) \div PerFile, 2 * ((i - 1) % PerFile)>>
SpanOf(b) == <<PositionOf(b)[1], PositionOf(b)[2] + 1>>

\* Keys are ordered by file, then by offset.
Before(p, q) == p[1] < q[1] \/ (p[1] = q[1] /\ p[2] < q[2])

\* Positions asked for: of any stored transaction, and one of no transaction.
Positions == {SpanOf(b) : b \in Range(stored)} \cup {PositionOf(tip)}

EmptyCatalogue == [heights |-> <<>>, last_tip |-> NoBlock, generation |-> 0]

Genesis == <<GenesisTx>>

Init ==
  /\ tip = Genesis /\ generation = 1 /\ stored = <<Genesis>> /\ available = TRUE
  /\ catalogue = Some(EmptyCatalogue) /\ refresh = None /\ layouts = {}
  /\ pc = [r \in Readers |-> "idle"]
  /\ position = [r \in Readers |-> <<0, 0>>]
  /\ ref = [r \in Readers |-> None]
  /\ begun = [r \in Readers |-> 0]

-----------------------------------------------------------------------------
(* The node, under cs_main.                                                *)

Advance ==
  generation' = IF generation \in {0, MaxGeneration} THEN 0 ELSE generation + 1

\* Bound: nothing more is asked of the chain once the generation is exhausted.
SetTip ==
  /\ generation # 0
  /\ \/ \E b \in Children(tip) : tip' = b
     \/ Height(tip) > 0 /\ tip' = PrevHash(tip)
  /\ Advance
  /\ stored' = IF tip' \in Range(stored) THEN stored ELSE Append(stored, tip')
  /\ UNCHANGED <<available, catalogue, refresh, layouts, pc, local>>

Withdraw ==
  /\ available
  /\ available' = FALSE
  /\ UNCHANGED <<tip, generation, stored, catalogue, refresh, layouts, pc, local>>

-----------------------------------------------------------------------------
(* A read.                                                                 *)

Available == available /\ generation # 0

Go(r, where) == pc' = [pc EXCEPT ![r] = where]

Begin(r) ==
  /\ pc[r] \in {"idle", "answered", "failed"}
  /\ \E p \in Positions : position' = [position EXCEPT ![r] = p]
  /\ ref' = [ref EXCEPT ![r] = None]
  /\ begun' = [begun EXCEPT ![r] = generation]
  /\ Go(r, "resolve")
  /\ UNCHANGED <<source, catalogue, refresh, layouts>>

\* The block of the catalogue that starts last before the position, in its
\* file, if the chain still has it there.
Lookup(c, p) ==
  LET below == {i \in DOMAIN c.heights :
                  c.heights[i][1] = p[1] /\ ~Before(p, c.heights[i])}
      found == CHOOSE i \in below :
                 \A j \in below : ~Before(c.heights[i], c.heights[j])
  IN  IF below = {} \/ found > Len(tip) THEN None
      ELSE IF PositionOf(BlockAt(tip, found - 1)) # c.heights[found] THEN None
      ELSE Some([block |-> BlockAt(tip, found - 1), generation |-> c.generation])

Resolved(r, c) ==
  /\ ref' = [ref EXCEPT ![r] = Lookup(c, position[r])]
  /\ Go(r, IF ref'[r] = None THEN "failed" ELSE "resolved")

UpToDate == catalogue # None /\ The(catalogue).generation = generation

\* Resolve without refresh_mutex.
ResolveFast(r) ==
  /\ pc[r] = "resolve"
  /\ \/ ~Available /\ Go(r, "failed") /\ UNCHANGED ref
     \/ Available /\ UpToDate /\ Resolved(r, The(catalogue))
     \/ Available /\ ~UpToDate /\ Go(r, "refresh") /\ UNCHANGED ref
  /\ UNCHANGED <<source, catalogue, refresh, layouts, position, begun>>

\* Mutant: heights are compared, not blocks.
ForkHeightByLength(c) ==
  IF c.heights = <<>> THEN -1
  ELSE Min({Height(c.last_tip), Height(tip), Len(c.heights) - 1})

\* The last height the catalogue shares with the chain, -1 for none; the
\* source finds it by bisection.
ForkHeight(c) ==
  LET high == Min({Height(c.last_tip), Height(tip), Len(c.heights) - 1})
  IN  IF c.heights = <<>> THEN -1
      ELSE Max({-1} \cup {h \in 0 .. high :
                            BlockAt(c.last_tip, h) = BlockAt(tip, h)})

\* ... and with it: the reader may have to refresh the catalogue itself.
ResolveSlow(r) ==
  /\ pc[r] = "refresh" /\ refresh = None
  /\ \/ /\ ~Available \/ catalogue = None
        /\ Go(r, "failed")
        /\ UNCHANGED <<catalogue, refresh, ref>>
     \/ /\ Available /\ UpToDate /\ Resolved(r, The(catalogue))
        /\ UNCHANGED <<catalogue, refresh>>
     \/ /\ Available /\ catalogue # None /\ ~UpToDate
        /\ refresh' = Some([owner |-> r, heights |-> The(catalogue).heights,
                            fork |-> ForkHeight(The(catalogue)),
                            tip |-> tip, current |-> generation])
        /\ catalogue' = None
        /\ Go(r, "trim")
        /\ UNCHANGED ref
  /\ UNCHANGED <<source, layouts, position, begun>>

\* Blocks above the fork go, newest first, with their layouts.
Trim(r) ==
  LET w == The(refresh) IN
  /\ pc[r] = "trim"
  /\ IF Len(w.heights) > w.fork + 1
     THEN /\ refresh' = Some([w EXCEPT !.heights = Front(@)])
          /\ layouts' = layouts \ {Last(w.heights)}
          /\ UNCHANGED pc
     ELSE Go(r, "batch") /\ UNCHANGED <<refresh, layouts>>
  /\ UNCHANGED <<source, catalogue, local>>

SameSource(w) == Available /\ generation = w.current /\ tip = w.tip

Incomplete(w) == Len(w.heights) <= Height(w.tip)

\* The positions of the next blocks.
NextBatch(w) ==
  LET first == Len(w.heights)
      count == Min({CATALOGUE_BATCH, Height(w.tip) + 1 - first})
  IN  [i \in 1 .. count |-> PositionOf(BlockAt(tip, first + i - 1))]

Batch(r) ==
  LET w == The(refresh) IN
  /\ pc[r] = "batch" /\ Incomplete(w)
  /\ IF SameSource(w)
     THEN refresh' = Some([w EXCEPT !.heights = @ \o NextBatch(w)])
          /\ UNCHANGED pc
     ELSE Go(r, "abort") /\ UNCHANGED refresh
  /\ UNCHANGED <<source, catalogue, layouts, local>>

\* The catalogue is handed back whether or not it knows the position.
PublishCatalogue(r) ==
  LET w == The(refresh)
      c == [heights |-> w.heights, last_tip |-> w.tip, generation |-> w.current]
  IN
  /\ pc[r] = "batch" /\ ~Incomplete(w)
  /\ IF SameSource(w)
     THEN catalogue' = Some(c) /\ refresh' = None /\ Resolved(r, c)
     ELSE Go(r, "abort") /\ UNCHANGED <<catalogue, refresh, ref>>
  /\ UNCHANGED <<source, layouts, position, begun>>

AbortLosing(r) == \* mutant: the catalogue is not handed back
  /\ pc[r] = "abort"
  /\ refresh' = None
  /\ Go(r, "failed")
  /\ UNCHANGED <<source, catalogue, layouts, local>>

\* An abandoned refresh leaves an empty catalogue.
Abort(r) ==
  /\ pc[r] = "abort"
  /\ catalogue' = Some(EmptyCatalogue) /\ refresh' = None
  /\ Go(r, "failed")
  /\ UNCHANGED <<source, layouts, local>>

FindLayout(r) ==
  /\ pc[r] = "resolved"
  /\ Go(r, IF PositionOf(The(ref[r]).block) \in layouts THEN "read" ELSE "load")
  /\ UNCHANGED <<source, catalogue, refresh, layouts, local>>

CheckAvailable(x) == available \* mutant: blocks are not compared
Check(x) ==
  /\ available /\ generation = x.generation
  /\ ActiveContains(tip, x.block)

\* The block is read outside the locks and checked afterwards.
LoadLayout(r) ==
  /\ pc[r] = "load"
  /\ Go(r, IF Check(The(ref[r])) THEN "cache" ELSE "failed")
  /\ UNCHANGED <<source, catalogue, refresh, layouts, local>>

\* The first keys of the map go.
Evicted(keys) ==
  IF Cardinality(keys) <= LAYOUT_LIMIT THEN keys
  ELSE keys \ {CHOOSE k \in keys : \A other \in keys : ~Before(other, k)}

CacheLayout(r) ==
  /\ pc[r] = "cache"
  /\ layouts' = Evicted(layouts \cup {PositionOf(The(ref[r]).block)})
  /\ Go(r, "read")
  /\ UNCHANGED <<source, catalogue, refresh, local>>

\* The span at the position, if the layout has one, and the last check.
Finish(r) ==
  /\ pc[r] = "read"
  /\ Go(r, IF position[r] = SpanOf(The(ref[r]).block) /\ Check(The(ref[r]))
           THEN "answered" ELSE "failed")
  /\ ref' = [ref EXCEPT ![r] = None]
  /\ UNCHANGED <<source, catalogue, refresh, layouts, position, begun>>

-----------------------------------------------------------------------------
ReadStep(r) ==
  \/ ResolveFast(r) \/ ResolveSlow(r) \/ Trim(r) \/ Batch(r)
  \/ PublishCatalogue(r) \/ Abort(r)
  \/ FindLayout(r) \/ LoadLayout(r) \/ CacheLayout(r) \/ Finish(r)

Next ==
  \/ SetTip \/ Withdraw
  \/ \E r \in Readers : Begin(r) \/ ReadStep(r)

Spec == Init /\ [][Next]_vars

-----------------------------------------------------------------------------
(* Properties.                                                             *)

Reading == {"resolve", "refresh", "trim", "batch", "abort", "resolved",
            "load", "cache", "read"}

\* A catalogue of the current generation has every active block, each at its
\* height, and nothing else, although it was brought there from an older chain
\* in batches between which the chain could move and come back (Resolve).
CatalogueIsExact ==
  UpToDate /\ generation # 0 =>
    The(catalogue).heights = [i \in 1 .. Len(tip) |-> PositionOf(BlockAt(tip, i - 1))]

\* A transaction that is returned is the one stored at the position, in a block
\* active at that moment (Read, Check).
AnswersAreActive ==
  [][\A r \in Readers :
       pc[r] = "read" /\ pc'[r] = "answered" =>
         \E h \in 0 .. Height(tip) : position[r] = SpanOf(BlockAt(tip, h))]_vars

\* A read that the node did not disturb finds the transaction of an active
\* block: neither a refresh that another reader is making or has abandoned nor
\* an evicted layout makes it fail (Resolve, "Abandoned captures never poison
\* node validation" and a later read).
UndisturbedReadsAnswer ==
  \A r \in Readers :
    pc[r] = "failed" /\ begun[r] = generation /\ Available =>
      \A h \in 0 .. Height(tip) : position[r] # SpanOf(BlockAt(tip, h))
=============================================================================
