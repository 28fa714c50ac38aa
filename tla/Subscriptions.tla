--------------------------- MODULE Subscriptions ---------------------------
(***************************************************************************)
(* WebSocket sessions of the archival service: admission (websocket of     *)
(* chronik-lib/src/ergon_service.rs), the session loop and its cleanup     *)
(* (chronik-http/src/ws.rs), the caps (subscription_limits.rs) and the     *)
(* senders (chronik-indexer subs.rs, subs_group.rs).                       *)
(*                                                                         *)
(* Threads: one task per session, and the worker, which shuts the gate,    *)
(* writes the index under the indexer's write lock and sends each event    *)
(* from there, one channel after the other; it publishes once the lock is  *)
(* free, after one change or several.  A session takes the read lock and   *)
(* then the senders' lock; as the writer waits for both, the section under *)
(* them is one step.                                                       *)
(*                                                                         *)
(* A receiver of a broadcast channel is the queue of what it has yet to    *)
(* read: more than Capacity messages lose the oldest and leave a Gap.      *)
(* All-transactions is the Fixed channel, whose sender is never dropped; a *)
(* group member has a sender as long as `senders' says.                    *)
(*                                                                         *)
(* Left out: the channel of blocks and its messages, Avalanche's events,   *)
(* which the archival worker never sends, pings, decoding, the 100 ms      *)
(* budgets of the last error message (it may be lost), Electrum sessions,  *)
(* and the continuity watch, which only notification_gap moves and nothing *)
(* calls.                                                                  *)
(***************************************************************************)
EXTENDS Integers, Sequences, FiniteSets, Functions

CONSTANTS
  Sessions, Keys, KeyOf,      \* sessions, and the address each comes from
  Txs, Fixed, Members,
  Touches,                    \* the members each transaction touches
  MaxSockets, MaxSubs, MaxSubsPerKey, Capacity,
  Budgets                     \* bounds: events, requests and connections

Channels == Fixed \cup Members

ASSUME SubscriptionsAssumption ==
  /\ KeyOf \in [Sessions -> Keys] /\ Touches \in [Txs -> SUBSET Members]
  /\ Fixed \cap Members = {}
  /\ IsFiniteSet(Channels) /\ IsFiniteSet(Sessions) /\ IsFiniteSet(Keys)
  /\ {MaxSockets, MaxSubs, MaxSubsPerKey, Capacity} \subseteq Nat \ {0}
  /\ Budgets \subseteq Nat \X Nat \X Nat

VARIABLES
  gate,              \* the request gate's mode
  place,             \* where the index has each transaction
  writing,           \* the event being sent, <<message, channels left>>
  senders,           \* SubsGroup.subs: the members that have a sender
  count, total,      \* SubscriptionLimiter
  pc, request, rx, guards, last,   \* sessions: SubRecv and the loop's locals
  events, requests, connects,      \* what is left of the budget
  due, shown, dropped              \* history

session == <<pc, request, rx, guards, last>>
limiter == <<count, total>>
bounds == <<events, requests, connects>>
history == <<due, shown, dropped>>
vars == <<gate, place, writing, senders, limiter, session,
          bounds, history>>

Idle == <<>>                  \* writing: the write lock is free
Gap == <<>>                   \* RecvError::Lagged
Nothing == <<>>               \* no message, no request
NoNews == [t \in Txs |-> Nothing]
NoReceivers == [k \in {} |-> <<>>]
Subs(s) == DOMAIN rx[s]

Init ==
  /\ gate = "Ready"
  /\ place = [t \in Txs |-> "out"]
  /\ writing = Idle /\ senders = {}
  /\ count = [a \in Keys |-> 0] /\ total = 0
  /\ pc = [s \in Sessions |-> "idle"]
  /\ request = [s \in Sessions |-> Nothing]
  /\ rx = [s \in Sessions |-> NoReceivers]
  /\ guards = [s \in Sessions |-> 0]
  /\ last = [s \in Sessions |-> Nothing]
  /\ \E b \in Budgets : events = b[1] /\ requests = b[2] /\ connects = b[3]
  /\ due = [s \in Sessions |-> NoNews]
  /\ shown = [s \in Sessions |-> NoNews]
  /\ dropped = [s \in Sessions |-> FALSE]

Go(s, where) == pc' = [pc EXCEPT ![s] = where]

-----------------------------------------------------------------------------
(* The senders.                                                            *)

Receivers(k) == {s \in Sessions : k \in Subs(s)}

\* broadcast::Sender::send, as one receiver sees it.
Push(q, m) ==
  LET kept == IF q # <<>> /\ Head(q) = Gap THEN Tail(q) ELSE q
  IN  IF Len(kept) < Capacity THEN Append(q, m)
      ELSE <<Gap>> \o Append(Tail(kept), m)

\* What happens to a transaction: where from, the message, where to.
TxChanges == {<<"out", "added", "pool">>, <<"pool", "removed", "out">>,
              <<"out", "confirmed", "mined">>, <<"pool", "confirmed", "mined">>}

\* The worker takes the write lock for the next event.
Write ==
  /\ writing = Idle /\ gate # "Closed" /\ events > 0
  /\ \E t \in Txs, c \in TxChanges :
       /\ place[t] = c[1]
       /\ place' = [place EXCEPT ![t] = c[3]]
       /\ writing' = <<<<t, c[2]>>, Fixed \cup Touches[t]>>
  /\ gate' = "Busy" /\ events' = events - 1
  /\ UNCHANGED <<senders, limiter, session, requests, connects,
                 history>>

\* A block leaves the chain.  Its transactions are sent on no channel: the
\* next message about one is that it is added or confirmed again.
Disconnect ==
  /\ writing = Idle /\ gate # "Closed" /\ events > 0
  /\ \E t \in Txs : place[t] = "mined" /\ place' = [place EXCEPT ![t] = "out"]
  /\ gate' = "Busy" /\ events' = events - 1
  /\ UNCHANGED <<writing, senders, limiter, session, requests, connects,
                 history>>

\* SubsGroup::handle_tx_event: a member whose receivers are gone loses its
\* sender.
SendersAfterSend(k) == IF Receivers(k) = {} THEN senders \ {k} ELSE senders

\* One send: the fixed channels first, then the groups.
Send ==
  /\ writing # Idle
  /\ \E k \in writing[2] :
       /\ writing[2] \cap Fixed # {} => k \in Fixed
       /\ writing' = [writing EXCEPT ![2] = @ \ {k}]
       /\ rx' = [s \in Sessions |->
                   IF k \in Subs(s)
                   THEN [rx[s] EXCEPT ![k] = Push(@, writing[1])] ELSE rx[s]]
       /\ due' = [s \in Sessions |->
                   IF k \in Subs(s)
                   THEN [due[s] EXCEPT ![writing[1][1]] = writing[1]]
                   ELSE due[s]]
       /\ senders' = SendersAfterSend(k)
  /\ UNCHANGED <<gate, place, limiter, pc, request,
                 guards, last, bounds, shown, dropped>>

\* The write lock is released ...
Unlock ==
  /\ writing # Idle /\ writing[2] = {}
  /\ writing' = Idle
  /\ UNCHANGED <<gate, place, senders, limiter, session, bounds, history>>

\* ... and the view published.
Publish ==
  /\ writing = Idle /\ gate = "Busy"
  /\ gate' = "Ready"
  /\ UNCHANGED <<place, writing, senders, limiter, session, bounds, history>>

Close ==
  /\ gate # "Closed"
  /\ gate' = "Closed"
  /\ UNCHANGED <<place, writing, senders, limiter, session,
                 bounds, history>>

-----------------------------------------------------------------------------
(* Admission.                                                              *)

Connected == {s \in Sessions : pc[s] # "idle"}
Serving == {"serve", "lock", "send"}

\* websocket: a connection permit ...
Connect(s) ==
  /\ pc[s] = "idle" /\ Cardinality(Connected) < MaxSockets
  /\ connects > 0 /\ connects' = connects - 1
  /\ Go(s, "admit")
  /\ UNCHANGED <<gate, place, writing, senders, limiter,
                 request, rx, guards, last, events, requests, history>>

\* ... then the gate, and the upgrade.
Admit(s) ==
  /\ pc[s] = "admit" /\ gate = "Ready"
  /\ Go(s, "serve")
  /\ UNCHANGED <<gate, place, writing, senders, limiter,
                 request, rx, guards, last, bounds, history>>

Refuse(s) ==
  /\ pc[s] = "admit" /\ gate # "Ready"
  /\ Go(s, "idle")
  /\ UNCHANGED <<gate, place, writing, senders, limiter,
                 request, rx, guards, last, bounds, history>>

-----------------------------------------------------------------------------
(* The session loop.                                                       *)

\* recv_action: the fixed channels come before the groups.
Readable(s) ==
  LET ready == {k \in Subs(s) : rx[s][k] # <<>>}
  IN  IF ready \cap Fixed # {} THEN ready \cap Fixed ELSE ready

\* channel_discontinuity: a lagged channel ends the session.
ChannelLagIgnored(m) == FALSE \* mutant: the channel is read on
ChannelDiscontinuity(m) == m = Gap

\* A message identical to the one sent before it is not sent.
Repeats(s, m) == m = last[s] /\ m # Gap

Receive(s) ==
  /\ pc[s] = "serve"
  /\ \E k \in Readable(s) :
       LET m == Head(rx[s][k])
       IN  /\ rx' = [rx EXCEPT ![s][k] = Tail(@)]
           /\ \/ ChannelDiscontinuity(m) /\ Go(s, "clean") /\ UNCHANGED last
              \/ Repeats(s, m) /\ UNCHANGED <<pc, last>>
              \/ /\ ~ChannelDiscontinuity(m) /\ ~Repeats(s, m)
                 /\ last' = [last EXCEPT ![s] = m] /\ Go(s, "send")
  /\ UNCHANGED <<gate, place, writing, senders, limiter,
                 request, guards, bounds, history>>

\* socket.send of the message, or of the error a request was answered with.
\* It lasts as long as the client does not read.
Sent(s) ==
  /\ pc[s] = "send" /\ Go(s, "serve")
  /\ request' = [request EXCEPT ![s] = Nothing]
  /\ shown' = IF request[s] = Nothing /\ last[s] # Gap
              THEN [shown EXCEPT ![s][last[s][1]] = last[s]] ELSE shown
  /\ UNCHANGED <<gate, place, writing, senders, limiter,
                 rx, guards, last, bounds, due, dropped>>

\* The client leaves, or its socket fails.
Leave(s) ==
  /\ pc[s] \in {"serve", "send"} /\ Go(s, "clean")
  /\ UNCHANGED <<gate, place, writing, senders, limiter,
                 request, rx, guards, last, bounds, history>>

\* The lifecycle future is raced with the whole loop.
LifecycleWinsReading(s) == pc[s] = "serve" \* mutant: raced with reads only
LifecycleWins(s) == pc[s] \in Serving

Lifecycle(s) ==
  /\ LifecycleWins(s) /\ gate = "Closed"
  /\ Go(s, "clean")
  /\ UNCHANGED <<gate, place, writing, senders, limiter, request,
                 rx, guards, last, bounds, history>>

-----------------------------------------------------------------------------
(* Requests of the client.                                                 *)

Request(s) ==
  /\ pc[s] = "serve" /\ requests > 0
  /\ requests' = requests - 1
  /\ \E what \in {"sub", "unsub"}, k \in Channels :
       request' = [request EXCEPT ![s] = <<what, k>>]
  /\ Go(s, "lock")
  /\ UNCHANGED <<gate, place, writing, senders, limiter,
                 rx, guards, last, events, connects, history>>

\* SubscriptionLimiter::try_acquire succeeds.
Acquires(a) == count[a] < MaxSubsPerKey /\ total < MaxSubs

ReleaseTotalOnce(a, n) == \* mutant: the drop of several guards counts as one
  count' = [count EXCEPT ![a] = @ - n] /\ total' = total - (IF n > 0 THEN 1 ELSE 0)

\* n guards of address a are dropped.
Release(a, n) == count' = [count EXCEPT ![a] = @ - n] /\ total' = total - n

Without(f, k) == Restrict(f, DOMAIN f \ {k})

\* handle_sub, subscribing.
HandleSub(s) ==
  /\ pc[s] = "lock" /\ writing = Idle /\ request[s][1] = "sub"
  /\ LET k == request[s][2]
     IN  \/ /\ k \in Subs(s) /\ Go(s, "serve")
            /\ request' = [request EXCEPT ![s] = Nothing]
            /\ UNCHANGED <<senders, limiter, rx, guards>>
         \/ /\ k \notin Subs(s) /\ ~Acquires(KeyOf[s]) /\ Go(s, "send")
            /\ UNCHANGED <<senders, limiter, request, rx, guards>>
         \/ /\ k \notin Subs(s) /\ Acquires(KeyOf[s]) /\ Go(s, "serve")
            /\ request' = [request EXCEPT ![s] = Nothing]
            /\ count' = [count EXCEPT ![KeyOf[s]] = @ + 1] /\ total' = total + 1
            /\ guards' = [guards EXCEPT ![s] = @ + 1]
            /\ rx' = [rx EXCEPT ![s] = [c \in Subs(s) \cup {k} |->
                                          IF c = k THEN <<>> ELSE @[c]]]
            /\ senders' = senders \cup ({k} \cap Members)
  /\ UNCHANGED <<gate, place, writing, last, bounds, history>>

\* unsubscribe_from_member, when `held' receivers are still there.
UnsubscribeAlways(k, held) == TRUE \* mutant: the sender goes with any of them
Unsubscribes(k, held) == held = {}

\* handle_sub, unsubscribing: the receiver is dropped before the sender is
\* looked at, which happens whether or not this session was subscribed.
HandleUnsub(s) ==
  /\ pc[s] = "lock" /\ writing = Idle /\ request[s][1] = "unsub"
  /\ Go(s, "serve") /\ request' = [request EXCEPT ![s] = Nothing]
  /\ LET k == request[s][2]
     IN  /\ rx' = [rx EXCEPT ![s] = Without(@, k)]
         /\ dropped' = [dropped EXCEPT ![s] =
                          @ \/ (k \in Subs(s) /\ rx[s][k] # <<>>)]
         /\ senders' = IF Unsubscribes(k, Receivers(k) \ {s})
                       THEN senders \ {k} ELSE senders
         /\ IF k \in Subs(s)
            THEN guards' = [guards EXCEPT ![s] = @ - 1] /\ Release(KeyOf[s], 1)
            ELSE UNCHANGED <<guards, limiter>>
  /\ UNCHANGED <<gate, place, writing, last, bounds, due,
                 shown>>

-----------------------------------------------------------------------------
(* The end of a session.                                                   *)

Forget(s) ==
  /\ request' = [request EXCEPT ![s] = Nothing]
  /\ last' = [last EXCEPT ![s] = Nothing]
  /\ rx' = [rx EXCEPT ![s] = NoReceivers]
  /\ due' = [due EXCEPT ![s] = NoNews]
  /\ shown' = [shown EXCEPT ![s] = NoNews]
  /\ dropped' = [dropped EXCEPT ![s] = FALSE]
  /\ Go(s, "idle")

\* cleanup: the slots first; receivers of members wait for the locks.
Cleanup(s) ==
  /\ pc[s] = "clean"
  /\ Release(KeyOf[s], guards[s]) /\ guards' = [guards EXCEPT ![s] = 0]
  /\ IF Subs(s) \subseteq Fixed THEN Forget(s)
     ELSE Go(s, "unsub") /\ UNCHANGED <<request, last, rx, due, shown, dropped>>
  /\ UNCHANGED <<gate, place, writing, senders, bounds>>

\* cleanup: each receiver is dropped, then its sender looked at.
Unsubscribed(s) == {k \in Subs(s) : Receivers(k) \ {s} = {}}

CleanupMembers(s) ==
  /\ pc[s] = "unsub" /\ writing = Idle
  /\ senders' = senders \ Unsubscribed(s)
  /\ Forget(s)
  /\ UNCHANGED <<gate, place, writing, limiter, guards, bounds>>

-----------------------------------------------------------------------------
SessionStep(s) ==
  \/ Connect(s) \/ Admit(s) \/ Refuse(s)
  \/ Receive(s) \/ Sent(s) \/ Leave(s) \/ Lifecycle(s)
  \/ Request(s) \/ HandleSub(s) \/ HandleUnsub(s)
  \/ Cleanup(s) \/ CleanupMembers(s)

Next ==
  \/ Write \/ Disconnect \/ Send \/ Unlock \/ Publish \/ Close
  \/ \E s \in Sessions : SessionStep(s)

Spec == Init /\ [][Next]_vars

\* Scheduled are the worker's write section and every step of a session that
\* waits for no one outside: a client may never read, write or leave.
Scheduled(s) ==
  Admit(s) \/ Refuse(s) \/ Receive(s) \/ Lifecycle(s) \/ Cleanup(s)

\* The indexer's lock is handed out in the order in which it was asked for.
UnderLock(s) == HandleSub(s) \/ HandleUnsub(s) \/ CleanupMembers(s)

Fairness ==
  /\ WF_vars(Send) /\ WF_vars(Unlock)
  /\ \A s \in Sessions : WF_vars(Scheduled(s)) /\ SF_vars(UnderLock(s))

FairSpec == Spec /\ Fairness

-----------------------------------------------------------------------------
(* Properties.                                                             *)

\* The sender of a group member is in the map exactly as long as a session has
\* a receiver of it: no unsubscribing, cleanup or send of one session takes
\* the channel from under another (subs_group.rs unsubscribe_from_member,
\* handle_tx_event), and none is left behind (ws.rs cleanup).
SendersHaveReceivers ==
  senders = {k \in Members : Receivers(k) # {}}

\* The limiter counts what the sessions hold, per address and in all; a session
\* holds one slot per subscription until it gives all of them up at its end,
\* and the next session of the same task starts with none (ws.rs acquire_sub,
\* release_one_sub, cleanup; subscription_limits.rs try_acquire, release).
SlotsAreSubscriptions ==
  /\ \A a \in Keys :
       count[a] = SumFunctionOnSet(guards, {s \in Sessions : KeyOf[s] = a})
  /\ total = SumFunctionOnSet(count, Keys)
  /\ \A s \in Sessions :
       guards[s] = IF pc[s] = "unsub" THEN 0 ELSE Cardinality(Subs(s))

\* Between two events, a session that has read all its channels has shown its
\* client, of every transaction, the newest event sent to it: dropping repeats,
\* reading several channels about one transaction and lost messages never leave
\* a client with an older one.  The exception is a client that gives up a
\* channel it has not read to the end (ws.rs
\* handle_subscribe_socket_with_lifecycle).
DrainedSessionIsUpToDate ==
  writing = Idle => \A s \in Sessions :
    pc[s] = "serve" /\ ~dropped[s] /\ (\A k \in Subs(s) : rx[s][k] = <<>>)
    => shown[s] = due[s]

\* A session ends, and gives back all it holds, once the service stops,
\* whatever it waits for then: a client that does not read, or the index
\* (ws.rs: "Race the entire loop").
SessionsEnd ==
  \A s \in Sessions :
    (pc[s] \in Serving /\ gate = "Closed") ~> (pc[s] = "idle")
=============================================================================
