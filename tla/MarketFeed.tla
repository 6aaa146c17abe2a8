----------------------------- MODULE MarketFeed -----------------------------
(***************************************************************************)
(* The realtime feed of the market_data package: the transport adapter     *)
(* (upstox_stream.py) with its connection state (reconnect.py) and its     *)
(* recovery task (reconnect_controller.py), the resynchronisation of the   *)
(* history (resync.py) and the fan-out to bounded queues (realtime.py).    *)
(*                                                                         *)
(* All of it runs on one asyncio loop: a step below is what runs between   *)
(* two awaits. The lock of the fan-out is never held across an await, so   *)
(* publishing one message is a single step. The streamer is external: it   *)
(* reports open, message, close and error, in that loop.                   *)
(***************************************************************************)
EXTENDS Integers, Sequences, FiniteSets, SequencesExt

CONSTANTS Instruments, Subscribers,
          Watches,       \* the instruments each subscriber asked for
          Messages,      \* the messages of the streamer: sequences of instruments
          Recovers,      \* BOOLEAN: a recovery callback was given
          AppLoads,      \* the instruments the application resyncs itself
          MaxQueue,      \* max_queue_size of the fan-out
          MaxConnects,   \* max_attempts of ReconnectController
          MaxMessages,   \* bound on messages
          MaxLinkFaults  \* bound on closes, errors and disconnects

ASSUME FeedAssumption ==
  /\ Watches \in [Subscribers -> SUBSET Instruments]
  /\ Messages \subseteq Seq(Instruments)
  /\ Recovers \in BOOLEAN /\ AppLoads \subseteq Instruments
  /\ MaxQueue \in Nat \ {0} /\ MaxConnects \in Nat \ {0}
  /\ MaxMessages \in Nat /\ MaxLinkFaults \in Nat

VARIABLES link,         \* the transport: "down", "opening", "up"
          connection,   \* RealtimeConnectionState, of each instrument
          recovery,     \* the recovery task
          loading,      \* the resyncs called by the application that are under way
          arrived,      \* the publish tasks that have not run
          feed,         \* the ticks the fan-out took
          subscription, \* each subscriber's queue and what it was given
          missed,       \* instruments that may have missed ticks since a resync began
          messages, linkFaults

feedVars == <<link, connection, recovery, loading, arrived, feed, subscription, missed,
              messages, linkFaults>>

NoTask == [step |-> "none", attempt |-> 0, rest |-> {}, now |-> {}]

NoSubscription == [open |-> FALSE, queue |-> <<>>, given |-> <<>>, from |-> 0, to |-> 0]

FeedInit ==
  /\ link = "down"
  /\ connection = [i \in Instruments |-> "disconnected"]
  /\ recovery = NoTask
  /\ loading = {}
  /\ arrived = <<>>
  /\ feed = <<>>
  /\ subscription = [s \in Subscribers |-> NoSubscription]
  /\ missed = Instruments
  /\ messages = 0 /\ linkFaults = 0

Everywhere(state) == connection' = [i \in Instruments |-> state]

-----------------------------------------------------------------------------
(* The transport.                                                           *)

\* _mark_disconnected_and_recover starts one recovery at a time.
StartsRecovery == Recovers /\ recovery.step = "none"

Lost ==
  /\ linkFaults < MaxLinkFaults /\ linkFaults' = linkFaults + 1
  /\ Everywhere("disconnected")
  /\ missed' = Instruments

\* connect of the application; the streamer connects unless it is connected.
Connect ==
  /\ link = "down"
  /\ Everywhere("connecting")
  /\ link' = "opening"
  /\ UNCHANGED <<recovery, loading, arrived, feed, subscription, missed, messages,
                 linkFaults>>

Opens ==
  /\ link = "opening"
  /\ link' = "up"
  /\ Everywhere("connected")
  /\ UNCHANGED <<recovery, loading, arrived, feed, subscription, missed, messages,
                 linkFaults>>

\* close, or an error with the transport still up.
Closes ==
  /\ link # "down" /\ Lost
  /\ link' \in {"down", link}
  /\ recovery' = IF StartsRecovery THEN [NoTask EXCEPT !.step = "connect"] ELSE recovery
  /\ UNCHANGED <<loading, arrived, feed, subscription, messages>>

\* disconnect cancels the recovery; the streamer reports the close later.
Disconnect ==
  /\ Lost
  /\ recovery' = NoTask
  /\ UNCHANGED <<link, loading, arrived, feed, subscription, messages>>

\* A message starts a task that publishes its ticks.
Message(m) ==
  /\ link = "up" /\ messages < MaxMessages
  /\ messages' = messages + 1
  /\ arrived' = Append(arrived, m)
  /\ UNCHANGED <<link, connection, recovery, loading, feed, subscription, missed,
                 linkFaults>>

-----------------------------------------------------------------------------
(* Recovery.                                                                *)

\* ReconnectController.run: an attempt that does not raise ends the loop, whether or
\* not the transport has opened yet.
Reconnects ==
  /\ recovery.step = "connect"
  /\ \/ /\ recovery' = [recovery EXCEPT !.step = "resync", !.rest = Instruments]
        /\ link' = IF link = "down" THEN "opening" ELSE link
     \/ /\ recovery' = IF recovery.attempt + 1 < MaxConnects
                       THEN [recovery EXCEPT !.step = "sleep", !.attempt = @ + 1]
                       ELSE NoTask
        /\ UNCHANGED link
  /\ UNCHANGED <<connection, loading, arrived, feed, subscription, missed, messages,
                 linkFaults>>

Sleeps ==
  /\ recovery.step = "sleep"
  /\ recovery' = [recovery EXCEPT !.step = "connect"]
  /\ UNCHANGED <<link, connection, loading, arrived, feed, subscription, missed,
                 messages, linkFaults>>

\* resync closes the instrument, and waits for the history.
BeginsResync(i) ==
  /\ connection' = [connection EXCEPT ![i] = "resync_required"]
  /\ missed' = missed \ {i}

\* The repair is written, and the instrument is ready whatever happened meanwhile.
EndsResync(i) == connection' = [connection EXCEPT ![i] = "ready"]

RecoveryBegins ==
  /\ recovery.step = "resync"
  /\ \E i \in recovery.rest :
       /\ BeginsResync(i)
       /\ recovery' = [recovery EXCEPT !.step = "load", !.now = {i}]
  /\ UNCHANGED <<link, loading, arrived, feed, subscription, messages, linkFaults>>

\* The history arrives, or the provider raises and the recovery is over.
RecoveryEnds ==
  /\ recovery.step = "load"
  /\ \/ /\ \A i \in recovery.now : EndsResync(i)
        /\ recovery' = IF recovery.rest = recovery.now THEN NoTask
                       ELSE [recovery EXCEPT !.step = "resync", !.now = {},
                                             !.rest = @ \ recovery.now]
     \/ recovery' = NoTask /\ UNCHANGED connection
  /\ UNCHANGED <<link, loading, arrived, feed, subscription, missed, messages,
                 linkFaults>>

\* The application calls resync, for instance after its first connect.
AppBegins(i) ==
  /\ i \in AppLoads \ loading /\ linkFaults < MaxLinkFaults
  /\ linkFaults' = linkFaults + 1
  /\ BeginsResync(i)
  /\ loading' = loading \cup {i}
  /\ UNCHANGED <<link, recovery, arrived, feed, subscription, messages>>

AppEnds(i) ==
  /\ i \in loading
  /\ loading' = loading \ {i}
  /\ EndsResync(i) \/ UNCHANGED connection
  /\ UNCHANGED <<link, recovery, arrived, feed, subscription, missed, messages,
                 linkFaults>>

-----------------------------------------------------------------------------
(* The fan-out.                                                             *)

End == 0

OpenQueues == {s \in Subscribers : subscription[s].open}

\* Mutant of Full: the end mark is put into a full queue too.
NeverFull(s) == FALSE

Full(s) == Len(subscription[s].queue) >= MaxQueue

Subscribe(s) ==
  /\ subscription[s] = NoSubscription
  /\ subscription' = [subscription EXCEPT ![s].open = TRUE, ![s].from = Len(feed)]
  /\ UNCHANGED <<link, connection, recovery, loading, arrived, feed, missed, messages,
                 linkFaults>>

\* Mutant of Blocked: a full queue is passed over, and the others get the tick.
NeverBlocked(fan, s) == FALSE

\* A tick is refused for every subscriber when one queue is full.
Blocked(fan, s) == Len(fan.queues[s]) >= MaxQueue

\* One tick of a message, once the message is stopped by a full queue.
PublishTick(fan, i) ==
  IF fan.refused \/ connection[i] # "ready" THEN fan
  ELSE IF \E s \in OpenQueues : Blocked(fan, s) THEN [fan EXCEPT !.refused = TRUE]
  ELSE [fan EXCEPT
          !.taken = Append(@, i),
          !.queues = [s \in Subscribers |->
                        IF s \in OpenQueues /\ Len(@[s]) < MaxQueue
                        THEN Append(@[s], Len(feed) + Len(fan.taken) + 1) ELSE @[s]]]

\* The task of the first message: its ticks are published until a queue is full.
Publish ==
  /\ arrived # <<>>
  /\ LET nothing == [taken |-> <<>>, refused |-> FALSE,
                     queues |-> [s \in Subscribers |-> subscription[s].queue]]
         fan == FoldLeft(PublishTick, nothing, Head(arrived)) IN
     /\ feed' = feed \o fan.taken
     /\ subscription' = [s \in Subscribers |->
                           [subscription[s] EXCEPT !.queue = fan.queues[s]]]
  /\ arrived' = Tail(arrived)
  /\ UNCHANGED <<link, connection, recovery, loading, missed, messages, linkFaults>>

\* The subscription leaves the fan-out, with an end mark if there is room for one.
Leaves(s) ==
  [subscription[s] EXCEPT !.open = FALSE, !.to = Len(feed),
                          !.queue = IF Full(s) THEN @ ELSE Append(@, End)]

\* The subscriber takes the next item: a tick it asked for is given to it.
Take(s) ==
  LET item == Head(subscription[s].queue) IN
  /\ subscription[s].queue # <<>> /\ item # End
  /\ subscription' = [subscription EXCEPT ![s].queue = Tail(@),
       ![s].given = IF feed[item] \in Watches[s] THEN Append(@, item) ELSE @]
  /\ UNCHANGED <<link, connection, recovery, loading, arrived, feed, missed, messages,
                 linkFaults>>

Unsubscribe(s) ==
  /\ subscription[s].open
  /\ subscription' = [subscription EXCEPT ![s] = Leaves(s)]
  /\ UNCHANGED <<link, connection, recovery, loading, arrived, feed, missed, messages,
                 linkFaults>>

CloseStream ==
  /\ OpenQueues # {}
  /\ subscription' = [s \in Subscribers |->
                        IF subscription[s].open THEN Leaves(s) ELSE subscription[s]]
  /\ UNCHANGED <<link, connection, recovery, loading, arrived, feed, missed, messages,
                 linkFaults>>

FeedNext ==
  \/ Connect \/ Opens \/ Closes \/ Disconnect \/ Publish \/ CloseStream
  \/ Reconnects \/ Sleeps \/ RecoveryBegins \/ RecoveryEnds
  \/ \E m \in Messages : Message(m)
  \/ \E i \in Instruments : AppBegins(i) \/ AppEnds(i)
  \/ \E s \in Subscribers : Subscribe(s) \/ Take(s) \/ Unsubscribe(s)

FeedSpec == FeedInit /\ [][FeedNext]_feedVars

-----------------------------------------------------------------------------
FeedTypeOK ==
  /\ link \in {"down", "opening", "up"}
  /\ connection \in [Instruments -> {"disconnected", "connecting", "connected",
                                     "resync_required", "ready"}]
  /\ recovery.step \in {"none", "connect", "sleep", "resync", "load"}
  /\ recovery.attempt < MaxConnects /\ recovery.now \subseteq recovery.rest
  /\ loading \subseteq Instruments /\ missed \subseteq Instruments
  /\ \A s \in Subscribers : Len(subscription[s].queue) <= MaxQueue

\* Every subscriber is given the ticks it asked for that the fan-out took while it was
\* subscribed, all of them, once and in order, whatever a slow subscriber, a reconnect
\* or a close does (realtime.py:21-24: a full subscriber fails the entire publish).
SubscribersSeeOneFeed ==
  \A s \in Subscribers :
    LET sub == subscription[s]
        till == IF sub.open THEN Len(feed) ELSE sub.to
        coming == sub.given \o sub.queue
        wanted == {k \in DOMAIN coming : coming[k] # End /\ feed[coming[k]] \in Watches[s]}
    IN
    /\ {coming[k] : k \in wanted} = {n \in sub.from + 1..till : feed[n] \in Watches[s]}
    /\ \A j, k \in wanted : j < k => coming[j] < coming[k]
    /\ DOMAIN sub.given \subseteq wanted

\* A transport that was lost after an instrument's resync began leaves it closed to
\* strategies (reconnect_controller.py:67: expose READY only after successful recovery).
ReadyMeansRecovered == \A i \in Instruments : connection[i] = "ready" => i \notin missed
=============================================================================
