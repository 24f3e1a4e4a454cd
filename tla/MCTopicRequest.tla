--------------------------- MODULE MCTopicRequest ---------------------------
(* Configured channels trades, orders and markets; one asset; the words a   *)
(* client may send include each reserved word and one unknown word of each  *)
(* kind, so every branch of handleRequest is taken.                         *)
EXTENDS TopicRequest

MCChannelList  == <<"trades", "markets", "orders">>
MCAssets       == {"BTCUSDT"}
MCChannelWords == {"trades", "orders", "markets", "all", "foo"}
MCAssetWords   == {"BTCUSDT", "DATA", "SNAPSHOT", "XYZ"}
MCActionWords  == {"subscribe", "UNSUBSCRIBE", "ping"}
MCToUpper      == [w \in MCActionWords |->
                     CASE w = "subscribe"   -> "SUBSCRIBE"
                       [] w = "UNSUBSCRIBE" -> "UNSUBSCRIBE"
                       [] w = "ping"        -> "PING"]
-----------------------------------------------------------------------------
(* A state is one decoded frame: TLC checks every frame of the bound.      *)

CONSTANT MaxPairs

VARIABLES action, pairs
vars == <<action, pairs>>

Init ==
  /\ action \in ActionWords
  /\ pairs \in UNION {[1..n -> Pairs] : n \in 0..MaxPairs}

Next == UNCHANGED vars

Spec == Init /\ [][Next]_vars

Steps == RequestSteps(action, pairs)
Accepted == SubSeq(pairs, 1, FirstRejected(pairs) - 1)

\* handleRequest answers a request with an error frame exactly when one of its
\* pairs breaks the rules of section 4.2, and every topic the spec derives from
\* the pairs before that one reaches the router queue.
RejectsAndAcceptsPerSpec ==
  ValidAction(action) =>
    /\ (\E i \in DOMAIN Steps : Steps[i] = ErrorStep)
          <=> (FirstRejected(pairs) <= Len(pairs))
    /\ \A i \in DOMAIN Accepted : SpecTopics(Accepted[i]) \subseteq EnqueuedTopics(Steps)

=============================================================================
