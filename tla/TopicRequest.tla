---------------------------- MODULE TopicRequest ----------------------------
(***************************************************************************)
(* The request expansion of the websocket gateway (wsserver.handleRequest, *)
(* validateRequest, isValidChannel, isValidTopic): a decoded client frame  *)
(* {action, topics} becomes the sequence of steps its goroutine performs:  *)
(* one enqueue of a SubsRequest per accepted topic, in order, cut short by *)
(* an error frame at the first rejected pair.                              *)
(*                                                                         *)
(* Strings are abstracted: the comma split and TrimSpace are taken as      *)
(* done (a request carries a sequence of pairs), a pair is either          *)
(* Malformed (strings.Split on "@" did not give two parts) or a record of  *)
(* its channel and asset words, already in the case ToLower/ToUpper gives  *)
(* them.  The configured lists use that case too, so EqualFold is =.       *)
(***************************************************************************)
EXTENDS Integers, Sequences, FiniteSets

CONSTANTS
  ChannelList,   \* s.channels, in configured order (a sequence of words)
  Assets,        \* s.assets, the stream asset allow-list
  ChannelWords,  \* channel words a client may send (after ToLower)
  AssetWords,    \* asset words a client may send (after ToUpper)
  ActionWords,   \* raw "action" strings a client may send
  ToUpper        \* strings.ToUpper on ActionWords

Malformed == [parts |-> 1]   \* e.g. "foo": no "@" in the pair
Markets   == "markets"
All       == "all"
Sub       == "SUBSCRIBE"
Unsub     == "UNSUBSCRIBE"

Pairs == {Malformed} \cup [parts : {2}, ch : ChannelWords, asset : AssetWords]

\* A step of the request goroutine: enqueue one NATS topic <<channel, asset>>
\* (fmt.Sprintf("%s.%s")), or send an error frame and return.
ErrorStep == [kind |-> "error"]
Enqueue(c, a) == [kind |-> "enqueue", topic |-> <<c, a>>]

Channels == {ChannelList[i] : i \in DOMAIN ChannelList}

\* validateRequest
ValidAction(action) == ToUpper[action] \in {Sub, Unsub}

\* Mutant: markets accepted with any asset.
PairStepsAnyMarket(p) ==
  IF p = Malformed THEN <<ErrorStep>>
  ELSE IF p.ch = Markets THEN <<Enqueue(p.ch, p.asset)>>
  ELSE IF p.ch = All /\ p.asset \in Assets
    THEN LET others == SelectSeq(ChannelList, LAMBDA c : c # Markets)
         IN [i \in DOMAIN others |-> Enqueue(others[i], p.asset)]
              \o <<Enqueue(p.ch, p.asset)>>
  ELSE IF p.ch \notin Channels \/ p.asset \notin Assets THEN <<ErrorStep>>
  ELSE <<Enqueue(p.ch, p.asset)>>

\* The steps one pair produces: the body of the loop in handleRequest.
\* For "all" with a valid asset the code enqueues one topic per configured
\* channel except "markets" and then falls through to the common enqueue
\* below the if/else chain, so "all.<asset>" is enqueued as well.
PairSteps(p) ==
  IF p = Malformed THEN <<ErrorStep>>
  ELSE IF p.ch = Markets
    THEN IF p.asset \notin {"DATA", "SNAPSHOT"} THEN <<ErrorStep>>
         ELSE <<Enqueue(p.ch, p.asset)>>
  ELSE IF p.ch = All /\ p.asset \in Assets
    THEN LET others == SelectSeq(ChannelList, LAMBDA c : c # Markets)
         IN [i \in DOMAIN others |-> Enqueue(others[i], p.asset)]
              \o <<Enqueue(p.ch, p.asset)>>
  ELSE IF p.ch \notin Channels \/ p.asset \notin Assets THEN <<ErrorStep>>
  ELSE <<Enqueue(p.ch, p.asset)>>

\* The loop over the pairs: an error frame ends the request (return).
RECURSIVE PairsSteps(_)
PairsSteps(ps) ==
  IF ps = <<>> THEN <<>>
  ELSE LET s == PairSteps(Head(ps))
       IN IF s[Len(s)] = ErrorStep THEN s ELSE s \o PairsSteps(Tail(ps))

\* handleRequest: an invalid action is dropped silently.
RequestSteps(action, ps) ==
  IF ValidAction(action) THEN PairsSteps(ps) ELSE <<>>

-----------------------------------------------------------------------------
(* The reference: section 4.2 of the specification of the gateway.         *)

SpecRejects(p) ==
  \/ p = Malformed
  \/ p.ch = Markets /\ p.asset \notin {"DATA", "SNAPSHOT"}
  \/ p.ch = All /\ p.asset \notin Assets
  \/ p.ch \notin {Markets, All} /\ (p.ch \notin Channels \/ p.asset \notin Assets)

SpecTopics(p) ==
  IF p.ch = All THEN {<<c, p.asset>> : c \in Channels \ {Markets}}
  ELSE {<<p.ch, p.asset>>}

\* The pairs before the first rejected one: those the spec still accepts.
FirstRejected(ps) ==
  IF \E i \in DOMAIN ps : SpecRejects(ps[i])
  THEN CHOOSE i \in DOMAIN ps : SpecRejects(ps[i]) /\ \A j \in 1..i-1 : ~SpecRejects(ps[j])
  ELSE Len(ps) + 1

EnqueuedTopics(steps) ==
  {steps[i].topic : i \in {j \in DOMAIN steps : steps[j].kind = "enqueue"}}

=============================================================================
