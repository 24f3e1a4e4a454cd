----------------------------- MODULE MCWsServer -----------------------------
(* Two connections, two Client structs (so the pool can hand a used one to *)
(* the second connection), one configured topic, and the frames a client   *)
(* can send for it, expanded by the request module.                        *)
EXTENDS WsServer, TLC

CONSTANTS c1, c2, k1, k2

TR == INSTANCE TopicRequest WITH
        ChannelList  <- <<"trades", "markets">>,
        Assets       <- {"BTCUSDT"},
        ChannelWords <- {"trades"},
        AssetWords   <- {"BTCUSDT"},
        ActionWords  <- {Sub, Unsub},
        ToUpper      <- [w \in {Sub, Unsub} |-> w]

Trades == [parts |-> 2, ch |-> "trades", asset |-> "BTCUSDT"]

MCConns  == {c1, c2}
MCObjs   == {k1, k2}
MCTopics == {<<"trades", "BTCUSDT">>}
\* "trades@BTCUSDT" to subscribe or unsubscribe, and "foo" (no "@").
MCFrames == {[act |-> a, steps |-> TR!RequestSteps(a, ps)] :
               a \in {Sub, Unsub}, ps \in {<<Trades>>, <<TR!Malformed>>}}
\* Only the well-formed SUBSCRIBE and UNSUBSCRIBE of "trades@BTCUSDT".
SubUnsubFrames == {[act |-> a, steps |-> TR!RequestSteps(a, <<Trades>>)] :
                     a \in {Sub, Unsub}}
\* Every frame, a frame json.Unmarshal rejects included.
AnyFrames == MCFrames \cup {InvalidFrame}
\* Connections are interchangeable.
ConnSymmetry == Permutations(MCConns)
\* A SUBSCRIBE, and a frame json.Unmarshal rejects.
SubInvalidFrames == {[act |-> Sub, steps |-> TR!RequestSteps(Sub, <<Trades>>)],
                     InvalidFrame}
=============================================================================
