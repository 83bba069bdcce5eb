------------------------------ MODULE MCPubSub ------------------------------
(* PubSub on small instances. *)
EXTENDS PubSub

CONSTANTS c1, c2, p1, p2, news, sports

OneConn == {c1}
TwoConns == {c1, c2}
OnePublisher == {p1}
TwoPublishers == {p1, p2}
OneChannel == {news}
TwoChannels == {news, sports}
BothKinds == {"go", "python"}
=============================================================================
