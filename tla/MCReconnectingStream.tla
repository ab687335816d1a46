------------------------ MODULE MCReconnectingStream ------------------------
(* TLC instances of ReconnectingStream. *)
EXTENDS ReconnectingStream

\* The two streams of the client.
Both == {"matchInfo", "health"}
=============================================================================
