--------------------------- MODULE MCRtspConnection ---------------------------
(* Model-checking instance of RtspConnection: what clients send. *)
EXTENDS RtspConnection, TLC

End == <<CR, LF>>

\* The answer to OPTIONS has no effect here; its request has a Content-Length,
\* and a body that looks like the end of a message.
Options == <<79, 50>> \o End \o End \o End

\* A blank line in front, as some clients send it.
PlayAfterBlankLine == End \o <<PLAY>> \o End \o End

MCRequests == {<<SETUP>> \o End \o End, PlayAfterBlankLine, <<TEARDOWN>> \o End \o End, Options}

MCPackets == {[interface |-> "rtcp", data |-> <<Dollar, LF>>],
              [interface |-> "rtcp", data |-> <<>>],
              [interface |-> "rtp", data |-> <<TEARDOWN>>]}

\* Clients that send one report each.
ShortRequests == {<<SETUP>> \o End \o End, <<PLAY>> \o End \o End}
Report == {[interface |-> "rtcp", data |-> <<1, 2>>]}

\* The two clients do the same.  Used with an invariant only.
Symmetry == Permutations(Clients)

=============================================================================
