--------------------------- MODULE MCEscrowCache ---------------------------
(***************************************************************************)
(* EscrowCache with two channels and blocks that open them before, between *)
(* and after transfers.                                                    *)
(***************************************************************************)
EXTENDS EscrowCache

TwoNodes == {"n1", "n2"}
TwoChannels == {"c1", "c2"}

OpenBlock == <<<<Open("c1")>>>>
SendBlock == <<<<Send(NoChannel)>>, <<Send("c1")>>>>
MixedBlock == <<<<Open("c1")>>, <<Send(NoChannel)>>, <<Send("c1")>>>>
RevertedBlock == <<<<Open("c2"), Send(NoChannel), Fail>>, <<Send("c2")>>>>

AllBlocks == {OpenBlock, SendBlock, MixedBlock, RevertedBlock, <<>>}
Simulations == {<<Send("c1")>>, <<Open("c2"), Send(NoChannel)>>}
SendOnly == {<<Send(NoChannel)>>}
=============================================================================
