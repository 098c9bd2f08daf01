----------------------------- MODULE MCDataNode -----------------------------
(***************************************************************************)
(* Small instances of DataNode for TLC.  query_head_buf holds three units: *)
(* a whole Set, whose data may also come in one or two pieces later.       *)
(* LongData sends more than it announces.  The headers of two units can    *)
(* come in two pieces: of SplitGet the second one begins in the middle of  *)
(* "\r\n", and more text fills the buffer; of Twofold ("set " and           *)
(* "get ...\r\n") it is a get, of BadSet it is a set.                       *)
(***************************************************************************)
EXTENDS DataNode, TLC

CONSTANT k1

Text(cmd, head, data) == [cmd |-> cmd, key |-> k1, head |-> head, data |-> data]
NoEnd == Text("bad", 9, 0)

\* A request of len units; inner is what its text holds after the first unit.
InPieces(outer, inner, len) ==
    [text |-> [i \in 0 .. HEAD_BUF |-> IF i = 0 THEN outer ELSE IF i = 1 THEN inner ELSE NoEnd], len |-> len]
Request(cmd, head, data, len) == InPieces(Text(cmd, head, data), NoEnd, len)

SplitGet == Request("get", 2, 0, 3)
Twofold == InPieces(Text("set", 2, 1), Text("get", 1, 0), 3)
BadSet == InPieces(Text("bad", 2, 0), Text("set", 1, 2), 3)
Set == Request("set", 1, 2, 3)
Sync == Request("sync", 1, 0, 1)
Power == Request("power", 1, 0, 1)
LongData == Request("set", 1, 1, 3)
OneUnitGet == Request("get", 1, 0, 1)
OneUnitSet == Request("set", 1, 1, 2)
OneUnitDelete == Request("delete", 1, 0, 1)

KVRequests == {OneUnitGet, OneUnitSet, OneUnitDelete}
TaskRequests == {SplitGet, Twofold, BadSet, Set, OneUnitDelete, Sync, Power, LongData}
GetOnly == {OneUnitGet}

ConnSymmetry == Permutations(Conns)
=============================================================================
