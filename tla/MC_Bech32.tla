------------------------------ MODULE MC_Bech32 ------------------------------
(***************************************************************************)
(* Programs: every one of length 0..2 over five edge bytes, and of each   *)
(* length around the limits (2, 20, 32, 40) a few patterned ones.         *)
(* Addresses: data of a version 0, 1, 16 or 17 followed by every tail of  *)
(* 0..4 groups over three edge values, and tails of the lengths that hold  *)
(* 20, 32 and 40 bytes and one more or less, their last group's padding   *)
(* bits zero or not; under either hrp or none (a malformed string).       *)
(***************************************************************************)
EXTENDS Bech32

MCBytes == {0, 1, 127, 128, 255}
MCLengths == {3, 19, 20, 21, 31, 32, 33, 39, 40, 41}
MCPrograms ==
    SeqOf(MCBytes, 2)
    \cup {[i \in 1..L |-> (i * m) % 256] : L \in MCLengths, m \in {0, 1, 255}}

MCTails ==
    SeqOf({0, 1, 31}, 4)
    \cup {[i \in 1..L |-> (i * m) % 32] : L \in {31, 32, 33, 51, 52, 53, 63, 64, 65},
                                          m \in {0, 1, 16}}
MCAddrs ==
    [hrp : {"bc", "tb", NoHrp}, data : {<<>>} \cup {<<v>> \o t : v \in {0, 1, 16, 17}, t \in MCTails}]
====
