------------------------------- MODULE Bech32 -------------------------------
(***************************************************************************)
(* The segwit address layer of lib/others/bech32/segwit.go: convert_bits  *)
(* regroups a byte string into 5-bit groups and back, SegwitEncode checks *)
(* a witness version and program and encodes them, SegwitDecode decodes   *)
(* an address and checks what it holds.                                   *)
(*                                                                         *)
(* These are pure functions, so they are operators, and the state machine *)
(* is a caller making one call with inputs drawn from small sets: its one  *)
(* variable is that call with its result, and the                        *)
(* properties compare every result with a reference.                      *)
(*                                                                         *)
(* Encode and Decode, the checksummed string form of bech32, are not part *)
(* of this package's source: an address is modelled as the pair they      *)
(* encode, and Decode of a string that is not an address is an hrp of "". *)
(* A Go []byte that is nil or empty is <<>> (bytes.Buffer.Bytes() of a     *)
(* buffer never written to is nil).                                        *)
(***************************************************************************)
EXTENDS Integers, Sequences, SequencesExt

CONSTANTS
    Hrps,       \* human-readable parts a caller passes
    WitVers,    \* witness versions a caller passes to SegwitEncode
    Programs,   \* witness programs: sequences of bytes
    Addrs       \* addresses a caller passes to SegwitDecode

NoHrp == ""     \* what Decode returns as hrp for a malformed string
\* val is a uint32.  The model keeps it modulo 2^16: that divides 2^32,
\* so it is Go's val reduced mod 2^16, and no read of val looks above its
\* 12th bit (at most outbits - 1 + inbits bits are held).
ValMod == 2^16

\* The "" SegwitEncode returns on error: a string Decode rejects.
NoAddr == [hrp |-> NoHrp, data |-> <<>>]

Encode(hrp, data) == [hrp |-> hrp, data |-> data]
Decode(addr) ==
    IF addr.hrp = NoHrp THEN <<NoHrp, <<>>>> ELSE <<addr.hrp, addr.data>>

\* Lines 89-92: while at least outbits bits are held, write the top
\* group: the held groups go out top first and bits % outbits remain.
Drain(outbits, st) ==
    LET n == st.bits \div outbits IN
    [st EXCEPT !.bits = @ % outbits,
               !.out = @ \o [j \in 1..n |->
                               (st.val \div 2^(st.bits - j * outbits)) % 2^outbits]]

\* Lines 86-93: shift each input into the accumulator and drain it.
RECURSIVE Feed(_, _, _, _)
Feed(outbits, st, in, inbits) ==
    IF in = <<>> THEN st
    ELSE LET next == Drain(outbits,
                           [st EXCEPT !.val = (@ * 2^inbits + Head(in)) % ValMod,
                                      !.bits = @ + inbits])
         IN  \* next.bits >= 0 always holds: the test evaluates next before
             \* the recursion, so no chain of unevaluated states builds up.
             IF next.bits >= 0 THEN Feed(outbits, next, Tail(in), inbits) ELSE next

\* Line 82-83: val and bits start at 0, out empty.
Accumulate(outbits, in, inbits) ==
    Feed(outbits, [val |-> 0, bits |-> 0, out |-> <<>>], in, inbits)

\* Mutant: the leftover bits are written without being moved to the top.
ConvertBitsPadUnshifted(outbits, in, inbits, pad) ==
    LET st == Accumulate(outbits, in, inbits) IN
    IF pad
    THEN IF st.bits # 0 THEN Append(st.out, st.val % 2^outbits) ELSE st.out
    ELSE IF (st.val * 2^(outbits - st.bits)) % 2^outbits # 0
            \/ st.bits >= inbits
         THEN <<>> ELSE st.out

\* convert_bits, lines 81-102: pad the last group with zero bits, or
\* return nil if the leftover bits are not zero or a whole input's worth.
ConvertBits(outbits, in, inbits, pad) ==
    LET st == Accumulate(outbits, in, inbits) IN
    IF pad
    THEN IF st.bits # 0
         THEN Append(st.out, (st.val * 2^(outbits - st.bits)) % 2^outbits)
         ELSE st.out
    ELSE IF (st.val * 2^(outbits - st.bits)) % 2^outbits # 0
            \/ st.bits >= inbits
         THEN <<>> ELSE st.out

\* Mutant: version 0 programs of any length are encoded.
SegwitEncodeAnyV0(hrp, witver, witprog) ==
    IF witver > 16 \/ Len(witprog) < 2 \/ Len(witprog) > 40 THEN NoAddr
    ELSE Encode(hrp, <<witver>> \o ConvertBits(5, witprog, 8, TRUE))

\* SegwitEncode, lines 105-116: "" on error.
SegwitEncode(hrp, witver, witprog) ==
    IF \/ witver > 16
       \/ witver = 0 /\ Len(witprog) # 20 /\ Len(witprog) # 32
       \/ Len(witprog) < 2 \/ Len(witprog) > 40
    THEN NoAddr
    ELSE Encode(hrp, <<witver>> \o ConvertBits(5, witprog, 8, TRUE))

\* Mutant: the version check of line 127 is left out.
SegwitDecodeAnyVersion(hrp, addr) ==
    LET d == Decode(addr)
        data == d[2]
        witdata == ConvertBits(8, Tail(data), 5, FALSE)
    IN
    IF \/ d[1] = NoHrp \/ Len(data) = 0 \/ Len(data) > 65
       \/ hrp # d[1]
       \/ witdata = <<>>
       \/ Len(witdata) < 2 \/ Len(witdata) > 40
       \/ data[1] = 0 /\ Len(witdata) # 20 /\ Len(witdata) # 32
    THEN <<0, <<>>>>
    ELSE <<data[1], witdata>>

\* SegwitDecode, lines 119-144: <<witver, witdata>>, <<0, nil>> on error.
SegwitDecode(hrp, addr) ==
    LET d == Decode(addr)
        data == d[2]
        witdata == ConvertBits(8, Tail(data), 5, FALSE)
    IN
    IF \/ d[1] = NoHrp \/ Len(data) = 0 \/ Len(data) > 65
       \/ hrp # d[1]
       \/ data[1] > 16
       \/ witdata = <<>>
       \/ Len(witdata) < 2 \/ Len(witdata) > 40
       \/ data[1] = 0 /\ Len(witdata) # 20 /\ Len(witdata) # 32
    THEN <<0, <<>>>>
    ELSE <<data[1], witdata>>

VARIABLE call   \* the call made and its result

Init == call = [op |-> "none"]

\* A caller encodes a witness program.
CallEncode ==
    /\ call.op = "none"
    /\ \E hrp \in Hrps, v \in WitVers, p \in Programs :
        call' = [op |-> "encode", hrp |-> hrp, witver |-> v, prog |-> p,
                 addr |-> SegwitEncode(hrp, v, p)]

\* A caller decodes an address.
CallDecode ==
    /\ call.op = "none"
    /\ \E hrp \in Hrps, a \in Addrs :
        call' = [op |-> "decode", hrp |-> hrp, addr |-> a,
                 res |-> SegwitDecode(hrp, a)]

\* The call has returned.
Returned == call.op # "none" /\ UNCHANGED call

Next == CallEncode \/ CallDecode \/ Returned

Spec == Init /\ [][Next]_call
-----------------------------------------------------------------------------
\* The reference: the inputs as one big-endian bit string, cut into
\* groups of outbits from the left.  With pad the last group is filled
\* with zeros; without, a last partial group is an error unless it is
\* shorter than one input and all zero (BIP 173's rule for decoding).
BitString(in, inbits) ==
    [k \in 1..Len(in) * inbits |->
        (in[(k - 1) \div inbits + 1] \div 2^(inbits - 1 - ((k - 1) % inbits))) % 2]

BinValue(s) ==
    LET v[i \in 0..Len(s)] == IF i = 0 THEN 0 ELSE 2 * v[i - 1] + s[i]
    IN v[Len(s)]

RefConvert(outbits, in, inbits, pad) ==
    LET b == BitString(in, inbits)
        rest == Len(b) % outbits
        Group(j) == BinValue(
                        [k \in 1..outbits |->
                            IF (j - 1) * outbits + k <= Len(b)
                            THEN b[(j - 1) * outbits + k] ELSE 0])
        groups == (Len(b) + IF pad THEN outbits - 1 ELSE 0) \div outbits
    IN
    IF ~pad /\ (rest >= inbits \/ \E k \in Len(b) - rest + 1..Len(b) : b[k] = 1)
    THEN <<>>
    ELSE [j \in 1..groups |-> Group(j)]

\* convert_bits, for both ways the package uses it (bytes to padded 5-bit
\* groups when encoding, 5-bit groups to bytes when decoding), returns the
\* reference regrouping, its uint32 accumulator overflowing or not.
ConvertBitsMatchesReference ==
    /\ call.op = "encode" =>
          ConvertBits(5, call.prog, 8, TRUE) = RefConvert(5, call.prog, 8, TRUE)
    /\ call.op = "decode" /\ call.addr.data # <<>> =>
          ConvertBits(8, Tail(call.addr.data), 5, FALSE)
              = RefConvert(8, Tail(call.addr.data), 5, FALSE)

\* Every address SegwitEncode returns decodes, under the same hrp, to the
\* version and program it was made from.
SegwitRoundTrip ==
    call.op = "encode" /\ call.addr # NoAddr =>
        SegwitDecode(call.hrp, call.addr) = <<call.witver, call.prog>>

\* An address SegwitDecode accepts is the one SegwitEncode makes of what
\* it decodes to: no program has a second spelling (padding bits, an
\* extra group) that the decoder also accepts.
DecodeIsCanonical ==
    call.op = "decode" /\ call.res[2] # <<>> =>
        SegwitEncode(call.hrp, call.res[1], call.res[2]) = call.addr
====
