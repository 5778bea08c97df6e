------------------------------- MODULE Options ------------------------------
(***************************************************************************)
(* Rust's Option and Result as sequences of at most one element (which     *)
(* error a Result holds is not told apart), and the conversions between    *)
(* values of a fixed width and the bytes and numbers of protobuf.          *)
(***************************************************************************)
EXTENDS Integers, Sequences

None == <<>>
Some(x) == <<x>>
IsSome(option) == option # None
Get(option) == option[1]

Map(option, F(_)) == IF IsSome(option) THEN Some(F(Get(option))) ELSE None
UnwrapOr(option, default) == IF IsSome(option) THEN Get(option) ELSE default
AndThen(option, F(_)) == IF IsSome(option) THEN F(Get(option)) ELSE None
MapSeq(seq, F(_)) == [i \in DOMAIN seq |-> F(seq[i])]

\* `?` on every part, and collect into a Result: a sequence or a record of options
\* becomes an option of a sequence or record.
Transpose(parts) ==
    IF \A i \in DOMAIN parts : IsSome(parts[i]) THEN Some([i \in DOMAIN parts |-> Get(parts[i])]) ELSE None

\* as_ref of a Pubkey, Hash or Signature, and try_from of a slice, which fails unless
\* the slice has the width of the type
KeyBytes == 32
SignatureBytes == 64
Octets(width, value) == [width |-> width, value |-> value]
FromOctets(width, octets) == IF octets.width = width THEN Some(octets.value) ELSE None

\* try_into of a u32 to u8, to_string and parse of a small number
ToU8(n) == IF n < 256 THEN Some(n) ELSE None
ToText(n) == <<n>>
ParseBelow(bound, text) == IF Len(text) = 1 /\ text[1] < bound THEN Some(text[1]) ELSE None
=============================================================================
