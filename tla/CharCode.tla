----------------------------- MODULE CharCode -----------------------------
(***************************************************************************)
(* The characters of an encoding and their indices (charcode.c).  A        *)
(* character is a sequence of bytes; the i-th byte of a character lies in  *)
(* one of the ranges Charset[i], in increasing order, as sys.tab gives.    *)
(***************************************************************************)
EXTENDS Integers, SequencesExt, Functions

CONSTANT Charset

ASSUME CharsetAssumption ==
    /\ Charset \in Seq(Seq(Nat \X Nat)) /\ Charset # << >>
    /\ \A i \in DOMAIN Charset :
         /\ Charset[i] # << >>
         /\ \A j \in DOMAIN Charset[i] :
              /\ 0 < Charset[i][j][1] /\ Charset[i][j][1] <= Charset[i][j][2]
              /\ Charset[i][j][2] < 256
              /\ j > 1 => Charset[i][j - 1][2] < Charset[i][j][1]

num(i, j) == Charset[i][j][2] - Charset[i][j][1] + 1

\* Bytes in the ranges before range j of byte i, and in all its ranges.
ac_num(i, j) == SumFunction([k \in 1 .. j - 1 |-> num(i, k)])
total_num(i) == ac_num(i, Len(Charset[i]) + 1)

\* The first byte varies fastest.
base(i) == FoldLeftDomain(LAMBDA b, k : b * total_num(k), 1,
                          SubSeq(Charset, 1, i - 1))

n_ch_encoding == Len(Charset)
total_char == base(n_ch_encoding + 1)

in_range(byte, i) ==
    {j \in DOMAIN Charset[i] : Charset[i][j][1] <= byte
                               /\ byte <= Charset[i][j][2]}

\* Of a wch_t, as many bytes are looked at as the encoding has.
match_encoding(wch) == \A i \in DOMAIN Charset : in_range(wch[i], i) # {}

\* ccode_to_idx(): a byte outside every range has no index.
ccode_to_idx(wch) ==
    IF \E i \in DOMAIN wch : i > n_ch_encoding \/ in_range(wch[i], i) = {}
    THEN -1
    ELSE LET range(i) == CHOOSE j \in in_range(wch[i], i) : TRUE
             digit(i) == wch[i] - Charset[i][range(i)][1] + ac_num(i, range(i))
         IN  SumFunction([i \in DOMAIN wch |-> digit(i) * base(i)])

\* ccode_to_char(): the empty sequence stands for the failing call.
ccode_to_char(idx) ==
    IF idx < 0 \/ idx >= total_char THEN << >>
    ELSE LET digit(i) == (idx \div base(i)) % total_num(i)
             before(i) == {j \in DOMAIN Charset[i] : ac_num(i, j) <= digit(i)}
             range(i) == CHOOSE j \in before(i) : \A k \in before(i) : k <= j
         IN  [i \in DOMAIN Charset |->
                digit(i) - ac_num(i, range(i)) + Charset[i][range(i)][1]]
=============================================================================
