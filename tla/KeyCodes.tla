----------------------------- MODULE KeyCodes -----------------------------
(***************************************************************************)
(* Keys, their codes and the codes of a keystroke (keymap.c).  A keystroke *)
(* is a sequence of keys; four keys are packed in an unsigned int.         *)
(***************************************************************************)
EXTENDS Integers, SequencesExt

N_KEY_IN_CODE == 4

\* The keys in the order of their codes, 1 to 94.
mapped_keys ==
    << "1", "2", "3", "4", "5", "6", "7", "8", "9", "0",
       "!", "@", "#", "$", "%", "^", "&", "*", "(", ")",
       "a", "b", "c", "d", "e", "f", "g", "h", "i", "j", "k", "l", "m",
       "n", "o", "p", "q", "r", "s", "t", "u", "v", "w", "x", "y", "z",
       "A", "B", "C", "D", "E", "F", "G", "H", "I", "J", "K", "L", "M",
       "N", "O", "P", "Q", "R", "S", "T", "U", "V", "W", "X", "Y", "Z",
       "`", "-", "=", "[", "]", ";", "'", ",", ".", "/", "\\",
       "~", "_", "+", "{", "}", ":", "\"", "<", ">", "?", "|" >>

keymap == [key \in ToSet(mapped_keys) |->
             CHOOSE code \in DOMAIN mapped_keys : mapped_keys[code] = key]

\* Any other key has code 0.
key2code(key) == IF key \in DOMAIN keymap THEN keymap[key] ELSE 0

\* ichmap shows "-" for the code of "_", and a space for code 0.
ichmap == [code \in 0 .. Len(mapped_keys) |->
             IF code = 0 THEN " "
             ELSE IF mapped_keys[code] = "_" THEN "-" ELSE mapped_keys[code]]

\* Up to four key codes in one word, the first in the highest byte.
pack(codes) ==
    FoldLeftDomain(LAMBDA sum, i : sum + codes[i] * 256 ^ (N_KEY_IN_CODE - i),
                   0, codes)

(***************************************************************************)
(* keys2codes(klist, 2, keystroke).  The second word is written only when  *)
(* the first is full: otherwise it stays what klist held.                  *)
(***************************************************************************)
keys2codes(klist, keystroke) ==
    LET n == N_KEY_IN_CODE
        k == [i \in DOMAIN keystroke |-> key2code(keystroke[i])]
    IN  << pack(SubSeq(k, 1, IF Len(k) < n THEN Len(k) ELSE n)),
           IF Len(k) >= n
           THEN pack(SubSeq(k, n + 1, IF Len(k) < 2 * n THEN Len(k) ELSE 2 * n))
           ELSE klist[2] >>

\* codes2keys(): the keys of the words, up to the first code 0.
codes2keys(klist) ==
    LET n == N_KEY_IN_CODE
        byte(i) == (klist[1 + i \div n] \div 256 ^ (n - 1 - (i % n))) % 256
        used == {i \in 0 .. Len(klist) * n :
                   \A j \in 0 .. i - 1 : j < Len(klist) * n /\ byte(j) # 0}
        len == CHOOSE i \in used : \A j \in used : j <= i
    IN  [i \in 1 .. len |-> ichmap[byte(i - 1)]]
=============================================================================
