------------------------------- MODULE ZhHex -------------------------------
(***************************************************************************)
(* The input method zh_hex, which takes a character by the hexadecimal     *)
(* digits of its code, beside gen_inp: an IMC is bound to one of the two   *)
(* (ImSwitch changes them).  As the module's own comment says it takes     *)
(* encodings of two bytes only.  A step is one call of                     *)
(* zh_hex_keystroke().                                                     *)
(***************************************************************************)
EXTENDS GenInp

CONSTANT Digits    \* the digits that are typed

VARIABLES bound,   \* the module of the entry
          hex      \* its inpinfo_t, its zh_hex_iccf_t and the last result

hexvars == <<bound, hex>>

KEY_CODE_LEN == 4

HexDigit == << "0", "1", "2", "3", "4", "5", "6", "7",
               "8", "9", "A", "B", "C", "D", "E", "F" >>

ASSUME HexAssumption ==
    n_ch_encoding = 2 /\ Digits \subseteq Range(HexDigit) /\ NUL \notin Digits

nibble(c) == (CHOOSE i \in DOMAIN HexDigit : HexDigit[i] = c) - 1

Cleared == [i \in 0 .. KEY_CODE_LEN |-> NUL]
NoChar == << >>

FreshHex == [active |-> FALSE, keystroke_len |-> 0, s_keystroke |-> Cleared,
             keystroke |-> Cleared, cch_publish |-> NoChar, ret |-> "IGNORE"]

zh_hex_xim_init == /\ ~hex.active
                   /\ hex' = [FreshHex EXCEPT !.active = TRUE]

zh_hex_xim_end == /\ hex.active
                  /\ hex' = [hex EXCEPT !.active = FALSE]

\* The code of four digits, two to a byte.
code(cells) == << 16 * nibble(cells[0]) + nibble(cells[1]),
                  16 * nibble(cells[2]) + nibble(cells[3]) >>

zh_hex_check_char(cells) == IF match_encoding(code(cells)) THEN code(cells) ELSE NoChar

\* The published character is gone with the first key that changes the buffer.
unpublished == [hex EXCEPT !.cch_publish = NoChar]

\* Slip: the cell behind the last key is cleared.
taken_back_late(h) ==
    [h EXCEPT !.s_keystroke[h.keystroke_len] = NUL,
              !.keystroke[h.keystroke_len] = NUL,
              !.keystroke_len = @ - 1]

taken_back(h) ==
    [h EXCEPT !.s_keystroke[h.keystroke_len - 1] = NUL,
              !.keystroke[h.keystroke_len - 1] = NUL,
              !.keystroke_len = @ - 1]

cut(h) == [h EXCEPT !.s_keystroke = emptied(@), !.keystroke = emptied(@),
                    !.keystroke_len = 0]

put(h, c) ==
    LET len == h.keystroke_len
    IN  [h EXCEPT !.s_keystroke = [@ EXCEPT ![len] = c, ![len + 1] = NUL],
                  !.keystroke   = [@ EXCEPT ![len] = c, ![len + 1] = NUL],
                  !.keystroke_len = @ + 1]

\* The keys of a character that is committed stay in the iccf, those of a code
\* that is no character in the buffer.
composed(h) ==
    LET c == zh_hex_check_char(h.keystroke)
    IN  IF h.keystroke_len < n_ch_encoding * 2 THEN [h EXCEPT !.ret = "ABSORB"]
        ELSE IF c = NoChar THEN [h EXCEPT !.ret = "WRONG"]
        ELSE [h EXCEPT !.s_keystroke = emptied(@), !.keystroke_len = 0,
                       !.cch_publish = c, !.ret = "COMMIT"]

(***************************************************************************)
(* zh_hex_keystroke().  WRONG is IMKEY_BELL or IMKEY_ABSORB, as BEEP_WRONG *)
(* says; an uppercase digit comes with the Caps lock.                      *)
(***************************************************************************)
BackSpace == /\ hex.active /\ hex.keystroke_len > 0
             /\ hex' = [taken_back(unpublished) EXCEPT !.ret = "ABSORB"]

Escape == /\ hex.active /\ hex.keystroke_len > 0
          /\ hex' = [cut(unpublished) EXCEPT !.ret = "ABSORB"]

Typed(c) == /\ hex.active
            /\ hex' = IF hex.keystroke_len >= KEY_CODE_LEN THEN [hex EXCEPT !.ret = "WRONG"]
                      ELSE composed(put(unpublished, c))

\* A digit with Shift goes to the escape of the server, any other key past it.
PastIt == /\ hex.active
          /\ \E r \in {"SHIFTESC", "IGNORE"} : hex' = [hex EXCEPT !.ret = r]

HexNext == /\ bound = "zh_hex" /\ UNCHANGED <<bound, vars>>
           /\ \/ zh_hex_xim_init \/ zh_hex_xim_end
              \/ BackSpace \/ Escape \/ PastIt
              \/ \E c \in Digits : Typed(c)

InpInit == Init /\ bound \in {"gen_inp", "zh_hex"} /\ hex = FreshHex

InpNext == (bound = "gen_inp" /\ Next /\ UNCHANGED hexvars) \/ HexNext

InpSpec == InpInit /\ [][InpNext]_<<vars, hexvars>>

(***************************************************************************)
(* zh_hex_show_keystroke(): the digits of a published character.           *)
(***************************************************************************)
zh_hex_show_keystroke(wch) ==
    LET digit(i) == LET byte == wch[(i + 1) \div 2]
                    IN  HexDigit[(IF i % 2 = 1 THEN byte \div 16 ELSE byte % 16) + 1]
    IN  IF wch = NoChar \/ ~match_encoding(wch) THEN NoChar
        ELSE [i \in 1 .. KEY_CODE_LEN |-> digit(i)]

----------------------------------------------------------------------------
\* What is shown is what will be composed: the preedit has the keys of the
\* buffer and no more, whatever was typed and taken back; a full buffer is one
\* whose code is no character; and the keystroke shown for a character that
\* was just committed is the one that was typed (zh_hex.c:167-298).

HexAsShown ==
    hex.active =>
      /\ \A i \in 0 .. hex.keystroke_len - 1 :
            hex.s_keystroke[i] = hex.keystroke[i] /\ hex.s_keystroke[i] # NUL
      /\ hex.s_keystroke[hex.keystroke_len] = NUL
      /\ hex.keystroke_len = KEY_CODE_LEN => zh_hex_check_char(hex.keystroke) = NoChar
      /\ hex.ret = "COMMIT" => zh_hex_show_keystroke(hex.cch_publish)
                                   = [i \in 1 .. KEY_CODE_LEN |-> hex.keystroke[i - 1]]
=============================================================================
