--------------------------- MODULE GenInp_proofs ---------------------------
(***************************************************************************)
(* The keystroke buffer of gen_inp stays inside its arrays, its lists of   *)
(* candidates are freed once, the candidates shown are those of the        *)
(* buffer, and the buffer grows by keystrokes of the table only: for every *)
(* table whose longest keystroke has up to INP_CODE_LENGTH keys, but for   *)
(* the end of the preedit, which has no cell after an eighth key.          *)
(* zh_hex shows its digits as they were typed.                             *)
(***************************************************************************)
EXTENDS ZhHex, SequenceTheorems, WellFoundedInduction, TLAPS

Char == Key \cup {NUL}

\* A record of the shape of State whose buffer holds a string of
\* keystroke_len keys.
Good(s) ==
    /\ s = [inp |-> s.inp, iccf |-> s.iccf, live |-> s.live]
    /\ s.inp = [keystroke_len |-> s.inp.keystroke_len,
                s_keystroke |-> s.inp.s_keystroke, mcch |-> s.inp.mcch,
                mcch_pgstate |-> s.inp.mcch_pgstate, cch |-> s.inp.cch]
    /\ s.iccf = [keystroke |-> s.iccf.keystroke, mcch_list |-> s.iccf.mcch_list]
    /\ s.inp.keystroke_len \in Cell
    /\ s.inp.s_keystroke \in [Cell -> Char]
    /\ s.inp.mcch_pgstate \in {"ONEPG", "BEGIN"}
    /\ s.iccf.keystroke \in [Cell -> Char]
    /\ s.iccf.keystroke[s.inp.keystroke_len] = NUL
    /\ \A i \in 0 .. s.inp.keystroke_len - 1 : s.iccf.keystroke[i] # NUL

Owned(s) == s.live = held(s.iccf)

\* A buffer that is to be completed.
Roomy(s) == s.inp.keystroke_len < n_max_keystroke \/ s.inp.keystroke_len <= 1

\* The first keys of a buffer.
beginning(cells, n) == [i \in 1 .. n |-> cells[i - 1]]

\* CandidatesOfBuffer and ComposedKeyByKey of a record.
Shown(s) ==
    s.inp.mcch # << >> =>
      LET list == chars_of(text(s.iccf.keystroke))
      IN  /\ in_table(text(s.iccf.keystroke))
          /\ s.inp.mcch = shown(list)
          /\ IF s.inp.mcch_pgstate = "BEGIN" THEN s.iccf.mcch_list = list
                                             ELSE s.inp.mcch = list

Stepwise(s) ==
    \A n \in 2 .. s.inp.keystroke_len : in_table(beginning(s.iccf.keystroke, n))

Faithful(s) == Shown(s) /\ Stepwise(s)

IInv ==
    /\ active \in BOOLEAN /\ key \in Char
    /\ ret \in {"IGNORE", "ABSORB", "BACKSPACE"}
    /\ Good(State) /\ Roomy(State) /\ Faithful(State)
    /\ ListsOwned

\* The indices of the buffers.
LEMMA CellIs == Cell = 0 .. 8
BY DEF Cell, INP_CODE_LENGTH

\* A module that is not active has empty buffers and no list.
LEMMA InitIInv == Init => IInv
<1> SUFFICES ASSUME Init PROVE IInv
  OBVIOUS
<1>1. Blank \in [Cell -> Char] /\ Blank[0] = NUL
  BY CellIs DEF Blank, Char
<1>2. Good(State) /\ Roomy(State)
  BY <1>1, CellIs DEF Init, Good, Roomy, State, FreshInp, FreshIccf
<1>3. Faithful(State)
  BY CellIs DEF Init, State, FreshInp, Faithful, Shown, Stepwise
<1> QED
  BY <1>2, <1>3 DEF Init, IInv, ListsOwned, Char

\* reset_keystroke() empties the buffer and frees the list.
LEMMA ResetGood ==
    ASSUME NEW s, Good(s), Owned(s)
    PROVE  LET r == reset_keystroke(s)
           IN  Good(r) /\ Owned(r) /\ Roomy(r)
<1> DEFINE r == reset_keystroke(s)
<1>0. SUFFICES Good(r) /\ Owned(r) /\ Roomy(r)
  OBVIOUS
<1>1. /\ r.inp = [keystroke_len |-> 0, s_keystroke |-> emptied(s.inp.s_keystroke),
                  mcch |-> << >>, mcch_pgstate |-> "ONEPG", cch |-> s.inp.cch]
      /\ r.iccf = [keystroke |-> emptied(s.iccf.keystroke), mcch_list |-> NoList]
      /\ r.live = s.live - held(s.iccf)
      /\ r = [inp |-> r.inp, iccf |-> r.iccf, live |-> r.live]
  BY DEF reset_keystroke, Good
<1>2. /\ emptied(s.inp.s_keystroke) \in [Cell -> Char]
      /\ emptied(s.iccf.keystroke) \in [Cell -> Char]
      /\ emptied(s.iccf.keystroke)[0] = NUL
  BY CellIs DEF emptied, Good, Char
<1>3. r.live = 0
  BY <1>1 DEF Owned, held
<1> HIDE DEF r
<1>4. Good(r)
  BY <1>1, <1>2, CellIs DEF Good
<1>5. Owned(r) /\ Roomy(r)
  BY <1>1, <1>3, CellIs DEF Owned, Roomy, held
<1> QED
  BY <1>4, <1>5

\* What a function that leaves the buffer alone keeps.
SameBuffer(s, t) ==
    /\ t.inp.keystroke_len = s.inp.keystroke_len
    /\ t.inp.s_keystroke = s.inp.s_keystroke
    /\ t.iccf.keystroke = s.iccf.keystroke

\* match_keystroke() leaves the buffer alone and frees a list it replaces.
LEMMA MatchGood ==
    ASSUME GenInpAssumption, NEW s, Good(s), Owned(s)
    PROVE  LET m == match_keystroke(s)
           IN  Good(m) /\ Owned(m) /\ SameBuffer(s, m)
<1> DEFINE keystroke_ == text(s.iccf.keystroke)
           list == chars_of(keystroke_)
           m == match_keystroke(s)
<1>0. SUFFICES Good(m) /\ Owned(m) /\ SameBuffer(s, m)
  OBVIOUS
<1>1. CASE ~in_table(keystroke_)
  <2>1. m = [s EXCEPT !.inp.mcch = << >>]
    BY <1>1 DEF match_keystroke
  <2>2. /\ m.inp = [keystroke_len |-> s.inp.keystroke_len,
                    s_keystroke |-> s.inp.s_keystroke, mcch |-> << >>,
                    mcch_pgstate |-> s.inp.mcch_pgstate, cch |-> s.inp.cch]
        /\ m.iccf = s.iccf /\ m.live = s.live
        /\ m = [inp |-> m.inp, iccf |-> m.iccf, live |-> m.live]
    BY <2>1 DEF Good
  <2> HIDE DEF m
  <2> QED
    BY <2>2 DEF Good, Owned, SameBuffer
<1>2. CASE in_table(keystroke_) /\ Len(list) <= n_selkey
  <2>1. m = [[s EXCEPT !.inp.mcch = shown(list)] EXCEPT !.inp.mcch_pgstate = "ONEPG"]
    BY <1>2 DEF match_keystroke, one_page
  <2>2. /\ m.inp = [keystroke_len |-> s.inp.keystroke_len,
                    s_keystroke |-> s.inp.s_keystroke, mcch |-> shown(list),
                    mcch_pgstate |-> "ONEPG", cch |-> s.inp.cch]
        /\ m.iccf = s.iccf /\ m.live = s.live
        /\ m = [inp |-> m.inp, iccf |-> m.iccf, live |-> m.live]
    BY <2>1 DEF Good
  <2> HIDE DEF m
  <2> QED
    BY <2>2 DEF Good, Owned, SameBuffer
<1>3. CASE in_table(keystroke_) /\ ~(Len(list) <= n_selkey)
  <2> DEFINE b == [[s EXCEPT !.inp.mcch = shown(list)]
                    EXCEPT !.inp.mcch_pgstate = "BEGIN"]
  <2>1. m = relisted(b, list)
    BY <1>3 DEF match_keystroke
  <2>2. b = [[s EXCEPT !.inp.mcch = shown(list)]
               EXCEPT !.inp.mcch_pgstate = "BEGIN"]
    OBVIOUS
  <2> HIDE DEF m, b, list
  <2>3. /\ b.inp = [keystroke_len |-> s.inp.keystroke_len,
                    s_keystroke |-> s.inp.s_keystroke, mcch |-> shown(list),
                    mcch_pgstate |-> "BEGIN", cch |-> s.inp.cch]
        /\ b.iccf = s.iccf /\ b.live = s.live
        /\ b = [inp |-> b.inp, iccf |-> b.iccf, live |-> b.live]
    BY <2>2 DEF Good
  <2>4. /\ m.inp = b.inp
        /\ m.iccf = [keystroke |-> s.iccf.keystroke, mcch_list |-> list]
        /\ m.live = s.live - held(s.iccf) + 1
        /\ m = [inp |-> m.inp, iccf |-> m.iccf, live |-> m.live]
    <3>1. b.iccf = [keystroke |-> s.iccf.keystroke, mcch_list |-> b.iccf.mcch_list]
      BY <2>3 DEF Good
    <3> QED
      BY <2>1, <2>3, <3>1 DEF relisted
  <2>5. list # << >>
    <3>1. Len(<< >>) <= n_selkey
      BY DEF GenInpAssumption
    <3> QED
      BY <1>3, <3>1
  <2>6. m.live = 1
    BY <2>4 DEF Owned, held
  <2> QED
    BY <2>4, <2>3, <2>5, <2>6 DEF Good, Owned, SameBuffer, held, NoList
<1> QED
  BY <1>1, <1>2, <1>3

\* So does commit_keystroke().
LEMMA CommitGood ==
    ASSUME GenInpAssumption, NEW s, Good(s), Owned(s)
    PROVE  LET c == commit_keystroke(s)
           IN  Good(c) /\ Owned(c) /\ SameBuffer(s, c)
<1> DEFINE m == match_keystroke(s)
           c == commit_keystroke(s)
<1>0. SUFFICES Good(c) /\ Owned(c) /\ SameBuffer(s, c)
  OBVIOUS
<1>1. Good(m) /\ Owned(m) /\ SameBuffer(s, m)
  BY MatchGood
<1> HIDE DEF m
<1>2. \E t, ch : c = [t EXCEPT !.inp.cch = ch] /\ Good(t) /\ Owned(t) /\ SameBuffer(s, t)
  <2>1. SameBuffer(s, s)
    BY DEF SameBuffer
  <2>2. \E ch : c = [s EXCEPT !.inp.cch = ch] \/ c = [m EXCEPT !.inp.cch = ch]
    BY Zenon DEF commit_keystroke, m
  <2> QED
    BY <1>1, <2>1, <2>2
<1> HIDE DEF c
<1>3. PICK t, ch : c = [t EXCEPT !.inp.cch = ch] /\ Good(t) /\ Owned(t) /\ SameBuffer(s, t)
  BY <1>2
<1>4. /\ c.inp = [keystroke_len |-> t.inp.keystroke_len,
                  s_keystroke |-> t.inp.s_keystroke, mcch |-> t.inp.mcch,
                  mcch_pgstate |-> t.inp.mcch_pgstate, cch |-> ch]
      /\ c.iccf = t.iccf /\ c.live = t.live
      /\ c = [inp |-> c.inp, iccf |-> c.iccf, live |-> c.live]
  BY <1>3 DEF Good
<1> QED
  BY <1>3, <1>4 DEF Good, Owned, SameBuffer

\* Taking back the last key leaves the string one key shorter.
LEMMA DeleteGood ==
    ASSUME GenInpAssumption, NEW s, Good(s), Owned(s), Roomy(s),
           s.inp.keystroke_len > 0
    PROVE  LET d == delete_key(s)
           IN  Good(d) /\ Owned(d) /\ Roomy(d)
<1> DEFINE len == s.inp.keystroke_len
           back == [inp |-> [uncandidated(s.inp) EXCEPT
                              !.keystroke_len = len - 1,
                              !.s_keystroke = [s.inp.s_keystroke EXCEPT
                                                 ![len - 1] = NUL]],
                   iccf |-> [s.iccf EXCEPT
                              !.keystroke = [s.iccf.keystroke EXCEPT
                                               ![len - 1] = NUL]],
                   live |-> s.live]
           d == delete_key(s)
<1>0. SUFFICES Good(d) /\ Owned(d) /\ Roomy(d)
  OBVIOUS
<1>1. /\ back.inp = [keystroke_len |-> len - 1,
                    s_keystroke |-> [s.inp.s_keystroke EXCEPT ![len - 1] = NUL],
                    mcch |-> << >>, mcch_pgstate |-> "ONEPG", cch |-> s.inp.cch]
      /\ back.iccf = [keystroke |-> [s.iccf.keystroke EXCEPT ![len - 1] = NUL],
                     mcch_list |-> s.iccf.mcch_list]
      /\ back.live = s.live
      /\ back = [inp |-> back.inp, iccf |-> back.iccf, live |-> back.live]
  BY DEF Good, uncandidated
<1>2. d = back \/ d = match_keystroke(back)
  BY Zenon DEF delete_key
<1> HIDE DEF back, d
<1>3. Good(back) /\ Owned(back) /\ Roomy(back)
  BY <1>1, CellIs DEF Good, Owned, Roomy, Char, held
<1>4. CASE d = back
  BY <1>3, <1>4
<1>5. CASE d = match_keystroke(back)
  BY <1>3, <1>5, MatchGood DEF SameBuffer, Roomy
<1> QED
  BY <1>2, <1>4, <1>5

\* A key makes the string one longer; it may then fill the buffer.
LEMMA PutGood ==
    ASSUME GenInpAssumption, NEW s, Good(s), Owned(s), Roomy(s), NEW k \in Key
    PROVE  LET p == put_key(s, k)
           IN  /\ Good(p) /\ Owned(p)
               /\ p.inp.keystroke_len = s.inp.keystroke_len + 1
<1> DEFINE len == s.inp.keystroke_len
           p == put_key(s, k)
<1>0. SUFFICES Good(p) /\ Owned(p) /\ p.inp.keystroke_len = len + 1
  OBVIOUS
<1>1. /\ p.inp = [keystroke_len |-> len + 1,
                  s_keystroke |-> [s.inp.s_keystroke EXCEPT
                                     ![len + 1] = keyname[k], ![len + 2] = NUL],
                  mcch |-> s.inp.mcch, mcch_pgstate |-> s.inp.mcch_pgstate,
                  cch |-> s.inp.cch]
      /\ p.iccf = [keystroke |-> [s.iccf.keystroke EXCEPT
                                    ![len] = k, ![len + 1] = NUL],
                   mcch_list |-> s.iccf.mcch_list]
      /\ p.live = s.live
      /\ p = [inp |-> p.inp, iccf |-> p.iccf, live |-> p.live]
  BY DEF Good, put_key
<1>2. keyname[k] \in Char /\ k \in Char /\ k # NUL
  BY DEF GenInpAssumption, Char
<1>3. /\ len \in 0 .. 7
      /\ s.inp.s_keystroke \in [Cell -> Char] /\ s.iccf.keystroke \in [Cell -> Char]
      /\ \A i \in 0 .. len - 1 : s.iccf.keystroke[i] # NUL
      /\ s.inp.mcch_pgstate \in {"ONEPG", "BEGIN"} /\ s.live = held(s.iccf)
  BY CellIs DEF Good, Owned, Roomy, GenInpAssumption, INP_CODE_LENGTH
<1> HIDE DEF p, len
<1>4. \A f \in [Cell -> Char], x, y \in Char : \A i, j :
         [f EXCEPT ![i] = x, ![j] = y] \in [Cell -> Char]
  OBVIOUS
<1>5. /\ p.inp.s_keystroke \in [Cell -> Char]
      /\ p.iccf.keystroke \in [Cell -> Char]
  <2>1. NUL \in Char
    BY DEF Char
  <2>2. /\ p.inp.s_keystroke = [s.inp.s_keystroke EXCEPT
                                  ![len + 1] = keyname[k], ![len + 2] = NUL]
        /\ p.iccf.keystroke = [s.iccf.keystroke EXCEPT
                                 ![len] = k, ![len + 1] = NUL]
    BY <1>1
  <2>3. p.inp.s_keystroke \in [Cell -> Char]
    BY <1>2, <1>3, <1>4, <2>1, <2>2, Zenon
  <2>4. p.iccf.keystroke \in [Cell -> Char]
    BY <1>2, <1>3, <1>4, <2>1, <2>2, Zenon
  <2> QED
    BY <2>3, <2>4
<1>6. /\ p.iccf.keystroke[len + 1] = NUL
      /\ \A i \in 0 .. len : p.iccf.keystroke[i] # NUL
  BY <1>1, <1>2, <1>3, CellIs
<1>7. p.inp.keystroke_len = len + 1 /\ len + 1 \in Cell /\ len + 1 - 1 = len
  BY <1>1, <1>3, CellIs
<1>8. Good(p)
  BY <1>1, <1>3, <1>5, <1>6, <1>7 DEF Good
<1>9. Owned(p)
  BY <1>1, <1>3 DEF Owned, held
<1> QED
  BY <1>7, <1>8, <1>9

\* A new buffer holds the last key of the one it replaces.
LEMMA RestartGood ==
    ASSUME NEW s, Good(s), Owned(s), s.inp.keystroke_len > 0
    PROVE  LET r == restart(s)
           IN  Good(r) /\ Owned(r) /\ Roomy(r)
<1> DEFINE last == s.inp.keystroke_len - 1
           e == reset_keystroke(s)
           r == restart(s)
<1>0. SUFFICES Good(r) /\ Owned(r) /\ Roomy(r)
  OBVIOUS
<1>1. Good(e) /\ Owned(e)
  BY ResetGood
<1>2. r = [e EXCEPT
             !.inp.keystroke_len = 1,
             !.inp.s_keystroke = [e.inp.s_keystroke EXCEPT
                                    ![0] = s.inp.s_keystroke[last], ![1] = NUL],
             !.iccf.keystroke = [e.iccf.keystroke EXCEPT
                                   ![0] = s.iccf.keystroke[last], ![1] = NUL]]
  BY DEF restart
<1>3. /\ s.inp.s_keystroke[last] \in Char
      /\ s.iccf.keystroke[last] \in Char /\ s.iccf.keystroke[last] # NUL
  BY CellIs DEF Good
<1> HIDE DEF e, r
<1>4. /\ r.inp = [keystroke_len |-> 1,
                  s_keystroke |-> [e.inp.s_keystroke EXCEPT
                                     ![0] = s.inp.s_keystroke[last], ![1] = NUL],
                  mcch |-> e.inp.mcch, mcch_pgstate |-> e.inp.mcch_pgstate,
                  cch |-> e.inp.cch]
      /\ r.iccf = [keystroke |-> [e.iccf.keystroke EXCEPT
                                    ![0] = s.iccf.keystroke[last], ![1] = NUL],
                   mcch_list |-> e.iccf.mcch_list]
      /\ r.live = e.live
      /\ r = [inp |-> r.inp, iccf |-> r.iccf, live |-> r.live]
  BY <1>1, <1>2 DEF Good
<1> HIDE DEF last
<1> QED
  BY <1>1, <1>3, <1>4, CellIs DEF Good, Owned, Roomy, Char, held

-----------------------------------------------------------------------------
\* What the candidates and the keys of the buffer have to do with the table.

\* The string of the buffer is its first keystroke_len cells.
LEMMA TextIs ==
    ASSUME NEW s, Good(s)
    PROVE  text(s.iccf.keystroke) = beginning(s.iccf.keystroke, s.inp.keystroke_len)
<1> DEFINE cells == s.iccf.keystroke
           Ends0(n) == cells[n] = NUL /\ \A i \in 0 .. n - 1 : cells[i] # NUL
<1>1. s.inp.keystroke_len \in Cell /\ Ends0(s.inp.keystroke_len)
  BY DEF Good
<1>2. \A n \in Cell : Ends0(n) => n = s.inp.keystroke_len
  <2> SUFFICES ASSUME NEW n \in Cell, Ends0(n) PROVE n = s.inp.keystroke_len
    OBVIOUS
  <2>1. ~(n < s.inp.keystroke_len) /\ ~(s.inp.keystroke_len < n)
    BY <1>1, CellIs
  <2> QED
    BY <2>1, <1>1, CellIs
<1>3. length(cells) = CHOOSE n \in Cell : Ends0(n)
  BY DEF length
<1> HIDE DEF Ends0
<1>4. length(cells) = s.inp.keystroke_len
  BY <1>1, <1>2, <1>3
<1> QED
  BY <1>4 DEF text, beginning

LEMMA LeastElement ==
    ASSUME NEW S \in SUBSET Nat, S # {}
    PROVE  \E n \in S : \A k \in S : n <= k
<1>1. PICK n \in S : \A k \in S : ~(<<k, n>> \in OpToRel(<, Nat))
  BY NatLessThanWellFounded, WFMin
<1>2. \A k \in S : ~(k < n)
  BY <1>1 DEF OpToRel
<1> QED
  BY <1>2

\* What is found for a keystroke of the table is a list.
LEMMA CharsAreList ==
    ASSUME NEW ks, in_table(ks)
    PROVE  \E n \in Nat : \E S : chars_of(ks) \in [1 .. n -> S]
<1> DEFINE N == Cardinality(DOMAIN tab.icidx)
           icode == icode_of(ks)
           first == first_match(icode)
           stops == {i \in first + 1 .. N :
                       i \notin DOMAIN tab.icidx \/ ~same_code(tab, md, i, icode)}
           stop == CHOOSE i \in stops : \A j \in stops : i <= j
<1>1. N \in Nat /\ DOMAIN tab.icidx = 0 .. N - 1 /\ DOMAIN tab.ic1 = 0 .. N - 1
  BY TableAssumption
<1> HIDE DEF N
<1>2. matching(icode) \in SUBSET (0 .. N - 1) /\ matching(icode) # {}
  BY <1>1 DEF matching, in_table
<1>3. first \in 0 .. N - 1
  <2>1. \E i \in matching(icode) : \A j \in matching(icode) : i <= j
    BY <1>1, <1>2, LeastElement
  <2>2. first \in matching(icode)
    BY <2>1 DEF first_match
  <2> QED
    BY <1>2, <2>2
<1> HIDE DEF first
<1>4. N \in stops /\ stops \in SUBSET (first + 1 .. N)
  BY <1>1, <1>3
<1>5. stop \in first + 1 .. N
  <2> HIDE DEF stops
  <2>1. stops \in SUBSET Nat
    BY <1>1, <1>3, <1>4
  <2>2. \E i \in stops : \A j \in stops : i <= j
    BY <1>4, <2>1, LeastElement
  <2>3. stop \in stops
    BY <2>2
  <2> QED
    BY <1>4, <2>3
<1>6. chars_of(ks) = [i \in 1 .. stop - first |-> ccode_to_char(tab.icidx[first + i - 1])]
  BY Zenon DEF chars_of, match_list, first, N
<1> HIDE DEF stop, icode
<1>7. stop - first \in Nat
  BY <1>1, <1>3, <1>5
<1> DEFINE S == {ccode_to_char(tab.icidx[first + i - 1]) : i \in 1 .. stop - first}
<1>8. chars_of(ks) \in [1 .. stop - first -> S]
  BY <1>6
<1> QED
  BY <1>7, <1>8

\* A list that fits on the page is shown as a whole.
LEMMA ShownWhole ==
    ASSUME NEW n \in Nat, NEW S, NEW list \in [1 .. n -> S], Len(list) <= n_selkey
    PROVE  shown(list) = list
<1>1. list \in Seq(S)
  BY SeqDef
<1>2. Len(list) \in Nat /\ list \in [1 .. Len(list) -> S]
  BY <1>1, LenProperties
<1> DEFINE sub == SubSeq(list, 1, Len(list))
<1>3. \A i \in 1 .. Len(list) : list[i] \in S
  BY <1>2
<1>4. /\ sub \in Seq(S)
      /\ Len(sub) = IF 1 <= Len(list) THEN Len(list) - 1 + 1 ELSE 0
      /\ \A i \in 1 .. Len(list) - 1 + 1 : sub[i] = list[1 + i - 1]
  BY <1>2, <1>3, SubSeqProperties
<1> HIDE DEF sub
<1>5. Len(sub) = Len(list) /\ sub \in [1 .. Len(sub) -> S]
  BY <1>2, <1>4, LenProperties
<1>6. \A i \in 1 .. Len(list) : sub[i] = list[i]
  BY <1>2, <1>4
<1>7. sub = list
  BY <1>2, <1>5, <1>6
<1>8. shown(list) = SubSeq(list, 1, IF Len(list) < n_selkey THEN Len(list) ELSE n_selkey)
  BY DEF shown
<1>9. shown(list) = sub
  BY <1>2, <1>8, GenInpAssumption DEF sub, GenInpAssumption
<1> QED
  BY <1>7, <1>9

\* match_keystroke() fills in the candidates of the buffer, whatever was there.
LEMMA MatchShown ==
    ASSUME NEW s, Good(s), Owned(s)
    PROVE  Shown(match_keystroke(s))
<1> DEFINE ks == text(s.iccf.keystroke)
           list == chars_of(ks)
           m == match_keystroke(s)
<1>0. SUFFICES Shown(m)
  OBVIOUS
<1>1. m.iccf.keystroke = s.iccf.keystroke
  BY MatchGood, GenInpAssumption DEF SameBuffer
<1>2. CASE ~in_table(ks)
  <2>1. m = [s EXCEPT !.inp.mcch = << >>]
    BY <1>2 DEF match_keystroke
  <2>2. m.inp.mcch = << >>
    BY <2>1 DEF Good
  <2> QED
    BY <2>2 DEF Shown
<1>3. CASE in_table(ks) /\ Len(list) <= n_selkey
  <2>1. m = [[s EXCEPT !.inp.mcch = shown(list)] EXCEPT !.inp.mcch_pgstate = "ONEPG"]
    BY <1>3 DEF match_keystroke, one_page
  <2> HIDE DEF m, list
  <2>2. m.inp.mcch = shown(list) /\ m.inp.mcch_pgstate = "ONEPG"
    BY <2>1 DEF Good
  <2>3. PICK n \in Nat : \E S : list \in [1 .. n -> S]
    BY <1>3, CharsAreList DEF list
  <2>4. shown(list) = list
    BY <1>3, <2>3, ShownWhole
  <2> QED
    BY <1>1, <1>3, <2>2, <2>4 DEF Shown, list
<1>4. CASE in_table(ks) /\ ~(Len(list) <= n_selkey)
  <2> DEFINE b == [[s EXCEPT !.inp.mcch = shown(list)]
                    EXCEPT !.inp.mcch_pgstate = "BEGIN"]
  <2>1. m = relisted(b, list)
    BY <1>4 DEF match_keystroke
  <2>2. b = [[s EXCEPT !.inp.mcch = shown(list)]
               EXCEPT !.inp.mcch_pgstate = "BEGIN"]
    OBVIOUS
  <2> HIDE DEF m, b, list
  <2>3. /\ b.inp.mcch = shown(list) /\ b.inp.mcch_pgstate = "BEGIN"
        /\ b.iccf = s.iccf
        /\ b = [inp |-> b.inp, iccf |-> b.iccf, live |-> b.live]
    BY <2>2 DEF Good
  <2>4. b.iccf = [keystroke |-> b.iccf.keystroke, mcch_list |-> b.iccf.mcch_list]
    BY <2>3 DEF Good
  <2>5. m.inp = b.inp /\ m.iccf.mcch_list = list
    BY <2>1, <2>3, <2>4 DEF relisted
  <2> QED
    BY <1>1, <1>4, <2>3, <2>5 DEF Shown, list
<1> QED
  BY <1>2, <1>3, <1>4

\* commit_keystroke() changes none of the candidates that match.
LEMMA CommitShown ==
    ASSUME NEW s, Good(s), Owned(s), Shown(s)
    PROVE  Shown(commit_keystroke(s))
<1> DEFINE m == match_keystroke(s)
           c == commit_keystroke(s)
<1>1. Good(m) /\ Shown(m)
  BY MatchGood, MatchShown, GenInpAssumption
<1> HIDE DEF m
<1>2. \E ch : c = [s EXCEPT !.inp.cch = ch] \/ c = [m EXCEPT !.inp.cch = ch]
  BY Zenon DEF commit_keystroke, m
<1> HIDE DEF c
<1>3. PICK t, ch : c = [t EXCEPT !.inp.cch = ch] /\ Good(t) /\ Shown(t)
  BY <1>1, <1>2
<1>4. /\ c.inp.mcch = t.inp.mcch /\ c.inp.mcch_pgstate = t.inp.mcch_pgstate
      /\ c.iccf = t.iccf
  BY <1>3 DEF Good
<1>5. Shown(c)
  BY <1>3, <1>4 DEF Shown
<1> QED
  BY <1>5 DEF c

\* A buffer without candidates and with one key or none.
LEMMA ShortFaithful ==
    ASSUME NEW s, s.inp.mcch = << >>, s.inp.keystroke_len \in 0 .. 1
    PROVE  Faithful(s)
BY DEF Faithful, Shown, Stepwise

\* Whoever leaves the buffer alone leaves its beginnings alone.
LEMMA SameStepwise ==
    ASSUME NEW s, NEW t, SameBuffer(s, t), Stepwise(s)
    PROVE  Stepwise(t)
BY DEF SameBuffer, Stepwise

LEMMA ResetFaithful ==
    ASSUME NEW s, Good(s)
    PROVE  Faithful(reset_keystroke(s))
<1> DEFINE r == reset_keystroke(s)
<1>1. r.inp.mcch = << >> /\ r.inp.keystroke_len = 0
  BY DEF reset_keystroke, Good
<1> HIDE DEF r
<1>2. Faithful(r)
  BY <1>1, ShortFaithful
<1> QED
  BY <1>2 DEF r

LEMMA RestartFaithful ==
    ASSUME NEW s, Good(s), Owned(s)
    PROVE  Faithful(restart(s))
<1> DEFINE last == s.inp.keystroke_len - 1
           e == reset_keystroke(s)
           r == restart(s)
<1>1. Good(e) /\ e.inp.mcch = << >>
  BY ResetGood DEF reset_keystroke, Good
<1>2. r = [e EXCEPT
             !.inp.keystroke_len = 1,
             !.inp.s_keystroke = [e.inp.s_keystroke EXCEPT
                                    ![0] = s.inp.s_keystroke[last], ![1] = NUL],
             !.iccf.keystroke = [e.iccf.keystroke EXCEPT
                                   ![0] = s.iccf.keystroke[last], ![1] = NUL]]
  BY DEF restart
<1> HIDE DEF e, r, last
<1>3. r.inp.mcch = << >> /\ r.inp.keystroke_len = 1
  BY <1>1, <1>2 DEF Good
<1>4. Faithful(r)
  BY <1>3, ShortFaithful
<1> QED
  BY <1>4 DEF r

\* Delete shortens the buffer, whose beginnings stay.
LEMMA DeleteFaithful ==
    ASSUME NEW s, Good(s), Owned(s), Roomy(s), Stepwise(s),
           s.inp.keystroke_len > 0
    PROVE  Faithful(delete_key(s))
<1> DEFINE len == s.inp.keystroke_len
           back == [inp |-> [uncandidated(s.inp) EXCEPT
                              !.keystroke_len = len - 1,
                              !.s_keystroke = [s.inp.s_keystroke EXCEPT
                                                 ![len - 1] = NUL]],
                   iccf |-> [s.iccf EXCEPT
                              !.keystroke = [s.iccf.keystroke EXCEPT
                                               ![len - 1] = NUL]],
                   live |-> s.live]
           d == delete_key(s)
<1>1. /\ back.inp = [keystroke_len |-> len - 1,
                    s_keystroke |-> [s.inp.s_keystroke EXCEPT ![len - 1] = NUL],
                    mcch |-> << >>, mcch_pgstate |-> "ONEPG", cch |-> s.inp.cch]
      /\ back.iccf = [keystroke |-> [s.iccf.keystroke EXCEPT ![len - 1] = NUL],
                     mcch_list |-> s.iccf.mcch_list]
      /\ back.live = s.live
      /\ back = [inp |-> back.inp, iccf |-> back.iccf, live |-> back.live]
  BY DEF Good, uncandidated
<1>2. d = back \/ d = match_keystroke(back)
  BY Zenon DEF delete_key
<1> HIDE DEF back, d
<1>3. Good(back) /\ Owned(back)
  BY <1>1, CellIs DEF Good, Owned, Char, held
<1>4. Stepwise(back)
  <2> SUFFICES ASSUME NEW n \in 2 .. back.inp.keystroke_len
               PROVE  in_table(beginning(back.iccf.keystroke, n))
    BY DEF Stepwise
  <2>1. len \in 0 .. 8 /\ n \in 2 .. len - 1 /\ n \in 2 .. len
    BY <1>1, CellIs DEF Good
  <2>2. \A i \in 1 .. n : back.iccf.keystroke[i - 1] = s.iccf.keystroke[i - 1]
    BY <1>1, <2>1, CellIs DEF Good
  <2>3. beginning(back.iccf.keystroke, n) = beginning(s.iccf.keystroke, n)
    BY <2>2 DEF beginning
  <2> QED
    BY <2>1, <2>3 DEF Stepwise
<1>5. CASE d = back
  <2>1. Shown(back)
    BY <1>1 DEF Shown
  <2>2. Faithful(d)
    BY <1>4, <1>5, <2>1 DEF Faithful
  <2> QED
    BY <2>2 DEF d
<1>6. CASE d = match_keystroke(back)
  <2>1. Shown(d)
    BY <1>3, <1>6, MatchShown
  <2>2. SameBuffer(back, d)
    BY <1>3, <1>6, MatchGood, GenInpAssumption
  <2>3. Faithful(d)
    BY <1>4, <2>1, <2>2, SameStepwise DEF Faithful
  <2> QED
    BY <2>3 DEF d
<1> QED
  BY <1>2, <1>5, <1>6

\* A key that completes a keystroke extends the beginnings by one.
LEMMA PutStepwise ==
    ASSUME NEW s, Good(s), Owned(s), Roomy(s), Stepwise(s), NEW k \in Key,
           in_table(text(put_key(s, k).iccf.keystroke))
    PROVE  Stepwise(put_key(s, k))
<1> DEFINE len == s.inp.keystroke_len
           p == put_key(s, k)
<1>1. Good(p) /\ p.inp.keystroke_len = len + 1
  BY PutGood, GenInpAssumption
<1>2. p.iccf.keystroke = [s.iccf.keystroke EXCEPT ![len] = k, ![len + 1] = NUL]
  BY DEF Good, put_key
<1>3. in_table(text(p.iccf.keystroke))
  OBVIOUS
<1> HIDE DEF p
<1>4. in_table(beginning(p.iccf.keystroke, len + 1))
  BY <1>1, <1>3, TextIs
<1>5. len \in 0 .. 8
  BY CellIs DEF Good
<1>6. Stepwise(p)
  <2> SUFFICES ASSUME NEW n \in 2 .. p.inp.keystroke_len
               PROVE  in_table(beginning(p.iccf.keystroke, n))
    BY DEF Stepwise
  <2>1. n = len + 1 \/ n \in 2 .. len
    BY <1>1, <1>5
  <2>2. CASE n \in 2 .. len
    <3>1. \A i \in 1 .. n : p.iccf.keystroke[i - 1] = s.iccf.keystroke[i - 1]
      BY <1>2, <1>5, <2>2, CellIs DEF Good
    <3>2. beginning(p.iccf.keystroke, n) = beginning(s.iccf.keystroke, n)
      BY <3>1 DEF beginning
    <3> QED
      BY <2>2, <3>2 DEF Stepwise
  <2> QED
    BY <1>4, <2>1, <2>2
<1> QED
  BY <1>6 DEF p

Result == {"IGNORE", "ABSORB", "BACKSPACE"}

\* What each branch of keystroke() ends with.
Ends == \E s, r : /\ becomes(s, r) /\ r \in Result
                 /\ Good(s) /\ Owned(s) /\ Roomy(s) /\ Faithful(s)

\* A character key leaves room: a keystroke of full length is taken out.
LEMMA CharKeyEnds ==
    ASSUME GenInpAssumption, NEW k \in Key, Good(State), Owned(State),
           Roomy(State), Stepwise(State), char_key(k)
    PROVE  Ends
<1> DEFINE s == put_key(State, k)
           m == match_keystroke(s)
           c == commit_keystroke(m)
           len == s.inp.keystroke_len
<1>1. Good(s) /\ Owned(s) /\ len > 0 /\ len \in Nat
  <2>1. Good(s) /\ Owned(s) /\ len = State.inp.keystroke_len + 1
    BY PutGood
  <2> QED
    BY <2>1, CellIs DEF Good
<1>2. Good(m) /\ Owned(m) /\ SameBuffer(s, m)
  BY <1>1, MatchGood
<1>3. Good(c) /\ Owned(c) /\ SameBuffer(m, c)
  BY <1>2, CommitGood
<1>4. \/ becomes(reset_keystroke(s), "IGNORE")
      \/ becomes(restart(m), "IGNORE")
      \/ /\ in_table(text(s.iccf.keystroke))
         /\ \/ len < n_max_keystroke /\ (\E r \in Result : becomes(c, r))
            \/ len = 1 /\ becomes(c, "IGNORE")
      \/ becomes(reset_keystroke(c), "BACKSPACE")
  <2>1. len = 1 \/ len > 1
    BY <1>1
  <2> QED
    BY <2>1 DEF char_key, Result
<1>11. in_table(text(s.iccf.keystroke)) => Stepwise(s)
  BY PutStepwise
<1>12. Shown(m)
  BY <1>1, MatchShown
<1>13. Shown(c)
  BY <1>2, <1>12, CommitShown
<1> HIDE DEF s, m, c
<1>14. in_table(text(s.iccf.keystroke)) => Faithful(c)
  <2>1. SameBuffer(s, c)
    BY <1>2, <1>3 DEF SameBuffer
  <2> QED
    BY <1>11, <1>13, <2>1, SameStepwise DEF Faithful
<1>15. /\ Faithful(reset_keystroke(s)) /\ Faithful(restart(m))
       /\ Faithful(reset_keystroke(c))
  BY <1>1, <1>2, <1>3, ResetFaithful, RestartFaithful
<1>5. Good(reset_keystroke(s)) /\ Owned(reset_keystroke(s)) /\ Roomy(reset_keystroke(s))
  BY <1>1, ResetGood
<1>6. Good(restart(m)) /\ Owned(restart(m)) /\ Roomy(restart(m))
  BY <1>1, <1>2, RestartGood DEF SameBuffer
<1>7. Good(reset_keystroke(c)) /\ Owned(reset_keystroke(c)) /\ Roomy(reset_keystroke(c))
  BY <1>3, ResetGood
<1>8. len < n_max_keystroke \/ len = 1 => Roomy(c)
  BY <1>1, <1>2, <1>3, CellIs DEF SameBuffer, Roomy, GenInpAssumption, INP_CODE_LENGTH
<1> HIDE DEF len
<1> QED
  BY <1>3, <1>4, <1>5, <1>6, <1>7, <1>8, <1>14, <1>15 DEF Ends, Result

\* So does every other key.
LEMMA KeystrokeEnds ==
    ASSUME GenInpAssumption, NEW k \in Key, Good(State), Owned(State),
           Roomy(State), Faithful(State), keystroke(k)
    PROVE  Ends
<1>1. CASE \E r \in Result : becomes(reset_keystroke(State), r)
  BY <1>1, ResetGood, ResetFaithful DEF Ends
<1>2. CASE inp.keystroke_len > 0 /\ becomes(delete_key(State), "ABSORB")
  <2>1. State.inp.keystroke_len > 0
    BY <1>2 DEF State
  <2> QED
    BY <1>2, <2>1, DeleteGood, DeleteFaithful DEF Ends, Result, Faithful
<1>3. CASE becomes(State, "IGNORE")
  BY <1>3 DEF Ends, Result
<1>4. CASE char_key(k)
  BY <1>4, CharKeyEnds DEF Faithful
<1>5. \/ \E r \in Result : becomes(reset_keystroke(State), r)
      \/ inp.keystroke_len > 0 /\ becomes(delete_key(State), "ABSORB")
      \/ becomes(State, "IGNORE")
      \/ char_key(k)
  BY DEF keystroke, Result
<1> QED
  BY <1>1, <1>2, <1>3, <1>4, <1>5

\* Each step of the module preserves the invariant.
LEMMA NextIInv == GenInpAssumption /\ IInv /\ [Next]_vars => IInv'
<1> SUFFICES ASSUME GenInpAssumption, IInv, [Next]_vars PROVE IInv'
  OBVIOUS
<1>1. CASE xim_init
  <2>1. Blank \in [Cell -> Char] /\ Blank[0] = NUL
    BY CellIs DEF Blank, Char
  <2>2. /\ inp' = [keystroke_len |-> 0, s_keystroke |-> Blank, mcch |-> << >>,
                   mcch_pgstate |-> "ONEPG", cch |-> inp.cch]
        /\ iccf' = [keystroke |-> Blank, mcch_list |-> NoList]
    BY <1>1 DEF xim_init, FreshInp, FreshIccf
  <2>3. (Good(State) /\ Roomy(State))'
    BY <2>1, <2>2, CellIs DEF Good, Roomy, State
  <2>5. Faithful(State)'
    BY <2>2, CellIs DEF State, Faithful, Shown, Stepwise
  <2>4. ListsOwned'
    BY <1>1, <2>2 DEF xim_init, IInv, ListsOwned, held
  <2> QED
    BY <1>1, <2>3, <2>4, <2>5 DEF xim_init, IInv
<1>2. CASE xim_end
  <2>1. (Good(State) /\ Roomy(State) /\ Faithful(State))'
    BY <1>2 DEF xim_end, IInv, Good, Roomy, State, Faithful, Shown, Stepwise
  <2>2. ListsOwned'
    BY <1>2 DEF xim_end, IInv, ListsOwned, held
  <2> QED
    BY <1>2, <2>1, <2>2 DEF xim_end, IInv
<1>3. ASSUME NEW k \in Key, keystroke(k) PROVE IInv'
  <2>1. active /\ active' /\ key' \in Char
    BY <1>3 DEF keystroke, IInv, Char
  <2>2. Owned(State)
    BY <2>1 DEF IInv, ListsOwned, Owned, State
  <2>3. PICK s, r : /\ becomes(s, r) /\ r \in Result
                    /\ Good(s) /\ Owned(s) /\ Roomy(s) /\ Faithful(s)
    BY <1>3, <2>2, KeystrokeEnds DEF IInv, Ends
  <2>4. State' = s
    BY <2>3 DEF State, becomes, Good
  <2>5. (Good(State) /\ Roomy(State) /\ Faithful(State))'
    <3>1. Good(State') /\ Roomy(State') /\ Faithful(State')
      BY <2>3, <2>4
    <3> QED
      BY <3>1 DEF Good, Roomy, Cell, Faithful, Shown, Stepwise
  <2>6. ListsOwned'
    BY <2>1, <2>3 DEF ListsOwned, becomes, Owned, held
  <2> QED
    BY <2>1, <2>3, <2>5, <2>6 DEF IInv, becomes, Result
<1>4. CASE UNCHANGED vars
  BY <1>4 DEF vars, IInv, Good, Roomy, State, ListsOwned, held, Faithful, Shown, Stepwise
<1> QED
  BY <1>1, <1>2, <1>3, <1>4 DEF Next

\* The buffer is a string with room for the next key, and the only list that
\* is allocated is held, in every state of gen_inp between two calls.
THEOREM Invariance == Spec => []IInv
<1> USE GenInpAssumption
<1>1. Init => IInv
  BY InitIInv
<1>2. IInv /\ [Next]_vars => IInv'
  BY NextIInv
<1> QED
  BY <1>1, <1>2, PTL DEF Spec

\* The buffers and the result keep their types, and no more than one list of
\* candidates is ever allocated (gen_inp_keystroke).
THEOREM TypeCorrect == Spec => []TypeOK
<1>1. IInv => TypeOK
  BY DEF IInv, TypeOK, Good, State, ListsOwned, held, Char
<1> QED
  BY <1>1, Invariance, PTL

\* The buffer is a string of keystroke_len keys that has still to be completed.
\* So the cells of the keystroke that the next key writes exist for every table
\* whose keystrokes have up to INP_CODE_LENGTH keys, the most that the header
\* allows; those of the preedit, which go one further, exist unless a keystroke
\* does have that many (gen_inp_keystroke, gen_inp.c:698-705).
THEOREM BufferStaysInside ==
    Spec => [](/\ BufferConsistent
               /\ inp.keystroke_len + 1 \in Cell
               /\ n_max_keystroke < INP_CODE_LENGTH => PreeditFits)
<1> DEFINE Room == /\ BufferConsistent
                   /\ inp.keystroke_len + 1 \in Cell
                   /\ n_max_keystroke < INP_CODE_LENGTH => PreeditFits
<1>1. IInv => Room
  <2> SUFFICES ASSUME IInv PROVE Room
    OBVIOUS
  <2>1. /\ inp.keystroke_len \in 0 .. 8
        /\ inp.keystroke_len < n_max_keystroke \/ inp.keystroke_len <= 1
        /\ iccf.keystroke[inp.keystroke_len] = NUL
        /\ \A i \in 0 .. inp.keystroke_len - 1 : iccf.keystroke[i] # NUL
    BY CellIs DEF IInv, Good, Roomy, State
  <2>2. BufferConsistent
    BY <2>1 DEF BufferConsistent
  <2>3. n_max_keystroke \in 1 .. 8
    BY GenInpAssumption DEF GenInpAssumption, INP_CODE_LENGTH
  <2>4. inp.keystroke_len + 1 \in Cell
    BY <2>1, <2>3, CellIs
  <2>5. n_max_keystroke < INP_CODE_LENGTH => PreeditFits
    BY <2>1, <2>3, CellIs DEF PreeditFits, INP_CODE_LENGTH
  <2> QED BY <2>2, <2>4, <2>5
<1> QED
  BY <1>1, Invariance, PTL

\* xim_end() frees the list of candidates that is left, and every earlier
\* list was freed when match_keystroke() or reset_keystroke() replaced it.
THEOREM ListsFreed == Spec => []ListsOwned
<1>1. IInv => ListsOwned
  BY DEF IInv
<1> QED
  BY <1>1, Invariance, PTL

\* What is on the page are the candidates of the keys in the buffer, after any
\* sequence of keys, and the list behind a page that is full holds them all:
\* every branch of gen_inp_keystroke() that changes the buffer matches it anew
\* or clears the candidates (match_keystroke, gen_inp.c).
THEOREM CandidatesAreOfBuffer == Spec => []CandidatesOfBuffer
<1>1. IInv => CandidatesOfBuffer
  BY DEF IInv, Faithful, Shown, State, CandidatesOfBuffer
<1> QED
  BY <1>1, Invariance, PTL

\* Every beginning of the buffer, of two keys or more, is a keystroke of the
\* table, however it was typed and taken back: a key that makes it none starts
\* a new buffer (gen_inp_keystroke).
THEOREM BufferGrowsByKeystrokes == Spec => []ComposedKeyByKey
<1>1. IInv => ComposedKeyByKey
  <2> SUFFICES ASSUME IInv, NEW n \in 2 .. inp.keystroke_len
               PROVE  in_table(SubSeq(text(iccf.keystroke), 1, n))
    BY DEF ComposedKeyByKey
  <2> DEFINE t == text(iccf.keystroke)
             sub == SubSeq(t, 1, n)
  <2>1. State.iccf = iccf /\ State.inp = inp /\ inp.keystroke_len \in 0 .. 8
    BY CellIs DEF IInv, Good, State
  <2>2. t = beginning(iccf.keystroke, inp.keystroke_len)
    BY <2>1, TextIs DEF IInv
  <2>3. \A i \in 1 .. n : t[i] = iccf.keystroke[i - 1] /\ t[i] \in Char
    BY <2>1, <2>2, CellIs DEF beginning, IInv, Good
  <2> HIDE DEF t
  <2>4. /\ sub \in Seq(Char) /\ Len(sub) = n
        /\ \A i \in 1 .. n : sub[i] = t[i]
    <3>1. n \in Int /\ 1 <= n /\ \A i \in 1 .. n : t[i] \in Char
      BY <2>1, <2>3
    <3>2. /\ sub \in Seq(Char) /\ Len(sub) = IF 1 <= n THEN n - 1 + 1 ELSE 0
          /\ \A i \in 1 .. n - 1 + 1 : sub[i] = t[1 + i - 1]
      BY <3>1, SubSeqProperties
    <3> HIDE DEF sub
    <3> QED
      BY <3>1, <3>2
  <2> HIDE DEF sub
  <2>5. sub \in [1 .. n -> Char]
    BY <2>4, LenProperties
  <2>6. sub = beginning(iccf.keystroke, n)
    BY <2>3, <2>4, <2>5 DEF beginning
  <2>7. in_table(beginning(iccf.keystroke, n))
    BY <2>1 DEF IInv, Faithful, Stepwise
  <2> QED
    BY <2>6, <2>7 DEF sub, t
<1> QED
  BY <1>1, Invariance, PTL

-----------------------------------------------------------------------------
(***************************************************************************)
(* zh_hex, and that binding an IMC to it does not disturb gen_inp.         *)
(***************************************************************************)

\* The states of zh_hex between two calls: its record, its digits, and what a
\* full buffer and a commit have left.
HexChar == Digits \cup {NUL}

Digital(h) ==
    /\ h = [active |-> h.active, keystroke_len |-> h.keystroke_len,
            s_keystroke |-> h.s_keystroke, keystroke |-> h.keystroke,
            cch_publish |-> h.cch_publish, ret |-> h.ret]
    /\ h.keystroke_len \in 0 .. KEY_CODE_LEN
    /\ h.s_keystroke \in [0 .. KEY_CODE_LEN -> HexChar]
    /\ h.keystroke \in [0 .. KEY_CODE_LEN -> HexChar]

Alike(h) ==
    /\ \A i \in 0 .. h.keystroke_len - 1 :
          h.s_keystroke[i] = h.keystroke[i] /\ h.s_keystroke[i] \in Digits
    /\ h.s_keystroke[h.keystroke_len] = NUL

FullIsNone(h) ==
    h.keystroke_len = KEY_CODE_LEN => zh_hex_check_char(h.keystroke) = NoChar

CommitShows(h) ==
    h.ret = "COMMIT" => zh_hex_show_keystroke(h.cch_publish)
                           = [i \in 1 .. KEY_CODE_LEN |-> h.keystroke[i - 1]]

HexGood(h) == Digital(h) /\ Alike(h) /\ FullIsNone(h) /\ CommitShows(h)

HexInv == hex.active => HexGood(hex)

\* A digit is found again by its value.
LEMMA NibbleIs ==
    ASSUME NEW c \in Digits
    PROVE  nibble(c) \in 0 .. 15 /\ HexDigit[nibble(c) + 1] = c
<1>1. DOMAIN HexDigit = 1 .. 16
  BY DEF HexDigit
<1>2. c \in Range(HexDigit)
  BY HexAssumption
<1>3. \E i \in DOMAIN HexDigit : HexDigit[i] = c
  BY <1>2 DEF Range
<1> DEFINE i == CHOOSE i \in DOMAIN HexDigit : HexDigit[i] = c
<1>4. i \in DOMAIN HexDigit /\ HexDigit[i] = c
  BY <1>3
<1>5. nibble(c) = i - 1
  BY DEF nibble
<1> HIDE DEF i
<1>6. nibble(c) + 1 = i /\ nibble(c) \in 0 .. 15
  BY <1>1, <1>4, <1>5
<1> QED
  BY <1>4, <1>6

\* The two halves of a byte.
LEMMA Halves ==
    ASSUME NEW a \in 0 .. 15, NEW b \in 0 .. 15
    PROVE  (16 * a + b) \div 16 = a /\ (16 * a + b) % 16 = b
OBVIOUS

\* What zh_hex_show_keystroke() shows for the character of four digits.
LEMMA CodeShown ==
    ASSUME NEW cells, \A i \in 0 .. 3 : cells[i] \in Digits,
           zh_hex_check_char(cells) # NoChar
    PROVE  zh_hex_show_keystroke(zh_hex_check_char(cells))
              = [i \in 1 .. KEY_CODE_LEN |-> cells[i - 1]]
<1> DEFINE c == code(cells)
           n(i) == nibble(cells[i])
           digit(i) == LET byte == c[(i + 1) \div 2]
                       IN  HexDigit[(IF i % 2 = 1 THEN byte \div 16 ELSE byte % 16) + 1]
<1>1. zh_hex_check_char(cells) = c /\ match_encoding(c) /\ c # NoChar
  BY DEF zh_hex_check_char
<1>2. zh_hex_show_keystroke(c) = [i \in 1 .. KEY_CODE_LEN |-> digit(i)]
  BY <1>1 DEF zh_hex_show_keystroke
<1>3. \A i \in 0 .. 3 : n(i) \in 0 .. 15 /\ HexDigit[n(i) + 1] = cells[i]
  BY NibbleIs
<1>4. c[1] = 16 * n(0) + n(1) /\ c[2] = 16 * n(2) + n(3)
  BY DEF code
<1> HIDE DEF c, n
<1>5. n(0) \in 0 .. 15 /\ n(1) \in 0 .. 15 /\ n(2) \in 0 .. 15 /\ n(3) \in 0 .. 15
  BY <1>3
<1>6. /\ c[1] \div 16 = n(0) /\ c[1] % 16 = n(1)
      /\ c[2] \div 16 = n(2) /\ c[2] % 16 = n(3)
  BY <1>4, <1>5, Halves
<1>7. digit(1) = HexDigit[n(0) + 1] /\ digit(2) = HexDigit[n(1) + 1]
  BY <1>6
<1>8. digit(3) = HexDigit[n(2) + 1] /\ digit(4) = HexDigit[n(3) + 1]
  BY <1>6
<1>9. \A i \in 1 .. 4 : digit(i) = cells[i - 1]
  <2> HIDE DEF digit
  <2>1. digit(1) = cells[0] /\ digit(2) = cells[1] /\ digit(3) = cells[2] /\ digit(4) = cells[3]
    BY <1>3, <1>7, <1>8
  <2> QED
    BY <2>1
<1> HIDE DEF digit
<1>10. [i \in 1 .. KEY_CODE_LEN |-> digit(i)] = [i \in 1 .. KEY_CODE_LEN |-> cells[i - 1]]
  BY <1>9 DEF KEY_CODE_LEN
<1> QED
  BY <1>1, <1>2, <1>10

\* The character published by an earlier key and the result of that key are of
\* no account to the digits.
LEMMA SameDigits ==
    ASSUME NEW h, Digital(h), Alike(h), FullIsNone(h), NEW c, NEW r, r # "COMMIT"
    PROVE  HexGood([[h EXCEPT !.cch_publish = c] EXCEPT !.ret = r])
<1> DEFINE f == [h EXCEPT !.cch_publish = c]
           g == [f EXCEPT !.ret = r]
<1>3. h = [active |-> h.active, keystroke_len |-> h.keystroke_len,
           s_keystroke |-> h.s_keystroke, keystroke |-> h.keystroke,
           cch_publish |-> h.cch_publish, ret |-> h.ret]
  BY DEF Digital
<1>4. f = [active |-> h.active, keystroke_len |-> h.keystroke_len,
           s_keystroke |-> h.s_keystroke, keystroke |-> h.keystroke,
           cch_publish |-> c, ret |-> h.ret]
  BY <1>3
<1> HIDE DEF f
<1>1. g = [active |-> h.active, keystroke_len |-> h.keystroke_len,
           s_keystroke |-> h.s_keystroke, keystroke |-> h.keystroke,
           cch_publish |-> c, ret |-> r]
  BY <1>4
<1> HIDE DEF g
<1>2. HexGood(g)
  BY <1>1 DEF HexGood, Digital, Alike, FullIsNone, CommitShows
<1> QED
  BY <1>2 DEF f, g

LEMMA SameKeys ==
    ASSUME NEW h, HexGood(h), NEW r, r # "COMMIT"
    PROVE  HexGood([h EXCEPT !.ret = r])
<1>1. [h EXCEPT !.cch_publish = h.cch_publish] = h
  <2>1. h = [active |-> h.active, keystroke_len |-> h.keystroke_len,
             s_keystroke |-> h.s_keystroke, keystroke |-> h.keystroke,
             cch_publish |-> h.cch_publish, ret |-> h.ret]
    BY DEF HexGood, Digital
  <2> QED
    BY <2>1
<1>2. HexGood([[h EXCEPT !.cch_publish = h.cch_publish] EXCEPT !.ret = r])
  BY SameDigits DEF HexGood
<1> QED
  BY <1>1, <1>2

\* The record after the first assignment of a key that changes the buffer.
LEMMA UnpublishedIs ==
    ASSUME HexGood(hex)
    PROVE  /\ Digital(unpublished) /\ Alike(unpublished) /\ FullIsNone(unpublished)
           /\ unpublished.keystroke_len = hex.keystroke_len
           /\ unpublished.active = hex.active
<1> DEFINE u == unpublished
<1>1. hex = [active |-> hex.active, keystroke_len |-> hex.keystroke_len,
             s_keystroke |-> hex.s_keystroke, keystroke |-> hex.keystroke,
             cch_publish |-> hex.cch_publish, ret |-> hex.ret]
  BY DEF HexGood, Digital
<1>2. u = [active |-> hex.active, keystroke_len |-> hex.keystroke_len,
           s_keystroke |-> hex.s_keystroke, keystroke |-> hex.keystroke,
           cch_publish |-> NoChar, ret |-> hex.ret]
  BY <1>1 DEF unpublished
<1> HIDE DEF u
<1>3. Digital(u)
  BY <1>2 DEF HexGood, Digital
<1>4. Alike(u) /\ FullIsNone(u)
  BY <1>2 DEF HexGood, Alike, FullIsNone
<1> QED
  BY <1>2, <1>3, <1>4 DEF u

\* What is left of the buffer by BackSpace and Escape: s and k are its cells
\* afterwards, n is its length.
LEMMA Shortened ==
    ASSUME NEW h, Digital(h), Alike(h), NEW n \in 0 .. h.keystroke_len, n < KEY_CODE_LEN,
           NEW g, g = [active |-> h.active, keystroke_len |-> n,
                       s_keystroke |-> [h.s_keystroke EXCEPT ![n] = NUL],
                       keystroke |-> [h.keystroke EXCEPT ![n] = NUL],
                       cch_publish |-> h.cch_publish, ret |-> "ABSORB"]
    PROVE  HexGood(g)
<1>1. h.keystroke_len \in 0 .. 4 /\ KEY_CODE_LEN = 4
  BY DEF Digital, KEY_CODE_LEN
<1>2. Digital(g)
  BY <1>1 DEF Digital, HexChar
<1>3. Alike(g)
  BY <1>1 DEF Digital, Alike
<1>4. FullIsNone(g) /\ CommitShows(g)
  BY <1>1 DEF FullIsNone, CommitShows
<1> QED
  BY <1>2, <1>3, <1>4 DEF HexGood

LEMMA BackSpaceGood ==
    ASSUME HexGood(hex), BackSpace
    PROVE  HexGood(hex')
<1> DEFINE h == unpublished
           n == h.keystroke_len - 1
<1>1. Digital(h) /\ Alike(h) /\ h.keystroke_len > 0
  BY UnpublishedIs DEF BackSpace
<1>2. hex' = [taken_back(h) EXCEPT !.ret = "ABSORB"]
  BY DEF BackSpace
<1> HIDE DEF h
<1>3. h = [active |-> h.active, keystroke_len |-> h.keystroke_len,
           s_keystroke |-> h.s_keystroke, keystroke |-> h.keystroke,
           cch_publish |-> h.cch_publish, ret |-> h.ret]
  BY <1>1 DEF Digital
<1>4. taken_back(h) = [active |-> h.active, keystroke_len |-> n,
                       s_keystroke |-> [h.s_keystroke EXCEPT ![n] = NUL],
                       keystroke |-> [h.keystroke EXCEPT ![n] = NUL],
                       cch_publish |-> h.cch_publish, ret |-> h.ret]
  <2>1. taken_back(h)
           = [[[h EXCEPT !.s_keystroke = [h.s_keystroke EXCEPT ![n] = NUL]]
                  EXCEPT !.keystroke = [h.keystroke EXCEPT ![n] = NUL]]
                  EXCEPT !.keystroke_len = n]
    BY <1>3 DEF taken_back
  <2> DEFINE s == [h.s_keystroke EXCEPT ![n] = NUL]
             k == [h.keystroke EXCEPT ![n] = NUL]
  <2>2. taken_back(h) = [[[h EXCEPT !.s_keystroke = s] EXCEPT !.keystroke = k]
                            EXCEPT !.keystroke_len = n]
    BY <2>1
  <2> HIDE DEF s, k, n
  <2>3. taken_back(h) = [active |-> h.active, keystroke_len |-> n,
                         s_keystroke |-> s, keystroke |-> k,
                         cch_publish |-> h.cch_publish, ret |-> h.ret]
    BY <1>3, <2>2
  <2> QED
    BY <2>3 DEF s, k
<1>5. hex' = [active |-> h.active, keystroke_len |-> n,
              s_keystroke |-> [h.s_keystroke EXCEPT ![n] = NUL],
              keystroke |-> [h.keystroke EXCEPT ![n] = NUL],
              cch_publish |-> h.cch_publish, ret |-> "ABSORB"]
  BY <1>2, <1>4
<1>6. n \in 0 .. h.keystroke_len /\ n < KEY_CODE_LEN
  BY <1>1 DEF Digital, KEY_CODE_LEN
<1> HIDE DEF n
<1> QED
  BY <1>1, <1>5, <1>6, Shortened

LEMMA EscapeGood ==
    ASSUME HexGood(hex), Escape
    PROVE  HexGood(hex')
<1> DEFINE h == unpublished
<1>1. Digital(h) /\ Alike(h)
  BY UnpublishedIs
<1>2. hex' = [cut(h) EXCEPT !.ret = "ABSORB"]
  BY DEF Escape
<1> HIDE DEF h
<1>3. h = [active |-> h.active, keystroke_len |-> h.keystroke_len,
           s_keystroke |-> h.s_keystroke, keystroke |-> h.keystroke,
           cch_publish |-> h.cch_publish, ret |-> h.ret]
  BY <1>1 DEF Digital
<1>4. cut(h) = [active |-> h.active, keystroke_len |-> 0,
                s_keystroke |-> emptied(h.s_keystroke),
                keystroke |-> emptied(h.keystroke),
                cch_publish |-> h.cch_publish, ret |-> h.ret]
  <2> DEFINE s == emptied(h.s_keystroke)
             k == emptied(h.keystroke)
  <2>1. cut(h) = [[[h EXCEPT !.s_keystroke = s] EXCEPT !.keystroke = k]
                     EXCEPT !.keystroke_len = 0]
    BY <1>3 DEF cut
  <2> HIDE DEF s, k
  <2>2. cut(h) = [active |-> h.active, keystroke_len |-> 0,
                  s_keystroke |-> s, keystroke |-> k,
                  cch_publish |-> h.cch_publish, ret |-> h.ret]
    BY <1>3, <2>1
  <2> QED
    BY <2>2 DEF s, k
<1>5. hex' = [active |-> h.active, keystroke_len |-> 0,
              s_keystroke |-> [h.s_keystroke EXCEPT ![0] = NUL],
              keystroke |-> [h.keystroke EXCEPT ![0] = NUL],
              cch_publish |-> h.cch_publish, ret |-> "ABSORB"]
  BY <1>2, <1>4 DEF emptied
<1>6. 0 \in 0 .. h.keystroke_len /\ 0 < KEY_CODE_LEN
  BY <1>1 DEF Digital, KEY_CODE_LEN
<1> QED
  BY <1>1, <1>5, <1>6, Shortened

\* A digit in a buffer that is not full.
LEMMA PutDigit ==
    ASSUME NEW h, Digital(h), Alike(h), h.keystroke_len < KEY_CODE_LEN,
           NEW c \in Digits
    PROVE  LET p == put(h, c)
           IN  /\ Digital(p) /\ Alike(p)
               /\ p.keystroke_len = h.keystroke_len + 1
<1> DEFINE p == put(h, c)
           len == h.keystroke_len
<1>0. SUFFICES Digital(p) /\ Alike(p) /\ p.keystroke_len = len + 1
  OBVIOUS
<1>1. h = [active |-> h.active, keystroke_len |-> h.keystroke_len,
           s_keystroke |-> h.s_keystroke, keystroke |-> h.keystroke,
           cch_publish |-> h.cch_publish, ret |-> h.ret]
  BY DEF Digital
<1>2. p = [active |-> h.active, keystroke_len |-> len + 1,
           s_keystroke |-> [h.s_keystroke EXCEPT ![len] = c, ![len + 1] = NUL],
           keystroke |-> [h.keystroke EXCEPT ![len] = c, ![len + 1] = NUL],
           cch_publish |-> h.cch_publish, ret |-> h.ret]
  <2> DEFINE s == [h.s_keystroke EXCEPT ![len] = c, ![len + 1] = NUL]
             k == [h.keystroke EXCEPT ![len] = c, ![len + 1] = NUL]
  <2>1. p = [[[h EXCEPT !.s_keystroke = s] EXCEPT !.keystroke = k]
                     EXCEPT !.keystroke_len = len + 1]
    BY <1>1 DEF put
  <2> HIDE DEF p, s, k, len
  <2>2. p = [active |-> h.active, keystroke_len |-> len + 1,
             s_keystroke |-> s, keystroke |-> k,
             cch_publish |-> h.cch_publish, ret |-> h.ret]
    BY <1>1, <2>1
  <2> QED
    BY <2>2 DEF s, k, len
<1>3. len \in 0 .. 3 /\ KEY_CODE_LEN = 4
  BY DEF Digital, KEY_CODE_LEN
<1> HIDE DEF p
<1>4. Digital(p)
  BY <1>2, <1>3 DEF Digital, HexChar
<1>5. Alike(p)
  BY <1>2, <1>3, HexAssumption DEF Digital, Alike
<1> QED
  BY <1>2, <1>4, <1>5

\* The buffer after the fourth digit, or before it.
LEMMA ComposedGood ==
    ASSUME NEW h, Digital(h), Alike(h)
    PROVE  HexGood(composed(h))
<1> DEFINE c == zh_hex_check_char(h.keystroke)
           g == composed(h)
<1>0. SUFFICES HexGood(g)
  OBVIOUS
<1>1. h = [active |-> h.active, keystroke_len |-> h.keystroke_len,
           s_keystroke |-> h.s_keystroke, keystroke |-> h.keystroke,
           cch_publish |-> h.cch_publish, ret |-> h.ret]
  BY DEF Digital
<1>2. h.keystroke_len \in 0 .. 4 /\ KEY_CODE_LEN = 4 /\ n_ch_encoding * 2 = 4
  BY HexAssumption DEF Digital, KEY_CODE_LEN
<1>3. CASE h.keystroke_len < 4
  <2>1. g = [h EXCEPT !.ret = "ABSORB"]
    BY <1>2, <1>3 DEF composed
  <2>2. g = [active |-> h.active, keystroke_len |-> h.keystroke_len,
             s_keystroke |-> h.s_keystroke, keystroke |-> h.keystroke,
             cch_publish |-> h.cch_publish, ret |-> "ABSORB"]
    BY <1>1, <2>1
  <2> HIDE DEF g
  <2> QED
    BY <1>2, <1>3, <2>2 DEF HexGood, Digital, Alike, FullIsNone, CommitShows
<1>4. CASE h.keystroke_len = 4 /\ c = NoChar
  <2>1. g = [h EXCEPT !.ret = "WRONG"]
    BY <1>2, <1>4 DEF composed
  <2>2. g = [active |-> h.active, keystroke_len |-> h.keystroke_len,
             s_keystroke |-> h.s_keystroke, keystroke |-> h.keystroke,
             cch_publish |-> h.cch_publish, ret |-> "WRONG"]
    BY <1>1, <2>1
  <2> HIDE DEF g
  <2> QED
    BY <1>4, <2>2 DEF HexGood, Digital, Alike, FullIsNone, CommitShows
<1>5. CASE h.keystroke_len = 4 /\ c # NoChar
  <2>1. g = [h EXCEPT !.s_keystroke = emptied(@), !.keystroke_len = 0,
                      !.cch_publish = c, !.ret = "COMMIT"]
    BY <1>2, <1>5 DEF composed
  <2>2. \A i \in 0 .. 3 : h.keystroke[i] \in Digits
    BY <1>5 DEF Alike
  <2>3. zh_hex_show_keystroke(c) = [i \in 1 .. KEY_CODE_LEN |-> h.keystroke[i - 1]]
    BY <1>5, <2>2, CodeShown
  <2> HIDE DEF c
  <2>4. g = [active |-> h.active, keystroke_len |-> 0,
             s_keystroke |-> emptied(h.s_keystroke), keystroke |-> h.keystroke,
             cch_publish |-> c, ret |-> "COMMIT"]
    BY <1>1, <2>1
  <2> HIDE DEF g
  <2>5. Digital(g) /\ Alike(g)
    BY <1>2, <2>4 DEF Digital, Alike, emptied, HexChar
  <2>6. FullIsNone(g) /\ CommitShows(g)
    BY <1>2, <2>3, <2>4 DEF FullIsNone, CommitShows
  <2> QED
    BY <2>5, <2>6 DEF HexGood
<1> QED
  BY <1>2, <1>3, <1>4, <1>5

LEMMA TypedGood ==
    ASSUME HexGood(hex), NEW c \in Digits, Typed(c)
    PROVE  HexGood(hex')
<1>1. CASE hex.keystroke_len >= KEY_CODE_LEN
  <2>1. hex' = [hex EXCEPT !.ret = "WRONG"]
    BY <1>1 DEF Typed
  <2> QED
    BY <2>1, SameKeys
<1>2. CASE ~(hex.keystroke_len >= KEY_CODE_LEN)
  <2>1. hex' = composed(put(unpublished, c))
    BY <1>2 DEF Typed
  <2>2. Digital(unpublished) /\ Alike(unpublished)
    BY UnpublishedIs
  <2>3. unpublished.keystroke_len < KEY_CODE_LEN
    BY <1>2, UnpublishedIs DEF HexGood, Digital, KEY_CODE_LEN
  <2>4. Digital(put(unpublished, c)) /\ Alike(put(unpublished, c))
    BY <2>2, <2>3, PutDigit
  <2> QED
    BY <2>1, <2>4, ComposedGood
<1> QED
  BY <1>1, <1>2

\* The record that zh_hex_xim_init() leaves.
LEMMA FreshIs ==
    ASSUME NEW a
    PROVE  [FreshHex EXCEPT !.active = a]
              = [active |-> a, keystroke_len |-> 0, s_keystroke |-> Cleared,
                 keystroke |-> Cleared, cch_publish |-> NoChar, ret |-> "IGNORE"]
<1>1. PICK b : FreshHex = [active |-> b, keystroke_len |-> 0,
                           s_keystroke |-> Cleared, keystroke |-> Cleared,
                           cch_publish |-> NoChar, ret |-> "IGNORE"]
  BY Zenon DEF FreshHex
<1> QED
  BY <1>1

\* Each step of zh_hex preserves the invariant; those of gen_inp leave it alone.
LEMMA NextHexInv == HexInv /\ [InpNext]_<<vars, hexvars>> => HexInv'
<1> SUFFICES ASSUME HexInv, [InpNext]_<<vars, hexvars>>, hex'.active PROVE HexGood(hex')
  BY DEF HexInv, HexGood, Digital, Alike, FullIsNone, CommitShows
<1>1. CASE zh_hex_xim_init
  <2> DEFINE g == [FreshHex EXCEPT !.active = TRUE]
  <2>1. g = [active |-> TRUE, keystroke_len |-> 0, s_keystroke |-> Cleared,
             keystroke |-> Cleared, cch_publish |-> NoChar, ret |-> "IGNORE"]
    BY FreshIs
  <2>2. Cleared \in [0 .. KEY_CODE_LEN -> HexChar] /\ Cleared[0] = NUL
    BY DEF Cleared, HexChar, KEY_CODE_LEN
  <2> HIDE DEF g
  <2>3. Digital(g) /\ Alike(g)
    BY <2>1, <2>2 DEF Digital, Alike, KEY_CODE_LEN
  <2>4. FullIsNone(g) /\ CommitShows(g)
    BY <2>1 DEF FullIsNone, CommitShows, KEY_CODE_LEN
  <2>5. hex' = g
    BY <1>1 DEF zh_hex_xim_init, g
  <2> QED
    BY <2>3, <2>4, <2>5 DEF HexGood
<1>2. CASE zh_hex_xim_end
  <2>1. hex' = [hex EXCEPT !.active = FALSE] /\ HexGood(hex)
    BY <1>2 DEF zh_hex_xim_end, HexInv
  <2>2. hex'.active = FALSE
    BY <2>1 DEF HexGood, Digital
  <2> QED
    BY <2>2
<1>3. CASE BackSpace
  BY <1>3, BackSpaceGood DEF BackSpace, HexInv
<1>4. CASE Escape
  BY <1>4, EscapeGood DEF Escape, HexInv
<1>5. CASE PastIt
  <2>1. PICK r \in {"SHIFTESC", "IGNORE"} : hex' = [hex EXCEPT !.ret = r]
    BY <1>5 DEF PastIt
  <2>2. HexGood(hex)
    BY <1>5 DEF PastIt, HexInv
  <2> QED
    BY <2>1, <2>2, SameKeys
<1>6. ASSUME NEW c \in Digits, Typed(c) PROVE HexGood(hex')
  BY <1>6, TypedGood DEF Typed, HexInv
<1>7. CASE UNCHANGED hex
  BY <1>7 DEF HexInv
<1> QED
  BY <1>1, <1>2, <1>3, <1>4, <1>5, <1>6, <1>7 DEF InpNext, HexNext, hexvars

\* The preedit of zh_hex has the digits of the buffer and no more, a full
\* buffer is the code of no character, and the keystroke recalled for the
\* character just committed is the one that was typed: for every encoding of
\* two bytes (zh_hex_keystroke, zh_hex_show_keystroke).
THEOREM HexShownAsTyped == InpSpec => []HexAsShown
<1>1. InpInit => HexInv
  BY DEF InpInit, HexInv, FreshHex
<1>2. HexInv => HexAsShown
  BY HexAssumption DEF HexInv, HexGood, Digital, Alike, FullIsNone, CommitShows, HexAsShown
<1> QED
  BY <1>1, <1>2, NextHexInv, PTL DEF InpSpec

\* An IMC that may be bound to zh_hex as well runs gen_inp as if it were
\* alone, so that what is proved of gen_inp holds there.
THEOREM GenInpUndisturbed == InpSpec => Spec
<1>1. InpInit => Init
  BY DEF InpInit
<1>2. [InpNext]_<<vars, hexvars>> => [Next]_vars
  BY DEF InpNext, HexNext
<1> QED
  BY <1>1, <1>2, PTL DEF InpSpec, Spec
=============================================================================
