--------------------------- MODULE KeyboardProofs ---------------------------
(***************************************************************************)
(* TerminalUi::sanitize_input undoes what cursor and function keys put     *)
(* into a line: for lines of every length, the client works on the plain   *)
(* keys the user typed.  The loop looks at characters, the keys are known  *)
(* only to the user; the proof carries the division of the line into keys  *)
(* along.                                                                  *)
(***************************************************************************)
EXTENDS SeatInputProofs

(* A reading of a line: the set K of the positions at which a key begins,  *)
(* the line's end included, and for each of them the number g[k] of plain  *)
(* keys typed in front of it.  ln is the line, ty its plain keys.          *)

\* The characters k to e of ln are what a cursor or function key sends.
Sequence(ln, k, e) ==
  /\ ln[k] = ESC
  /\ \/ ln[k + 1] = "O" /\ e = k + 2
     \/ /\ ln[k + 1] = "["
        /\ ~IsParameter(ln[e])
        /\ \A j \in (k + 2)..(e - 1) : IsParameter(ln[j])

\* A key begins at k and the next one right behind it.
KeyAt(ln, ty, K, g, k) ==
  \/ /\ ln[k] \notin {ESC, CR}
     /\ k + 1 \in K /\ g[k + 1] = g[k] + 1
     /\ ty[g[k] + 1] = ln[k]
  \/ ln[k] = CR /\ k + 1 \in K /\ g[k + 1] = g[k]
  \/ \E e \in (k + 2)..Len(ln) : Sequence(ln, k, e) /\ e + 1 \in K /\ g[e + 1] = g[k]

Reading(ln, ty, K, g) ==
  /\ K \subseteq 1..(Len(ln) + 1)
  /\ g \in [1..(Len(ln) + 1) -> 0..Len(ty)]
  /\ 1 \in K /\ g[1] = 0
  /\ Len(ln) + 1 \in K /\ g[Len(ln) + 1] = Len(ty)
  /\ \A k \in K : k <= Len(ln) => KeyAt(ln, ty, K, g, k)

\* The scan stands where a key begins and has kept the plain keys before it.
Followed(K, g) ==
  /\ Reading(line, typed, K, g)
  /\ pc = "scan" =>
       /\ i \in K /\ Len(result) = g[i]
       /\ \A j \in 1..g[i] : result[j] = typed[j]

\* Unless the Escape key itself was pressed: the line is made of keys until the
\* first call of sanitize_input has run, and afterwards of the plain ones.
KeysInv ==
  /\ pc = "parse" => pass = "again"
  /\ ~escape =>
       /\ pc \in {"read", "prompt"} \/ (pc = "scan" /\ pass # "again") =>
            \E K, g : Followed(K, g)
       /\ (pc = "scan" /\ pass = "again") \/ pc = "parse" => once = Trim(typed)
       /\ pc = "send" /\ pass = "seat" => seat = ToUpper(Trim(typed))

-----------------------------------------------------------------------------
(* Readings.                                                               *)

\* An empty line is read as no key at all.
LEMMA EmptyReading == \E K, g : Reading(<<>>, <<>>, K, g)
<1> DEFINE K == {1}
           g == [k \in 1..1 |-> 0]
<1>1. Len(<<>>) = 0
  OBVIOUS
<1>2. Reading(<<>>, <<>>, K, g)
  BY <1>1 DEF Reading
<1> QED
  BY <1>2

\* A key appended to the line extends its reading by one key.
LEMMA ReadingExtends ==
  ASSUME NEW ln \in Seq(Chars), NEW ty \in Seq(Visible), NEW K, NEW g, Reading(ln, ty, K, g),
         NEW key \in Seq(Chars), key # <<>>, NEW plain \in Seq(Visible),
         \/ Len(key) = 1 /\ key[1] \notin {ESC, CR} /\ plain = key
         \/ Len(key) = 1 /\ key[1] = CR /\ plain = <<>>
         \/ Len(key) >= 3 /\ Sequence(key, 1, Len(key)) /\ plain = <<>>
  PROVE  \E K2, g2 : Reading(ln \o key, ty \o plain, K2, g2)
<1> DEFINE n == Len(ln)
           m == Len(key)
           ln2 == ln \o key
           ty2 == ty \o plain
           K2 == K \cup {n + m + 1}
           g2 == [k \in 1..(n + m + 1) |->
                    IF k <= n + 1 THEN g[k] ELSE Len(ty2)]
<1>0. n \in Nat /\ m \in Nat /\ m >= 1 /\ Len(ty) \in Nat /\ Len(plain) \in Nat
  OBVIOUS
<1>1. /\ ln2 \in Seq(Chars) /\ Len(ln2) = n + m
      /\ \A k \in 1..n : ln2[k] = ln[k]
      /\ \A k \in 1..m : ln2[n + k] = key[k]
  OBVIOUS
<1>2. /\ Len(ty2) = Len(ty) + Len(plain)
      /\ \A k \in 1..Len(ty) : ty2[k] = ty[k]
      /\ \A k \in 1..Len(plain) : ty2[Len(ty) + k] = plain[k]
  OBVIOUS
<1>3. /\ K \subseteq 1..(n + 1) /\ g \in [1..(n + 1) -> 0..Len(ty)]
      /\ 1 \in K /\ g[1] = 0 /\ n + 1 \in K /\ g[n + 1] = Len(ty)
      /\ \A k \in K : k <= n => KeyAt(ln, ty, K, g, k)
  BY DEF Reading
<1> HIDE DEF n, m, ln2, ty2
<1>4. /\ \A k \in 1..(n + 1) : g2[k] = g[k]
      /\ g2[n + m + 1] = Len(ty2)
  BY <1>0
<1>5. K2 \subseteq 1..(n + m + 1)
  BY <1>0, <1>3
<1>6. g2 \in [1..(n + m + 1) -> 0..Len(ty2)]
  <2>1. \A k \in 1..(n + 1) : g[k] \in 0..Len(ty2)
    BY <1>0, <1>2, <1>3
  <2> QED
    BY <1>0, <1>2, <2>1
<1> HIDE DEF g2
\* The keys that were there.
<1>7. ASSUME NEW k \in K, k <= n PROVE KeyAt(ln2, ty2, K2, g2, k)
  <2>0. k \in 1..n /\ k + 1 \in 1..(n + 1) /\ ln2[k] = ln[k]
    <3>1. k \in 1..(n + 1)
      BY <1>3
    <3>2. k \in 1..n /\ k + 1 \in 1..(n + 1)
      BY <1>0, <1>7, <3>1
    <3> QED
      BY <1>1, <3>2
  <2>1. CASE /\ ln[k] \notin {ESC, CR}
             /\ k + 1 \in K /\ g[k + 1] = g[k] + 1
             /\ ty[g[k] + 1] = ln[k]
    <3>1. g[k] + 1 \in 1..Len(ty)
      BY <1>0, <1>3, <2>0, <2>1
    <3>2. ty2[g[k] + 1] = ty[g[k] + 1]
      BY <1>2, <3>1
    <3>3. g2[k] = g[k] /\ g2[k + 1] = g[k + 1]
      BY <1>0, <1>4, <2>0
    <3> QED
      BY <2>0, <2>1, <3>2, <3>3 DEF KeyAt
  <2>2. CASE ln[k] = CR /\ k + 1 \in K /\ g[k + 1] = g[k]
    <3>1. g2[k] = g[k] /\ g2[k + 1] = g[k + 1]
      BY <1>0, <1>4, <2>0
    <3> QED
      BY <2>0, <2>2, <3>1 DEF KeyAt
  <2>3. ASSUME NEW e \in (k + 2)..n, Sequence(ln, k, e), e + 1 \in K, g[e + 1] = g[k]
        PROVE  KeyAt(ln2, ty2, K2, g2, k)
    <3>1. k \in Nat /\ e \in 1..n /\ k + 1 \in 1..n /\ \A j \in (k + 2)..(e - 1) : j \in 1..n
      BY <1>0, <2>0, <2>3
    <3>2. Sequence(ln2, k, e)
      <4>1. /\ ln2[k + 1] = ln[k + 1] /\ ln2[e] = ln[e]
            /\ \A j \in (k + 2)..(e - 1) : ln2[j] = ln[j]
        BY <1>1, <3>1
      <4> QED
        BY <2>0, <2>3, <4>1 DEF Sequence, IsParameter
    <3>3. g2[k] = g[k] /\ g2[e + 1] = g[e + 1]
      <4>1. k \in 1..(n + 1) /\ e + 1 \in 1..(n + 1)
        BY <1>0, <2>0, <3>1
      <4> QED
        BY <1>4, <4>1
    <3>4. e \in (k + 2)..Len(ln2)
      BY <1>0, <1>1, <2>0, <2>3
    <3> QED
      BY <2>3, <3>2, <3>3, <3>4 DEF KeyAt
  <2>4. KeyAt(ln, ty, K, g, k)
    BY <1>3, <1>7
  <2> QED
    BY <2>1, <2>2, <2>3, <2>4 DEF KeyAt, n
\* The new key.
<1>8. KeyAt(ln2, ty2, K2, g2, n + 1)
  <2>0. g2[n + 1] = Len(ty) /\ n + 1 \in 1..(n + 1)
    BY <1>0, <1>3, <1>4
  <2>1. ln2[n + 1] = key[1]
    BY <1>0, <1>1
  <2>2. CASE m = 1 /\ key[1] \notin {ESC, CR} /\ plain = key
    <3>1. Len(plain) = 1 /\ Len(ty2) = Len(ty) + 1 /\ ty2[Len(ty) + 1] = key[1]
      <4>1. Len(plain) = 1 /\ plain[1] = key[1]
        BY <2>2 DEF m
      <4> QED
        BY <1>2, <4>1
    <3>2. g2[n + 1 + 1] = Len(ty) + 1 /\ n + 1 + 1 \in K2
      BY <1>0, <1>4, <2>2, <3>1
    <3> QED
      BY <2>0, <2>1, <2>2, <3>1, <3>2 DEF KeyAt
  <2>3. CASE m = 1 /\ key[1] = CR /\ plain = <<>>
    <3>1. Len(ty2) = Len(ty)
      BY <1>0, <1>2, <2>3
    <3>2. g2[n + 1 + 1] = Len(ty) /\ n + 1 + 1 \in K2
      BY <1>0, <1>4, <2>3, <3>1
    <3> QED
      BY <2>0, <2>1, <2>3, <3>2 DEF KeyAt
  <2>4. CASE m >= 3 /\ Sequence(key, 1, m) /\ plain = <<>>
    <3>1. Len(ty2) = Len(ty)
      BY <1>0, <1>2, <2>4
    <3>2. n + m \in (n + 1 + 2)..Len(ln2)
      BY <1>0, <1>1, <2>4
    <3>3. g2[n + m + 1] = Len(ty) /\ n + m + 1 \in K2
      BY <1>4, <3>1
    <3>4. Sequence(ln2, n + 1, n + m)
      <4>1. ln2[n + 1 + 1] = key[1 + 1] /\ ln2[n + m] = key[m]
        BY <1>0, <1>1, <2>4
      <4>2. \A j \in (n + 1 + 2)..(n + m - 1) : ln2[j] = key[j - n] /\ j - n \in (1 + 2)..(m - 1)
        <5> TAKE j \in (n + 1 + 2)..(n + m - 1)
        <5>1. j - n \in 1..m /\ n + (j - n) = j /\ j - n \in (1 + 2)..(m - 1)
          BY <1>0, <2>4
        <5> QED
          BY <1>1, <5>1
      <4>3. key[1] = ESC
        BY <2>4 DEF Sequence
      <4>4. CASE key[1 + 1] = "O" /\ m = 1 + 2
        BY <1>0, <2>1, <4>1, <4>3, <4>4 DEF Sequence
      <4>5. CASE /\ key[1 + 1] = "[" /\ ~IsParameter(key[m])
                 /\ \A j \in (1 + 2)..(m - 1) : IsParameter(key[j])
        <5>1. \A j \in (n + 1 + 2)..(n + m - 1) : IsParameter(ln2[j])
          BY <4>2, <4>5 DEF IsParameter
        <5>2. ~IsParameter(ln2[n + m])
          BY <4>1, <4>5 DEF IsParameter
        <5>3. ln2[n + 1] = ESC /\ ln2[n + 1 + 1] = "["
          BY <2>1, <4>1, <4>3, <4>5
        <5>4. PICK p, q : p = n + 1 /\ q = n + m
          OBVIOUS
        <5>5. /\ ln2[p] = ESC /\ ln2[p + 1] = "[" /\ ~IsParameter(ln2[q])
              /\ \A j \in (p + 2)..(q - 1) : IsParameter(ln2[j])
          BY <1>0, <5>1, <5>2, <5>3, <5>4 DEF IsParameter
        <5>6. Sequence(ln2, p, q)
          BY <5>5, Zenon DEF Sequence
        <5> QED
          BY <5>4, <5>6, Zenon
      <4> QED
        BY <2>4, <4>4, <4>5 DEF Sequence
    <3> QED
      BY <2>0, <3>2, <3>3, <3>4 DEF KeyAt
  <2> QED
    BY <2>2, <2>3, <2>4 DEF m
<1>9. Reading(ln2, ty2, K2, g2)
  <2>1. \A k \in K2 : k <= n + m => k \in K /\ (k <= n \/ k = n + 1)
    BY <1>0, <1>3
  <2>2. 1 \in K2 /\ g2[1] = 0 /\ n + m + 1 \in K2
    BY <1>0, <1>3, <1>4
  <2> HIDE DEF K2
  <2> QED
    BY <1>1, <1>4, <1>5, <1>6, <1>7, <1>8, <2>1, <2>2 DEF Reading
<1> QED
  BY <1>9 DEF ln2, ty2

\* The keys the model's user has, as ReadingExtends knows them.
LEMMA KeyShapes ==
  ASSUME NEW key \in PlainKeys \cup CursorKeys \cup {<<CR>>}
  PROVE  /\ key \in Seq(Chars) /\ key # <<>>
         /\ key \in PlainKeys => key \in Seq(Visible) /\ Len(key) = 1 /\ key[1] \notin {ESC, CR}
         /\ key \in CursorKeys => Len(key) >= 3 /\ Sequence(key, 1, Len(key))
<1>1. key \in Seq(Chars) /\ (key \in PlainKeys => key \in Seq(Visible))
  BY KeysAreChars
<1>2. key # <<>>
  BY DEF PlainKeys, CursorKeys
<1>3. ASSUME key \in PlainKeys PROVE Len(key) = 1 /\ key[1] \notin {ESC, CR}
  BY <1>3 DEF PlainKeys, ESC, CR, SP, NUL
<1>4. ASSUME key \in CursorKeys PROVE Len(key) >= 3 /\ Sequence(key, 1, Len(key))
  <2>1. CASE key = <<ESC, "[", "A">>
    BY <2>1 DEF Sequence, IsParameter, Digits, SP
  <2>2. CASE key = <<ESC, "[", "2", "A">>
    <3>1. Len(key) = 4 /\ key[1] = ESC /\ key[2] = "[" /\ key[3] = "2" /\ key[4] = "A"
      BY <2>2
    <3>2. \A j \in 3..3 : j = 3
      OBVIOUS
    <3>3. IsParameter("2") /\ ~IsParameter("A")
      BY DEF IsParameter, Digits, SP
    <3> QED
      BY <3>1, <3>2, <3>3 DEF Sequence
  <2>3. CASE key = <<ESC, "O", "A">>
    BY <2>3 DEF Sequence
  <2> QED
    BY <1>4, <2>1, <2>2, <2>3 DEF CursorKeys
<1> QED
  BY <1>1, <1>2, <1>3, <1>4

\* sanitize_input ends its skip where the key ends.
LEMMA SkipsOneKey ==
  ASSUME line \in Seq(Chars), NEW k \in 1..Len(line), NEW e \in (k + 2)..Len(line),
         Sequence(line, k, e)
  PROVE  AfterEscape(k + 1) = e + 1
<1>0. Len(line) \in Nat /\ k \in Nat /\ e \in Nat /\ k + 1 <= Len(line)
  OBVIOUS
<1>1. CASE line[k + 1] = "O" /\ e = k + 2
  <2>1. line[k + 1] # "["
    BY <1>1
  <2> QED
    BY <1>0, <1>1, <2>1 DEF AfterEscape
<1>2. CASE /\ line[k + 1] = "[" /\ ~IsParameter(line[e])
           /\ \A j \in (k + 2)..(e - 1) : IsParameter(line[j])
  <2> DEFINE A == {j \in (k + 1 + 1)..(Len(line) + 1) : j = Len(line) + 1 \/ ~IsParameter(line[j])}
  <2>1. A \in SUBSET Nat /\ e \in A
    BY <1>0, <1>2
  <2>2. \A j \in A : e <= j
    <3> SUFFICES ASSUME NEW j \in A, j < e PROVE FALSE
      BY <1>0
    <3>1. j \in (k + 2)..(e - 1) /\ j # Len(line) + 1
      BY <1>0
    <3> QED
      BY <1>2, <3>1
  <2>3. AfterParameters(k + 1 + 1) = e
    BY <2>1, <2>2, LeastIs DEF AfterParameters
  <2>4. Smaller(e, Len(line)) = e
    BY <1>0 DEF Smaller
  <2> QED
    BY <1>0, <1>2, <2>3, <2>4 DEF AfterEscape
<1> QED
  BY <1>1, <1>2 DEF Sequence

-----------------------------------------------------------------------------
(* The steps.                                                              *)

\* A new prompt has an empty line.
LEMMA NewLineKeys ==
  ASSUME NextLine, pc' \in {"read", "prompt"}
  PROVE  KeysInv'
<1>1. PICK K, g : Reading(<<>>, <<>>, K, g)
  BY EmptyReading
<1>2. line' = <<>> /\ typed' = <<>> /\ pc' # "scan" /\ pc' # "parse" /\ pc' # "send"
  BY DEF NextLine
<1>3. Followed(K, g)'
  BY <1>1, <1>2 DEF Followed
<1> QED
  BY <1>2, <1>3 DEF KeysInv

\* The user's keys extend the reading; when the line is complete, the scan
\* begins where the first key does.
LEMMA KeyboardKeys ==
  ASSUME Inv, KeysInv, NEW key \in PlainKeys \cup CursorKeys \cup {<<CR>>, <<ESC>>},
         Press(key) \/ Enter
  PROVE  KeysInv'
<1>0. line \in Seq(Chars) /\ typed \in Seq(Visible)
  BY DEF Inv, TypeOK
<1>1. ASSUME Press(key), ~escape' PROVE KeysInv'
  <2>1. ~escape /\ key # <<ESC>> /\ pc \in {"read", "prompt"} /\ pc' = pc
    BY <1>1, Zenon DEF Press
  <2>2. PICK K, g : Reading(line, typed, K, g)
    BY <2>1 DEF KeysInv, Followed
  <2>3. key \in PlainKeys \cup CursorKeys \cup {<<CR>>}
    BY <2>1
  <2> DEFINE plain == IF key \in PlainKeys THEN key ELSE <<>>
  <2>4. plain \in Seq(Visible)
    BY <2>3, KeyShapes
  <2>5. line' = line \o key /\ typed' = typed \o plain
    BY <1>0, <1>1 DEF Press
  <2>6. \/ Len(key) = 1 /\ key[1] \notin {ESC, CR} /\ plain = key
        \/ Len(key) = 1 /\ key[1] = CR /\ plain = <<>>
        \/ Len(key) >= 3 /\ Sequence(key, 1, Len(key)) /\ plain = <<>>
    <3>1. CASE key \in PlainKeys
      BY <2>3, <3>1, KeyShapes
    <3>2. CASE key \notin PlainKeys /\ key = <<CR>>
      BY <3>2
    <3>3. CASE key \notin PlainKeys /\ key \in CursorKeys
      BY <2>3, <3>3, KeyShapes
    <3> QED
      BY <2>3, <3>1, <3>2, <3>3
  <2>7. key \in Seq(Chars) /\ key # <<>>
    BY <2>3, KeyShapes
  <2> HIDE DEF plain
  <2>8. PICK K2, g2 : Reading(line', typed', K2, g2)
    BY <1>0, <2>2, <2>4, <2>5, <2>6, <2>7, ReadingExtends
  <2>9. Followed(K2, g2)'
    BY <2>1, <2>8 DEF Followed
  <2> QED
    BY <2>1, <2>9 DEF KeysInv
<1>2. CASE Enter
  <2>0. /\ pc \in {"read", "prompt"} /\ pc' = "scan" /\ pass' \in {"line", "seat"}
        /\ i' = 1 /\ result' = <<>> /\ UNCHANGED <<line, typed, escape>>
    BY <1>2 DEF Enter, keyboard
  <2>1. ASSUME ~escape PROVE \E K, g : Followed(K, g)'
    <3>1. PICK K, g : Reading(line, typed, K, g)
      BY <2>0, <2>1 DEF KeysInv, Followed
    <3>2. 1 \in K /\ g[1] = 0
      BY <3>1 DEF Reading
    <3>3. Followed(K, g)'
      BY <2>0, <3>1, <3>2 DEF Followed
    <3> QED
      BY <3>3
  <2> QED
    BY <2>0, <2>1 DEF KeysInv
\* After the Escape key only the first part is left to show.
<1>3. ASSUME Press(key), escape' PROVE KeysInv'
  <2>1. pc' # "parse"
    BY <1>3 DEF Press
  <2> QED
    BY <1>3, <2>1 DEF KeysInv
<1> QED
  BY <1>1, <1>2, <1>3

\* One round of the loop takes one key.
LEMMA ScanKeys ==
  ASSUME Inv, KeysInv, SkipEscape \/ SkipReturn \/ Keep
  PROVE  KeysInv'
<1>0. /\ pc = "scan" /\ i \in 1..Len(line) /\ line \in Seq(Chars) /\ Len(line) \in Nat
      /\ typed \in Seq(Visible) /\ result \in Seq(Visible)
      /\ UNCHANGED <<pc, pass, line, typed, escape, once>>
  BY DEF Inv, TypeOK, SkipEscape, SkipReturn, Keep, Scanning, keyboard
<1>1. CASE escape \/ pass = "again"
  BY <1>0, <1>1 DEF KeysInv
<1>2. CASE ~escape /\ pass # "again"
  <2>1. PICK K, g : Followed(K, g)
    BY <1>0, <1>2 DEF KeysInv
  <2>2. /\ Reading(line, typed, K, g) /\ i \in K /\ Len(result) = g[i]
        /\ \A j \in 1..g[i] : result[j] = typed[j]
    BY <1>0, <2>1 DEF Followed
  <2>3. KeyAt(line, typed, K, g, i) /\ g[i] \in 0..Len(typed)
    BY <1>0, <2>2 DEF Reading
  <2>4. ASSUME i' \in K, Len(result') = g[i'], \A j \in 1..g[i'] : result'[j] = typed[j]
        PROVE  KeysInv'
    <3>1. Followed(K, g)'
      BY <1>0, <2>2, <2>4 DEF Followed
    <3> QED
      BY <1>0, <1>2, <3>1 DEF KeysInv
  <2>5. CASE SkipEscape
    <3>1. line[i] = ESC /\ i' = AfterEscape(i + 1) /\ result' = result
      BY <2>5 DEF SkipEscape, Scanning
    <3>2. PICK e \in (i + 2)..Len(line) : Sequence(line, i, e) /\ e + 1 \in K /\ g[e + 1] = g[i]
      BY <2>3, <3>1 DEF KeyAt, ESC, CR
    <3>3. i' = e + 1
      BY <1>0, <3>1, <3>2, SkipsOneKey
    <3> QED
      BY <2>2, <2>4, <3>1, <3>2, <3>3
  <2>6. CASE SkipReturn
    <3>1. line[i] = CR /\ i' = i + 1 /\ result' = result
      BY <2>6 DEF SkipReturn, Scanning
    <3>2. i + 1 \in K /\ g[i + 1] = g[i]
      BY <2>3, <3>1 DEF KeyAt, Sequence, ESC, CR
    <3> QED
      BY <2>2, <2>4, <3>1, <3>2
  <2>7. CASE Keep
    <3>1. line[i] \notin {ESC, CR} /\ i' = i + 1 /\ result' = Append(result, line[i])
      BY <2>7 DEF Keep
    <3>2. i + 1 \in K /\ g[i + 1] = g[i] + 1 /\ typed[g[i] + 1] = line[i]
      BY <2>3, <3>1 DEF KeyAt, Sequence
    <3>3. /\ Len(result') = Len(result) + 1
          /\ \A j \in 1..Len(result) : result'[j] = result[j]
          /\ result'[Len(result) + 1] = line[i]
      BY <1>0, <3>1
    <3>4. Len(result) \in Nat /\ \A j \in 1..(Len(result) + 1) : j \in 1..Len(result) \/ j = Len(result) + 1
      BY <1>0
    <3> QED
      BY <2>2, <2>4, <3>1, <3>2, <3>3, <3>4
  <2> QED
    BY <2>5, <2>6, <2>7
<1> QED
  BY <1>1, <1>2

\* At the end of a line of keys the scan has kept the plain keys, all of them.
LEMMA AllKept ==
  ASSUME Inv, KeysInv, ~escape, pc = "scan", pass # "again", i > Len(line)
  PROVE  result = typed
<1>0. /\ i \in Nat /\ line \in Seq(Chars) /\ Len(line) \in Nat
      /\ typed \in Seq(Visible) /\ result \in Seq(Visible)
  BY DEF Inv, TypeOK
<1>1. PICK K, g : Followed(K, g)
  BY DEF KeysInv
<1>2. i \in 1..(Len(line) + 1) /\ g[Len(line) + 1] = Len(typed)
  BY <1>1 DEF Followed, Reading
<1>3. i = Len(line) + 1
  BY <1>0, <1>2
<1>4. Len(result) = Len(typed) /\ \A j \in 1..Len(typed) : result[j] = typed[j]
  BY <1>1, <1>2, <1>3 DEF Followed
<1> QED
  BY <1>0, <1>4

\* The three callers go on with the plain keys.
LEMMA SanitizedKeys ==
  ASSUME Inv, KeysInv, LineSanitized \/ CommandSanitized \/ SeatSanitized
  PROVE  KeysInv'
<1>1. CASE LineSanitized
  <2>1. CASE Trim(result) = <<>>
    BY <1>1, <2>1, NewLineKeys DEF LineSanitized
  <2>2. CASE Trim(result) # <<>>
    <3>1. /\ pc' = "scan" /\ pass' = "again" /\ once' = Trim(result)
          /\ UNCHANGED <<typed, escape>>
      BY <1>1, <2>2 DEF LineSanitized
    <3>2. ~escape => result = typed
      BY <1>1, AllKept DEF LineSanitized
    <3> QED
      BY <3>1, <3>2 DEF KeysInv
  <2> QED
    BY <2>1, <2>2
<1>2. CASE CommandSanitized
  BY <1>2 DEF CommandSanitized, keyboard, KeysInv
<1>3. CASE SeatSanitized
  <2>1. /\ pc' = "send" /\ seat' = ToUpper(Trim(result)) /\ UNCHANGED <<typed, escape>>
    BY <1>3 DEF SeatSanitized, keyboard
  <2>2. ~escape => result = typed
    BY <1>3, AllKept DEF SeatSanitized
  <2> QED
    BY <2>1, <2>2 DEF KeysInv
<1> QED
  BY <1>1, <1>2, <1>3

\* The division of the line into keys is never lost.
LEMMA KeysStep == Inv /\ KeysInv /\ [Next]_vars => KeysInv'
<1> SUFFICES ASSUME Inv, KeysInv, [Next]_vars PROVE KeysInv'
  OBVIOUS
<1>1. CASE \E key \in PlainKeys \cup CursorKeys \cup {<<CR>>, <<ESC>>} : Press(key)
  BY <1>1, KeyboardKeys
<1>2. CASE Enter
  BY <1>2, KeyboardKeys, <<CR>> \in {<<CR>>, <<ESC>>}
<1>3. CASE SkipEscape \/ SkipReturn \/ Keep
  BY <1>3, ScanKeys
<1>4. CASE LineSanitized \/ CommandSanitized \/ SeatSanitized
  BY <1>4, SanitizedKeys
<1>5. CASE OtherCommand \/ SeatPrompt \/ Answer
  BY <1>5, NewLineKeys DEF OtherCommand, SeatPrompt, Answer
\* The seat of a command line, and the message, are not about keys any more.
<1>6. CASE SeatCommand
  BY <1>6 DEF SeatCommand, scan, KeysInv
<1>7. CASE send_request \/ Serve
  BY <1>7 DEF send_request, Serve, KeysInv
<1>8. CASE UNCHANGED vars
  BY <1>8 DEF vars, KeysInv, Followed
<1> QED
  BY <1>1, <1>2, <1>3, <1>4, <1>5, <1>6, <1>7, <1>8 DEF Next, Program

\* Every line has a reading, from its first key to the end of its scan.
THEOREM KeysKnown == Spec => []KeysInv
<1>1. Init => KeysInv
  <2> SUFFICES ASSUME Init PROVE KeysInv
    OBVIOUS
  <2>1. PICK K, g : Reading(<<>>, <<>>, K, g)
    BY EmptyReading
  <2>2. Followed(K, g)
    BY <2>1 DEF Init, Followed
  <2> QED
    BY <2>2 DEF Init, KeysInv
<1>2. Inv /\ KeysInv /\ [Next]_vars => KeysInv'
  BY KeysStep
<1> QED
  BY <1>1, <1>2, Invariance, PTL DEF Spec

\* Cursor and function keys leave no trace in what the client works on and take
\* nothing else with them, for lines of every length and any mixture of keys
\* but a lone Escape.
THEOREM OnlyTypedKeysCount == Spec => []KeysLeaveNoTrace
<1>1. Inv /\ KeysInv => KeysLeaveNoTrace
  BY DEF Inv, Rescan, KeysInv, KeysLeaveNoTrace
<1> QED
  BY <1>1, Invariance, KeysKnown, PTL
=============================================================================
