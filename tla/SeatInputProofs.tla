-------------------------- MODULE SeatInputProofs --------------------------
(***************************************************************************)
(* Proofs about Wire and SeatInput: what a string becomes on its way       *)
(* through a message buffer, for buffers and strings of every length, and  *)
(* that the server acts on the seat the client names, for every line.      *)
(***************************************************************************)
EXTENDS SeatInput, WellFoundedInduction, TLAPS

\* Every set of natural numbers that the loops search has a first element.
LEMMA LeastExists ==
  ASSUME NEW S \in SUBSET Nat, S # {}
  PROVE  Least(S) \in S /\ \A j \in S : Least(S) <= j
<1> DEFINE R == {ss \in Nat \X Nat : ss[1] < ss[2]}
<1>1. IsWellFoundedOn(R, Nat)
  BY NatLessThanWellFounded DEF OpToRel
<1> HIDE DEF R
<1>2. PICK x \in S : \A y \in S : ~(<<y, x>> \in R)
  BY <1>1, WFMin
<1>3. ASSUME NEW y \in S, y < x PROVE FALSE
  <2>1. <<y, x>> \in Nat \X Nat
    OBVIOUS
  <2>2. <<y, x>>[1] = y /\ <<y, x>>[2] = x
    OBVIOUS
  <2>3. <<y, x>> \in R
    BY <1>3, <2>1, <2>2, Zenon DEF R
  <2> QED
    BY <1>2, <2>3
<1>4. \A y \in S : x <= y
  BY <1>3
<1> QED
  BY <1>4 DEF Least

\* An element in front of all others is the one the search finds.
LEMMA LeastIs ==
  ASSUME NEW S \in SUBSET Nat, NEW m \in S, \A j \in S : m <= j
  PROVE  Least(S) = m
<1>1. \A k \in S : (\A j \in S : k <= j) => k = m
  OBVIOUS
<1> QED
  BY <1>1 DEF Least

\* The other side of a message reads the characters in front of the cut, and
\* all of them if there is no NUL among them.
LEMMA ReceivedIs ==
  ASSUME NEW size \in Nat \ {0}, NEW src \in Seq(Chars),
         \A k \in 1..Len(src) : src[k] # NUL
  PROVE  Received(size, src) = [k \in 1..Smaller(Len(src), size - 1) |-> src[k]]
<1> DEFINE n == Smaller(Len(src), size - 1)
           b == copy_string_to_buffer(size, ZeroBuffer(size), src)
           S == {k \in 0..size : k = size \/ b[k + 1] = NUL}
<1>1. n \in Nat /\ n <= Len(src) /\ n < size
  BY DEF Smaller
<1>2. \A k \in 1..size : b[k] = IF k <= n THEN src[k] ELSE NUL
  BY <1>1 DEF copy_string_to_buffer, ZeroBuffer
<1>3. n \in S
  <2>1. n + 1 \in 1..size /\ ~(n + 1 <= n)
    BY <1>1
  <2> QED
    BY <1>1, <1>2, <2>1
<1>4. \A k \in S : n <= k
  <2> SUFFICES ASSUME NEW k \in S, k < n PROVE FALSE
    BY <1>1
  <2>1. k \in Nat /\ k + 1 \in 1..size /\ k + 1 <= n /\ k + 1 \in 1..Len(src)
    BY <1>1
  <2>2. b[k + 1] = src[k + 1]
    BY <1>2, <2>1
  <2>3. src[k + 1] = NUL
    BY <1>1, <2>1, <2>2
  <2> QED
    BY <2>1, <2>3
<1>5. strnlen(b, size) = n
  <2>1. S \in SUBSET Nat
    OBVIOUS
  <2> QED
    BY <1>3, <1>4, <2>1, LeastIs DEF strnlen
<1>6. Received(size, src) = [k \in 1..n |-> b[k]]
  BY <1>5 DEF Received, buffer_to_string_view
<1>7. \A k \in 1..n : b[k] = src[k]
  BY <1>1, <1>2
<1> QED
  BY <1>6, <1>7

\* A string without NUL that is shorter than the buffer arrives unchanged:
\* the terminator costs one byte and no more.
THEOREM RoundTrip ==
  ASSUME NEW size \in Nat \ {0}, NEW src \in Seq(Chars), Len(src) < size,
         \A k \in 1..Len(src) : src[k] # NUL
  PROVE  Received(size, src) = src
<1>1. Smaller(Len(src), size - 1) = Len(src)
  BY DEF Smaller
<1>2. Received(size, src) = [k \in 1..Len(src) |-> src[k]]
  BY <1>1, ReceivedIs
<1> QED
  BY <1>2

\* A name that is_valid_posix_queue_name accepts is the name the server opens:
\* its length limit and the size of the message field agree.
THEOREM ValidNameTravels ==
  ASSUME NEW name \in Seq(Chars), is_valid_posix_queue_name(name)
  PROVE  Received(kMaxQueueNameLength, name) = name
<1>1. Len(name) < kMaxQueueNameLength /\ \A k \in 1..Len(name) : name[k] # NUL
  BY DEF is_valid_posix_queue_name
<1> QED
  BY <1>1, RoundTrip, WireAssumption

-----------------------------------------------------------------------------
(* Reply queue names.  to_string is defined by recursion; that there is a  *)
(* function with its equation, and what it computes, is shown by taking    *)
(* the least number at which it fails.                                     *)

\* One round of to_string, with f for the rounds before.
Digit(n) == DigitChars[n + 1]
Body(f, n) == IF n < 10 THEN <<Digit(n)>> ELSE Append(f[n \div 10], Digit(n % 10))

\* f is to_string for the numbers up to m.
UpTo(f, m) == f = [k \in 0..m |-> Body(f, k)]

\* The last digit and the number in front of it determine a number.
LEMMA Division ==
  ASSUME NEW n \in Nat
  PROVE  /\ n \div 10 \in Nat /\ n % 10 \in 0..9
         /\ n = 10 * (n \div 10) + (n % 10)
         /\ n >= 10 => n \div 10 < n
  OBVIOUS

\* Two such functions agree where both are defined.
LEMMA UpToUnique ==
  ASSUME NEW f, NEW g, NEW m \in Nat, NEW p \in Nat, UpTo(f, m), UpTo(g, p),
         NEW k \in Nat, k <= m, k <= p
  PROVE  f[k] = g[k]
<1> DEFINE T == {j \in Nat : j <= m /\ j <= p /\ f[j] # g[j]}
           x == Least(T)
<1> SUFFICES ASSUME T # {} PROVE FALSE
  OBVIOUS
<1>1. x \in T /\ \A j \in T : x <= j
  BY LeastExists
<1> HIDE DEF x
<1>2. x \in Nat /\ x \in 0..m /\ x \in 0..p /\ f[x] # g[x]
  BY <1>1
<1>3. f[x] = Body(f, x) /\ g[x] = Body(g, x)
  BY <1>2, Zenon DEF UpTo
<1>4. x >= 10 => f[x \div 10] = g[x \div 10]
  BY <1>1, <1>2, Division
<1> QED
  BY <1>2, <1>3, <1>4 DEF Body

\* There is one for every number.
LEMMA UpToExists ==
  ASSUME NEW m \in Nat
  PROVE  \E f : UpTo(f, m)
<1> DEFINE T == {j \in Nat : ~\E f : UpTo(f, j)}
           x == Least(T)
<1> SUFFICES ASSUME T # {} PROVE FALSE
  OBVIOUS
<1>1. x \in T /\ \A j \in T : x <= j
  BY LeastExists
<1> HIDE DEF x
<1>2. x \in Nat /\ ~\E f : UpTo(f, x)
  BY <1>1
<1>3. \E f : x > 0 => UpTo(f, x - 1)
  <2>1. CASE x > 0
    <3>1. x - 1 \in Nat /\ x - 1 \notin T
      BY <1>1, <1>2, <2>1
    <3> QED
      BY <3>1
  <2> QED
    BY <1>2, <2>1
<1>4. PICK f : x > 0 => UpTo(f, x - 1)
  BY <1>3
<1> DEFINE g == [k \in 0..x |-> Body(f, k)]
<1>5. ASSUME NEW k \in 0..x PROVE Body(f, k) = Body(g, k)
  <2>1. CASE k < 10
    BY <2>1 DEF Body
  <2>2. CASE k >= 10
    <3>1. x > 0 /\ k \div 10 \in 0..(x - 1) /\ k \div 10 \in 0..x
      BY <1>2, <2>2, Division
    <3>2. f[k \div 10] = Body(f, k \div 10)
      BY <1>4, <3>1, Zenon DEF UpTo
    <3>3. g[k \div 10] = f[k \div 10]
      BY <3>1, <3>2
    <3> QED
      BY <3>3 DEF Body
  <2> QED
    BY <1>2, <2>1, <2>2
<1>6. g = [k \in 0..x |-> Body(g, k)]
  BY <1>5
<1>7. UpTo(g, x)
  BY <1>6 DEF UpTo
<1> QED
  BY <1>2, <1>7

\* to_string is what its definition says.
LEMMA ToString ==
  ASSUME NEW n \in Nat
  PROVE  /\ n < 10 => to_string[n] = <<Digit(n)>>
         /\ n >= 10 => to_string[n] = Append(to_string[n \div 10], Digit(n % 10))
<1> DEFINE part(k) == CHOOSE f : UpTo(f, k)
           F == [k \in Nat |-> part(k)[k]]
<1>1. ASSUME NEW k \in Nat PROVE UpTo(part(k), k)
  BY UpToExists
<1> HIDE DEF part
<1>2. ASSUME NEW k \in Nat PROVE F[k] = Body(F, k)
  <2>1. part(k)[k] = Body(part(k), k)
    <3>1. k \in 0..k
      OBVIOUS
    <3> QED
      BY <1>1, <3>1, Zenon DEF UpTo
  <2>2. F[k] = part(k)[k]
    OBVIOUS
  <2>3. ASSUME k >= 10 PROVE part(k)[k \div 10] = F[k \div 10]
    <3>1. k \div 10 \in Nat /\ k \div 10 <= k
      BY <2>3, Division
    <3>2. part(k)[k \div 10] = part(k \div 10)[k \div 10]
      BY <1>1, <3>1, UpToUnique
    <3> QED
      BY <3>1, <3>2
  <2> HIDE DEF F
  <2> QED
    BY <2>1, <2>2, <2>3 DEF Body
<1>3. F = [k \in Nat |-> Body(F, k)]
  BY <1>2
<1> HIDE DEF F
<1>4. \E f : f = [k \in Nat |-> IF k < 10 THEN <<DigitChars[k + 1]>>
                                 ELSE Append(f[k \div 10], DigitChars[(k % 10) + 1])]
  BY <1>3, Zenon DEF Body, Digit
<1>5. to_string = [k \in Nat |-> IF k < 10 THEN <<DigitChars[k + 1]>>
                     ELSE Append(to_string[k \div 10], DigitChars[(k % 10) + 1])]
  BY <1>4, Zenon DEF to_string
<1>6. to_string[n] = IF n < 10 THEN <<Digit(n)>>
                     ELSE Append(to_string[n \div 10], Digit(n % 10))
  BY <1>5, Zenon DEF Digit
<1>7. n >= 10 => ~(n < 10)
  OBVIOUS
<1> QED
  BY <1>6, <1>7, Zenon

\* The ten digits are digits, and different ones.
LEMMA TenDigitChars ==
  /\ \A a \in 0..9 : Digit(a) \in Digits
  /\ \A a, b \in 0..9 : Digit(a) = Digit(b) => a = b
<1>1. \A a \in 0..9 : a = 0 \/ a = 1 \/ a = 2 \/ a = 3 \/ a = 4
                        \/ a = 5 \/ a = 6 \/ a = 7 \/ a = 8 \/ a = 9
  OBVIOUS
<1>2. /\ Digit(0) = "0" /\ Digit(1) = "1" /\ Digit(2) = "2" /\ Digit(3) = "3" /\ Digit(4) = "4"
      /\ Digit(5) = "5" /\ Digit(6) = "6" /\ Digit(7) = "7" /\ Digit(8) = "8" /\ Digit(9) = "9"
  BY DEF Digit, DigitChars
<1> QED
  BY <1>1, <1>2 DEF Digits

\* A number below ten is written with one digit.
LEMMA OneDigit ==
  ASSUME NEW n \in Nat, n < 10
  PROVE  Len(to_string[n]) = 1
<1>1. to_string[n] = <<Digit(n)>>
  BY ToString
<1>2. Len(<<Digit(n)>>) = 1
  OBVIOUS
<1> QED
  BY <1>1, <1>2, Zenon

\* A number is written with at least one digit and with nothing else.
LEMMA ToStringType ==
  ASSUME NEW n \in Nat
  PROVE  to_string[n] \in Seq(Digits) /\ Len(to_string[n]) >= 1
<1> DEFINE T == {j \in Nat : ~(to_string[j] \in Seq(Digits) /\ Len(to_string[j]) >= 1)}
           x == Least(T)
<1> SUFFICES ASSUME T # {} PROVE FALSE
  OBVIOUS
<1>1. x \in T /\ \A j \in T : x <= j
  BY LeastExists
<1> HIDE DEF x
<1>2. x \in Nat /\ ~(to_string[x] \in Seq(Digits) /\ Len(to_string[x]) >= 1)
  BY <1>1
<1>3. CASE x < 10
  <2>1. to_string[x] = <<Digit(x)>> /\ Digit(x) \in Digits
    BY <1>2, <1>3, ToString, TenDigitChars
  <2> QED
    BY <1>2, <2>1
<1>4. CASE x >= 10
  <2>1. x \div 10 \in Nat /\ x \div 10 < x /\ x % 10 \in 0..9
    BY <1>2, <1>4, Division
  <2>2. to_string[x \div 10] \in Seq(Digits) /\ Digit(x % 10) \in Digits
    BY <1>1, <1>2, <2>1, TenDigitChars
  <2>3. to_string[x] = Append(to_string[x \div 10], Digit(x % 10))
    BY <1>2, <1>4, ToString
  <2> HIDE DEF T
  <2> QED
    BY <1>2, <2>2, <2>3
<1> QED
  BY <1>2, <1>3, <1>4

\* Two numbers are never written alike.
LEMMA ToStringInjective ==
  ASSUME NEW n \in Nat, NEW m \in Nat, to_string[n] = to_string[m]
  PROVE  n = m
<1> DEFINE T == {j \in Nat : \E p \in Nat : p # j /\ to_string[p] = to_string[j]}
           x == Least(T)
<1> SUFFICES ASSUME T # {} PROVE FALSE
  OBVIOUS
<1>1. x \in T /\ \A j \in T : x <= j
  BY LeastExists
<1> HIDE DEF x
<1>2. x \in Nat
  BY <1>1
<1>3. PICK p \in Nat : p # x /\ to_string[p] = to_string[x]
  BY <1>1
<1>4. \A j \in Nat : /\ j < 10 => to_string[j] = <<Digit(j)>> /\ j \in 0..9
                     /\ j >= 10 => to_string[j] = Append(to_string[j \div 10], Digit(j % 10))
  BY ToString
<1>5. \A j \in Nat : /\ j \div 10 \in Nat /\ j % 10 \in 0..9
                     /\ to_string[j \div 10] \in Seq(Digits) /\ Len(to_string[j \div 10]) >= 1
  BY Division, ToStringType
<1>6. \A j \in Nat : j >= 10 => Len(to_string[j]) >= 2
  BY <1>4, <1>5
<1>7. \A j \in Nat : j < 10 => Len(to_string[j]) = 1
  BY OneDigit
<1>8. CASE x < 10 /\ p < 10
  BY <1>2, <1>3, <1>4, <1>8, TenDigitChars
<1>9. CASE x >= 10 /\ p >= 10
  <2>1. Append(to_string[x \div 10], Digit(x % 10)) = Append(to_string[p \div 10], Digit(p % 10))
    BY <1>2, <1>3, <1>4, <1>9
  <2>2. PICK a \in Seq(Digits), b \in Seq(Digits) : a = to_string[x \div 10] /\ b = to_string[p \div 10]
    BY <1>2, <1>5
  <2>3. PICK d, e : d = Digit(x % 10) /\ e = Digit(p % 10)
    OBVIOUS
  <2>4. Append(a, d) = Append(b, e)
    BY <2>1, <2>2, <2>3
  <2>5. a = b /\ d = e
    <3>1. Len(a) = Len(b) /\ Len(a) \in Nat
      BY <2>4
    <3>2. Append(a, d)[Len(a) + 1] = d /\ Append(b, e)[Len(b) + 1] = e
      OBVIOUS
    <3>3. \A k \in 1..Len(a) : Append(a, d)[k] = a[k] /\ Append(b, e)[k] = b[k]
      BY <3>1
    <3>4. \A k \in 1..Len(a) : a[k] = b[k]
      BY <2>4, <3>3
    <3> QED
      BY <2>4, <3>1, <3>2, <3>4
  <2>6. x % 10 = p % 10
    BY <1>2, <1>5, <2>3, <2>5, TenDigitChars
  <2>7. x \div 10 = p \div 10
    <3>1. x \div 10 \notin T
      BY <1>1, <1>2, <1>9, Division
    <3> QED
      BY <1>2, <1>5, <2>2, <2>5, <3>1
  <2>8. x = 10 * (x \div 10) + (x % 10) /\ p = 10 * (p \div 10) + (p % 10)
    BY <1>2, Division
  <2> QED
    BY <1>3, <2>6, <2>7, <2>8
<1>10. CASE x < 10 /\ p >= 10
  <2>1. Len(to_string[x]) = 1
    BY <1>2, <1>7, <1>10
  <2>2. Len(to_string[p]) >= 2
    BY <1>2, <1>6, <1>10
  <2>3. 1 >= 2
    BY <1>3, <2>1, <2>2, Zenon
  <2> QED
    BY <2>3
<1>11. CASE x >= 10 /\ p < 10
  <2>1. Len(to_string[p]) = 1
    BY <1>2, <1>7, <1>11
  <2>2. Len(to_string[x]) >= 2
    BY <1>2, <1>6, <1>11
  <2>3. 1 >= 2
    BY <1>3, <2>1, <2>2, Zenon
  <2> QED
    BY <2>3
<1> QED
  BY <1>2, <1>8, <1>9, <1>10, <1>11

\* Ten times as many numbers need one more digit.
LEMMA OneMoreDigit ==
  ASSUME NEW b \in Nat, NEW k \in Nat \ {0},
         \A n \in Nat : n < b => Len(to_string[n]) <= k
  PROVE  \A n \in Nat : n < 10 * b => Len(to_string[n]) <= k + 1
<1> SUFFICES ASSUME NEW n \in Nat, n < 10 * b PROVE Len(to_string[n]) <= k + 1
  OBVIOUS
<1>1. CASE n < 10
  <2>1. Len(to_string[n]) = 1
    BY <1>1, OneDigit
  <2> QED
    BY <2>1
<1>2. CASE n >= 10
  <2>1. n \div 10 \in Nat /\ n \div 10 < b
    BY Division
  <2>2. Len(to_string[n \div 10]) <= k /\ to_string[n \div 10] \in Seq(Digits)
    BY <2>1, ToStringType
  <2>3. to_string[n] = Append(to_string[n \div 10], Digit(n % 10))
    BY <1>2, ToString
  <2> QED
    BY <2>2, <2>3
<1> QED
  BY <1>1, <1>2

\* Ten times ten times ... ten: more than any value of a 32-bit client_id.
TenToTheTen == 10 * (10 * (10 * (10 * (10 * (10 * (10 * (10 * (10 * 10))))))))

\* A 32-bit client id has ten digits at most, so a name field with room for the
\* prefix, the suffix, ten digits and the terminator holds every reply queue
\* name: 15 + 10 + 6 characters in the 64 bytes of kMaxQueueNameLength.
THEOREM ReplyNameFits ==
  ASSUME NEW c \in Nat, c < TenToTheTen,
         Len(kClientQueuePrefix) + 10 + Len(ReplySuffix) < kMaxQueueNameLength
  PROVE  Len(format_client_reply_queue_name(c)) < kMaxQueueNameLength
<1> DEFINE Within(b, k) == \A n \in Nat : n < b => Len(to_string[n]) <= k
<1>1. ASSUME NEW b \in Nat, NEW k \in Nat \ {0}, Within(b, k)
      PROVE  10 * b \in Nat /\ Within(10 * b, k + 1)
  <2>1. \A n \in Nat : n < 10 * b => Len(to_string[n]) <= k + 1
    BY <1>1, OneMoreDigit
  <2> QED
    BY <1>1, <2>1
<1>2. 10 \in Nat /\ Within(10, 1)
  <2> SUFFICES ASSUME NEW n \in Nat, n < 10 PROVE Len(to_string[n]) <= 1
    OBVIOUS
  <2>1. Len(to_string[n]) = 1
    BY OneDigit
  <2> QED
    BY <2>1
<1> HIDE DEF Within
<1>3. PICK b3 \in Nat : b3 = 10 * (10 * 10) /\ Within(b3, 3)
  <2>1. PICK b2 \in Nat : b2 = 10 * 10 /\ Within(b2, 2)
    BY <1>1, <1>2
  <2> QED
    BY <1>1, <2>1
<1>4. PICK b6 \in Nat : b6 = 10 * (10 * (10 * b3)) /\ Within(b6, 6)
  <2>1. PICK b4 \in Nat : b4 = 10 * b3 /\ Within(b4, 4)
    BY <1>1, <1>3
  <2>2. PICK b5 \in Nat : b5 = 10 * b4 /\ Within(b5, 5)
    BY <1>1, <2>1
  <2> QED
    BY <1>1, <2>1, <2>2
<1>5. PICK b9 \in Nat : b9 = 10 * (10 * (10 * b6)) /\ Within(b9, 9)
  <2>1. PICK b7 \in Nat : b7 = 10 * b6 /\ Within(b7, 7)
    BY <1>1, <1>4
  <2>2. PICK b8 \in Nat : b8 = 10 * b7 /\ Within(b8, 8)
    BY <1>1, <2>1
  <2> QED
    BY <1>1, <2>1, <2>2
<1>6. PICK b10 \in Nat : b10 = 10 * b9 /\ Within(b10, 10)
  BY <1>1, <1>5
<1>7. b10 = TenToTheTen
  BY <1>3, <1>4, <1>5, <1>6 DEF TenToTheTen
<1>8. Len(to_string[c]) <= 10
  BY <1>6, <1>7 DEF Within
<1>9. /\ to_string[c] \in Seq(Digits) /\ kClientQueuePrefix \in Seq(Chars)
      /\ ReplySuffix \in Seq(Chars \ {"/", NUL}) /\ kMaxQueueNameLength \in Nat
  BY ToStringType, WireAssumption
<1>10. Len(format_client_reply_queue_name(c)) =
         Len(kClientQueuePrefix) + Len(to_string[c]) + Len(ReplySuffix)
  BY <1>9 DEF format_client_reply_queue_name
<1>11. Len(kClientQueuePrefix) \in Nat /\ Len(ReplySuffix) \in Nat /\ Len(to_string[c]) \in Nat
  BY <1>9
<1> QED
  BY <1>8, <1>9, <1>10, <1>11

\* A reply queue name is a slash followed by characters that are neither NUL
\* nor another slash.
LEMMA ReplyNameShape ==
  ASSUME NEW c \in Nat
  PROVE  LET name == format_client_reply_queue_name(c)
         IN /\ name \in Seq(Chars) /\ Len(name) >= 2
            /\ name[1] = "/"
            /\ \A k \in 1..Len(name) : name[k] # NUL
            /\ \A k \in 2..Len(name) : name[k] # "/"
<1> DEFINE T == Chars \ {"/", NUL}
<1>1. PICK a \in Seq(Chars), d \in Seq(T), z \in Seq(T) :
        a = kClientQueuePrefix /\ d = to_string[c] /\ z = ReplySuffix
  <2>1. Digits \subseteq T
    BY DEF Chars, Digits, NUL
  <2>2. to_string[c] \in Seq(T)
    BY <2>1, ToStringType
  <2> QED
    BY <2>2, WireAssumption
<1>2. /\ Len(a) >= 1 /\ Len(d) >= 1 /\ a[1] = "/"
      /\ \A k \in 2..Len(a) : a[k] \notin {"/", NUL}
  BY <1>1, ToStringType, WireAssumption
<1>3. format_client_reply_queue_name(c) = a \o d \o z
  BY <1>1 DEF format_client_reply_queue_name
<1> DEFINE name == a \o d \o z
<1>4. /\ Len(name) = Len(a) + Len(d) + Len(z)
      /\ Len(a) \in Nat /\ Len(d) \in Nat /\ Len(z) \in Nat
  OBVIOUS
<1>5. \A k \in 1..Len(name) :
        \/ k \in 1..Len(a) /\ name[k] = a[k]
        \/ k - Len(a) \in 1..Len(d) /\ name[k] = d[k - Len(a)]
        \/ k - Len(a) - Len(d) \in 1..Len(z) /\ name[k] = z[k - Len(a) - Len(d)]
  OBVIOUS
<1>6. \A k \in 1..Len(name) : \/ k = 1 /\ name[k] = "/"
                              \/ name[k] \in T
  BY <1>2, <1>4, <1>5
<1>7. name \in Seq(Chars)
  OBVIOUS
<1>8. "/" # NUL
  BY DEF NUL
<1>9. name[1] = "/"
  BY <1>2, <1>4
<1> HIDE DEF name
<1>10. \A k \in 1..Len(name) : name[k] # NUL /\ (k # 1 => name[k] # "/")
  BY <1>6, <1>8
<1> QED
  BY <1>2, <1>3, <1>4, <1>7, <1>9, <1>10 DEF name

\* No two clients have the same reply queue name.
THEOREM ReplyNamesDiffer ==
  ASSUME NEW c \in Nat, NEW d \in Nat,
         format_client_reply_queue_name(c) = format_client_reply_queue_name(d)
  PROVE  c = d
<1>1. PICK a \in Seq(Chars), z \in Seq(Chars \ {"/", NUL}) :
        a = kClientQueuePrefix /\ z = ReplySuffix
  BY WireAssumption
<1>2. PICK s \in Seq(Digits), t \in Seq(Digits) : s = to_string[c] /\ t = to_string[d]
  BY ToStringType
<1>3. a \o s \o z = a \o t \o z
  BY <1>1, <1>2 DEF format_client_reply_queue_name
<1>4. Len(a) \in Nat /\ Len(s) \in Nat /\ Len(t) \in Nat /\ Len(z) \in Nat
  OBVIOUS
<1>5. Len(a \o s \o z) = Len(a) + Len(s) + Len(z) /\ Len(a \o t \o z) = Len(a) + Len(t) + Len(z)
  OBVIOUS
<1>6. Len(s) = Len(t)
  BY <1>3, <1>4, <1>5
<1>7. \A k \in 1..Len(s) : (a \o s \o z)[Len(a) + k] = s[k]
  OBVIOUS
<1>8. \A k \in 1..Len(t) : (a \o t \o z)[Len(a) + k] = t[k]
  OBVIOUS
<1>9. \A k \in 1..Len(s) : s[k] = t[k]
  BY <1>3, <1>6, <1>7, <1>8
<1>10. s = t
  BY <1>6, <1>9
<1> QED
  BY <1>2, <1>10, ToStringInjective

-----------------------------------------------------------------------------
(* The trimming at the end of sanitize_input.                              *)

Trimmed(s) == s # <<>> /\ s[1] # SP /\ s[Len(s)] # SP

\* Trimming picks a stretch of the string that has no space at its ends.
LEMMA TrimShape ==
  ASSUME NEW T, NEW s \in Seq(T)
  PROVE  Trim(s) \in Seq(T) /\ (Trim(s) # <<>> => Trimmed(Trim(s)))
<1> DEFINE n == Len(s)
           A == {k \in 1..(n + 1) : k = n + 1 \/ s[k] # SP}
           start == Least(A)
           B == {k \in 0..(n + 1 - start) : k = n + 1 - start \/ s[n - k] # SP}
           tail == Least(B)
           m == n + 1 - start - tail
<1>0. n \in Nat
  OBVIOUS
<1>1. start \in A
  <2>1. A \in SUBSET Nat /\ n + 1 \in A
    BY <1>0
  <2> QED
    BY <2>1, LeastExists
<1>2. start \in 1..(n + 1) /\ (start = n + 1 \/ s[start] # SP)
  BY <1>1
<1> HIDE DEF start
<1>3. tail \in B
  <2>1. B \in SUBSET Nat /\ n + 1 - start \in B
    BY <1>0, <1>2
  <2> QED
    BY <2>1, LeastExists
<1>4. tail \in 0..(n + 1 - start) /\ (tail = n + 1 - start \/ s[n - tail] # SP)
  BY <1>3
<1> HIDE DEF tail
<1>5. Trim(s) = [k \in 1..m |-> s[start + k - 1]]
  BY DEF Trim, start, tail
<1>6. m \in Nat
  BY <1>0, <1>2, <1>4
<1>7. ASSUME NEW k \in 1..m PROVE start + k - 1 \in 1..n
  BY <1>0, <1>2, <1>4, <1>7
<1>8. Trim(s) \in Seq(T) /\ Len(Trim(s)) = m
  <2>1. \A k \in 1..m : s[start + k - 1] \in T
    BY <1>7
  <2> QED
    BY <1>5, <1>6, <2>1
<1>9. ASSUME Trim(s) # <<>> PROVE Trimmed(Trim(s))
  <2>1. m >= 1
    BY <1>6, <1>8, <1>9
  <2>2. start # n + 1 /\ tail # n + 1 - start
    BY <2>1, <1>0, <1>2, <1>4
  <2>3. Trim(s)[1] = s[start] /\ Trim(s)[m] = s[n - tail]
    <3>1. 1 \in 1..m /\ m \in 1..m /\ start + 1 - 1 = start /\ start + m - 1 = n - tail
      BY <1>0, <1>2, <1>4, <1>6, <2>1
    <3> QED
      BY <1>5, <3>1
  <2> QED
    BY <1>2, <1>4, <1>8, <1>9, <2>2, <2>3 DEF Trimmed
<1> QED
  BY <1>8, <1>9

\* Trimming changes nothing in a trimmed string.
LEMMA TrimFixed ==
  ASSUME NEW T, NEW s \in Seq(T), Trimmed(s)
  PROVE  Trim(s) = s
<1> DEFINE n == Len(s)
           A == {k \in 1..(n + 1) : k = n + 1 \/ s[k] # SP}
           B == {k \in 0..(n + 1 - 1) : k = n + 1 - 1 \/ s[n - k] # SP}
<1>0. n \in Nat \ {0}
  BY DEF Trimmed
<1>1. Least(A) = 1
  <2>1. 1 \in A /\ A \in SUBSET Nat /\ \A j \in A : 1 <= j
    BY <1>0 DEF Trimmed
  <2> QED
    BY <2>1, LeastIs
<1>2. Least(B) = 0
  <2>1. 0 \in B /\ B \in SUBSET Nat /\ \A j \in B : 0 <= j
    BY <1>0 DEF Trimmed
  <2> QED
    BY <2>1, LeastIs
<1>3. Trim(s) = [k \in 1..(n + 1 - 1 - 0) |-> s[1 + k - 1]]
  BY <1>1, <1>2 DEF Trim
<1>4. n + 1 - 1 - 0 = n /\ \A k \in 1..n : 1 + k - 1 = k
  BY <1>0
<1> QED
  BY <1>3, <1>4

-----------------------------------------------------------------------------
(* The other operators of SeatInput.                                       *)

\* What the keyboard sends, and that plain keys send nothing hidden.
LEMMA KeysAreChars ==
  /\ PlainKeys \subseteq Seq(Visible)
  /\ PlainKeys \cup CursorKeys \cup {<<CR>>, <<ESC>>} \subseteq Seq(Chars)
<1>1. {"a", "2", "O", SP, NUL} \subseteq Visible
  BY DEF Visible, Chars, Digits, NUL, ESC, CR, SP
<1>2. {"a", "2", "O", "A", "[", SP, NUL, ESC, CR} \subseteq Chars
  BY DEF Chars, Digits
<1> QED
  BY <1>1, <1>2 DEF PlainKeys, CursorKeys

\* Converting to upper case keeps a string visible.
LEMMA ToUpperType ==
  ASSUME NEW s \in Seq(Visible)
  PROVE  ToUpper(s) \in Seq(Visible)
<1>1. \A c \in Visible : toupper(c) \in Visible
  BY DEF toupper, Visible, Chars, Digits, NUL, ESC, CR, SP
<1> QED
  BY <1>1 DEF ToUpper

\* A word is a stretch of the string it is read from.
LEMMA WordType ==
  ASSUME NEW T, NEW s \in Seq(T), NEW k \in 1..(Len(s) + 1)
  PROVE  WordFrom(s, k) \in Seq(T) /\ Len(WordFrom(s, k)) <= Len(s)
<1> DEFINE n == Len(s)
           A == {j \in k..(n + 1) : j = n + 1 \/ s[j] # SP}
           start == Least(A)
           B == {j \in start..(n + 1) : j = n + 1 \/ s[j] = SP}
           end == Least(B)
<1>0. n \in Nat
  OBVIOUS
<1>1. start \in k..(n + 1)
  <2>1. A \in SUBSET Nat /\ n + 1 \in A
    BY <1>0
  <2>2. start \in A
    BY <2>1, LeastExists
  <2> QED
    BY <2>2
<1> HIDE DEF start
<1>2. end \in start..(n + 1)
  <2>1. B \in SUBSET Nat /\ n + 1 \in B
    BY <1>0, <1>1
  <2>2. end \in B
    BY <2>1, LeastExists
  <2> QED
    BY <2>2
<1> HIDE DEF end
<1>3. WordFrom(s, k) = [j \in 1..(end - start) |-> s[start + j - 1]]
  BY DEF WordFrom, start, end
<1>4. end - start \in Nat /\ end - start <= n
  BY <1>0, <1>1, <1>2
<1>5. ASSUME NEW j \in 1..(end - start) PROVE s[start + j - 1] \in T
  <2>1. start + j - 1 \in 1..n
    BY <1>0, <1>1, <1>2, <1>5
  <2> QED
    BY <2>1
<1> QED
  BY <1>3, <1>4, <1>5

\* The scan never goes back and leaves the line by one position at most.
LEMMA AfterEscapeType ==
  ASSUME line \in Seq(Chars), NEW k \in 1..(Len(line) + 1)
  PROVE  AfterEscape(k) \in k..(Len(line) + 2)
<1>0. Len(line) \in Nat
  OBVIOUS
<1>1. CASE k > Len(line)
  BY <1>0, <1>1 DEF AfterEscape
<1>2. CASE k <= Len(line) /\ line[k] = "["
  <2> DEFINE A == {j \in (k + 1)..(Len(line) + 1) : j = Len(line) + 1 \/ ~IsParameter(line[j])}
  <2>1. A \in SUBSET Nat /\ Len(line) + 1 \in A
    BY <1>0, <1>2
  <2>2. AfterParameters(k + 1) \in A
    BY <2>1, LeastExists DEF AfterParameters
  <2>3. AfterParameters(k + 1) \in (k + 1)..(Len(line) + 1)
    BY <2>2
  <2>4. AfterEscape(k) = Smaller(AfterParameters(k + 1), Len(line)) + 1
    BY <1>0, <1>2 DEF AfterEscape
  <2> QED
    BY <1>0, <1>2, <2>3, <2>4 DEF Smaller
<1>3. CASE k <= Len(line) /\ line[k] # "["
  BY <1>0, <1>3 DEF AfterEscape
<1> QED
  BY <1>0, <1>1, <1>2, <1>3

\* A buffer and the string read from it hold characters.
LEMMA BufferType ==
  ASSUME NEW size \in Nat \ {0}, NEW src \in Seq(Chars)
  PROVE  /\ ZeroBuffer(size) \in [1..size -> Chars]
         /\ copy_string_to_buffer(size, ZeroBuffer(size), src) \in [1..size -> Chars]
<1>1. NUL \in Chars
  BY DEF Chars
<1>2. ZeroBuffer(size) \in [1..size -> Chars]
  BY <1>1 DEF ZeroBuffer
<1>3. \A k \in 1..size : k <= Smaller(Len(src), size - 1) => src[k] \in Chars
  BY DEF Smaller
<1> QED
  BY <1>1, <1>2, <1>3 DEF copy_string_to_buffer

\* The string that strnlen finds lies within the buffer.
LEMMA ViewType ==
  ASSUME NEW size \in Nat \ {0}, NEW b \in [1..size -> Chars]
  PROVE  buffer_to_string_view(b, size) \in Seq(Chars)
<1> DEFINE S == {k \in 0..size : k = size \/ b[k + 1] = NUL}
<1>1. S \in SUBSET Nat /\ size \in S
  OBVIOUS
<1>2. strnlen(b, size) \in S
  BY <1>1, LeastExists DEF strnlen
<1>3. strnlen(b, size) \in 0..size
  BY <1>2
<1> QED
  BY <1>3 DEF buffer_to_string_view

-----------------------------------------------------------------------------
(* The inductive invariant.                                                *)

\* What stands in the buffers between the client's copy and the ticket.
Encoded ==
  /\ pc = "serve" =>
       /\ request.seat_id =
            copy_string_to_buffer(kMaxSeatIdLength, ZeroBuffer(kMaxSeatIdLength), seat)
       /\ request.reply_queue_name =
            copy_string_to_buffer(kMaxQueueNameLength, ZeroBuffer(kMaxQueueNameLength),
                                  format_client_reply_queue_name(client_id))
  /\ pc = "answer" =>
       /\ seen.seat_id = Received(kMaxSeatIdLength, seat)
       /\ seen.reply_queue_name =
            Received(kMaxQueueNameLength, format_client_reply_queue_name(client_id))

\* The second call of sanitize_input copies its line character by character.
Rescan ==
  /\ pc = "scan" /\ pass = "again" =>
       /\ line = once /\ Trimmed(once)
       /\ i <= Len(line) + 1 /\ Len(result) = i - 1
       /\ \A k \in 1..Len(result) : result[k] = line[k]
  /\ pc = "parse" => result = once

Inv == TypeOK /\ Encoded /\ Rescan

\* A visible string is a string.
LEMMA VisibleIsChars == Seq(Visible) \subseteq Seq(Chars)
<1>1. Visible \subseteq Chars
  BY DEF Visible
<1> QED
  BY <1>1

\* The state of the keyboard and of the scan, as TypeOK has it.
InputTyped ==
  /\ line \in Seq(Chars) /\ typed \in Seq(Visible) /\ escape \in BOOLEAN
  /\ pass \in {"line", "again", "seat"}
  /\ i \in 1..(Len(line) + 2)
  /\ result \in Seq(Visible) /\ once \in Seq(Visible)

\* An empty line is typed.
LEMMA EmptyLine ==
  /\ Init => InputTyped
  /\ NextLine => InputTyped'
<1>1. 1 \in 1..(Len(<<>>) + 2)
  OBVIOUS
<1>2. <<>> \in Seq(Chars) /\ <<>> \in Seq(Visible)
  OBVIOUS
<1>3. ASSUME Init PROVE InputTyped
  BY <1>1, <1>2, <1>3, Zenon DEF InputTyped, Init
<1>4. ASSUME NextLine PROVE InputTyped'
  BY <1>1, <1>2, <1>4, Zenon DEF InputTyped, NextLine
<1> QED
  BY <1>3, <1>4

\* An empty prompt of a client just started satisfies the invariant.
LEMMA InitInv == Init => Inv
<1> SUFFICES ASSUME Init PROVE Inv
  OBVIOUS
<1> USE SeatInputAssumption
<1>1. ZeroBuffer(kMaxSeatIdLength) \in [1..kMaxSeatIdLength -> Chars]
  BY BufferType, <<>> \in Seq(Chars)
<1>2. InputTyped
  BY EmptyLine
<1>3. TypeOK
  BY <1>1, <1>2 DEF Init, TypeOK, InputTyped, PCs, NoRequest, NothingSeen
<1>4. Encoded /\ Rescan
  BY DEF Init, Encoded, Rescan
<1> QED
  BY <1>3, <1>4 DEF Inv

\* The user's keys.
LEMMA KeyboardStep ==
  ASSUME Inv, NEW key \in PlainKeys \cup CursorKeys \cup {<<CR>>, <<ESC>>},
         Press(key) \/ Enter
  PROVE  Inv'
<1>1. CASE Press(key)
  <2>1. line' \in Seq(Chars) /\ Len(line') >= Len(line)
    BY <1>1, KeysAreChars DEF Inv, TypeOK, Press
  <2>2. typed' \in Seq(Visible)
    BY <1>1, KeysAreChars DEF Inv, TypeOK, Press
  <2>3. i' \in 1..(Len(line') + 2)
    BY <1>1, <2>1 DEF Inv, TypeOK, Press, scan
  <2>4. escape' \in BOOLEAN
    BY <1>1, Zenon DEF Press
  <2>5. TypeOK'
    BY <1>1, <2>1, <2>2, <2>3, <2>4 DEF Inv, TypeOK, Press, scan, message
  <2>6. Encoded' /\ Rescan'
    BY <1>1 DEF Inv, Encoded, Rescan, Press, scan, message
  <2> QED
    BY <2>5, <2>6 DEF Inv
<1>2. CASE Enter
  <2>1. TypeOK'
    BY <1>2 DEF Inv, TypeOK, Enter, keyboard, message, PCs
  <2>2. Encoded' /\ Rescan'
    BY <1>2 DEF Inv, Encoded, Rescan, Enter, keyboard, message
  <2> QED
    BY <2>1, <2>2 DEF Inv
<1> QED
  BY <1>1, <1>2

\* The loop of sanitize_input.  In the second call the first two paths are
\* not taken: nothing is left for them to skip.
LEMMA ScanStep ==
  ASSUME Inv, SkipEscape \/ SkipReturn \/ Keep
  PROVE  Inv'
<1>0. /\ line \in Seq(Chars) /\ Len(line) \in Nat /\ i \in 1..(Len(line) + 2)
      /\ pc = "scan" /\ i <= Len(line) /\ i \in 1..Len(line)
  BY DEF Inv, TypeOK, SkipEscape, SkipReturn, Keep, Scanning
<1>1. ASSUME SkipEscape \/ SkipReturn PROVE pass # "again"
  <2> SUFFICES ASSUME pass = "again" PROVE FALSE
    OBVIOUS
  <2>1. line \in Seq(Visible)
    BY <1>0 DEF Inv, Rescan, TypeOK
  <2>2. line[i] \in Visible
    BY <1>0, <2>1
  <2> QED
    BY <1>1, <2>2 DEF SkipEscape, SkipReturn, Scanning, Visible
<1>2. CASE SkipEscape
  <2>1. i' \in 1..(Len(line) + 2)
    BY <1>0, <1>2, AfterEscapeType, i + 1 \in 1..(Len(line) + 1) DEF SkipEscape
  <2>2. TypeOK'
    BY <1>2, <2>1 DEF Inv, TypeOK, SkipEscape, keyboard, message
  <2>3. Encoded' /\ Rescan'
    BY <1>0, <1>1, <1>2 DEF Inv, Encoded, Rescan, SkipEscape, keyboard, message
  <2> QED
    BY <2>2, <2>3 DEF Inv
<1>3. CASE SkipReturn
  <2>1. TypeOK'
    BY <1>0, <1>3 DEF Inv, TypeOK, SkipReturn, keyboard, message
  <2>2. Encoded' /\ Rescan'
    BY <1>0, <1>1, <1>3 DEF Inv, Encoded, Rescan, SkipReturn, keyboard, message
  <2> QED
    BY <2>1, <2>2 DEF Inv
<1>4. CASE Keep
  <2>1. line[i] \in Visible
    BY <1>0, <1>4 DEF Keep, Visible
  <2>2. result \in Seq(Visible)
    BY DEF Inv, TypeOK
  <2>3. /\ result' \in Seq(Visible) /\ Len(result') = Len(result) + 1
        /\ \A k \in 1..Len(result) : result'[k] = result[k]
        /\ result'[Len(result) + 1] = line[i]
    BY <1>4, <2>1, <2>2 DEF Keep
  <2>4. TypeOK'
    BY <1>0, <1>4, <2>3 DEF Inv, TypeOK, Keep, keyboard, message
  <2>5. Encoded'
    BY <1>0, <1>4 DEF Inv, Encoded, Keep, keyboard, message
  <2>6. ASSUME pass = "again" PROVE Rescan'
    <3>1. /\ line = once /\ Trimmed(once)
          /\ Len(result) = i - 1
          /\ \A k \in 1..Len(result) : result[k] = line[k]
      BY <1>0, <2>6 DEF Inv, Rescan
    <3>2. Len(result) + 1 = i /\ Len(result') = i
      BY <1>0, <2>3, <3>1
    <3>3. \A k \in 1..Len(result') : result'[k] = line[k]
      BY <1>0, <2>3, <3>1, <3>2
    <3>4. i' = i + 1 /\ line' = line /\ once' = once /\ pc' = pc
      BY <1>4 DEF Keep, keyboard
    <3> QED
      BY <1>0, <3>1, <3>2, <3>3, <3>4 DEF Rescan
  <2>7. ASSUME pass # "again" PROVE Rescan'
    BY <1>0, <1>4, <2>7 DEF Rescan, Keep
  <2> QED
    BY <2>4, <2>5, <2>6, <2>7 DEF Inv
<1> QED
  BY <1>2, <1>3, <1>4

\* The end of sanitize_input in its three callers.
LEMMA SanitizedStep ==
  ASSUME Inv, LineSanitized \/ CommandSanitized \/ SeatSanitized
  PROVE  Inv'
<1>0. /\ pc = "scan" /\ result \in Seq(Visible) /\ line \in Seq(Chars)
      /\ i > Len(line) /\ i \in Nat /\ Len(line) \in Nat
  BY DEF Inv, TypeOK, LineSanitized, CommandSanitized, SeatSanitized
<1>1. Trim(result) \in Seq(Visible) /\ (Trim(result) # <<>> => Trimmed(Trim(result)))
  BY <1>0, TrimShape
<1>2. Trim(result) \in Seq(Chars)
  BY <1>1, VisibleIsChars
<1>3. CASE LineSanitized
  <2>1. CASE Trim(result) = <<>>
    <3>1. InputTyped' /\ pc' = "read" /\ UNCHANGED <<client_id, seat, request, seen>>
      BY <1>3, <2>1, EmptyLine DEF LineSanitized, message
    <3> QED
      BY <3>1 DEF Inv, TypeOK, InputTyped, Encoded, Rescan, PCs
  <2>2. CASE Trim(result) # <<>>
    <3> DEFINE t == Trim(result)
    <3> HIDE DEF t
    <3>1. /\ line' = t /\ once' = t /\ pass' = "again" /\ i' = 1 /\ result' = <<>>
          /\ UNCHANGED <<pc, typed, escape, client_id, seat, request, seen>>
      BY <1>3, <2>2 DEF LineSanitized, message, t
    <3>2. t \in Seq(Visible) /\ t \in Seq(Chars) /\ Trimmed(t) /\ Len(t) \in Nat
      BY <1>1, <1>2, <2>2 DEF t
    <3>3. TypeOK'
      BY <3>1, <3>2 DEF Inv, TypeOK
    <3>4. Encoded' /\ Rescan'
      BY <1>0, <3>1, <3>2 DEF Inv, Encoded, Rescan
    <3> QED
      BY <3>3, <3>4 DEF Inv
  <2> QED
    BY <2>1, <2>2
<1>4. CASE CommandSanitized
  <2>1. TypeOK'
    BY <1>1, <1>4 DEF Inv, TypeOK, CommandSanitized, keyboard, message, PCs
  <2>2. result = once /\ Trimmed(once)
    <3>1. /\ line = once /\ Trimmed(once) /\ i <= Len(line) + 1 /\ Len(result) = i - 1
          /\ \A k \in 1..Len(result) : result[k] = line[k]
      BY <1>0, <1>4 DEF Inv, Rescan, CommandSanitized
    <3>2. Len(result) = Len(line)
      BY <1>0, <3>1
    <3>3. result = line
      BY <1>0, <3>1, <3>2
    <3> QED
      BY <3>1, <3>3
  <2>3. Trim(result) = result
    BY <1>0, <2>2, TrimFixed
  <2>4. Encoded' /\ Rescan'
    BY <1>4, <2>2, <2>3 DEF Encoded, Rescan, CommandSanitized
  <2> QED
    BY <2>1, <2>4 DEF Inv
<1>5. CASE SeatSanitized
  <2>1. ToUpper(Trim(result)) \in Seq(Visible)
    BY <1>1, ToUpperType
  <2>2. TypeOK'
    BY <1>5, <2>1 DEF Inv, TypeOK, SeatSanitized, keyboard, scan, message, PCs
  <2>3. Encoded' /\ Rescan'
    BY <1>5 DEF Encoded, Rescan, SeatSanitized
  <2> QED
    BY <2>2, <2>3 DEF Inv
<1> QED
  BY <1>3, <1>4, <1>5

\* CommandParser::parse_line.
LEMMA ParseStep ==
  ASSUME Inv, OtherCommand \/ SeatPrompt \/ SeatCommand
  PROVE  Inv'
<1>1. CASE OtherCommand \/ SeatPrompt
  <2>1. /\ InputTyped' /\ pc' \in {"read", "prompt"}
        /\ UNCHANGED <<client_id, seat, request, seen>>
    BY <1>1, EmptyLine DEF OtherCommand, SeatPrompt, message
  <2> QED
    BY <2>1 DEF Inv, TypeOK, InputTyped, Encoded, Rescan, PCs
<1>2. CASE SeatCommand
  <2>1. result \in Seq(Visible)
    BY DEF Inv, TypeOK
  <2>2. Verb \in Seq(Visible) /\ Len(Verb) <= Len(result)
    BY <2>1, WordType, 1 \in 1..(Len(result) + 1) DEF Verb
  <2>3. Len(Verb) + 1 \in 1..(Len(result) + 1)
    BY <2>1, <2>2
  <2>4. Operand \in Seq(Visible)
    BY <2>1, <2>3, WordType DEF Operand
  <2>5. ToUpper(Operand) \in Seq(Visible)
    BY <2>4, ToUpperType
  <2>6. TypeOK'
    BY <1>2, <2>5 DEF Inv, TypeOK, SeatCommand, keyboard, scan, message, PCs
  <2>7. Encoded' /\ Rescan'
    BY <1>2 DEF Encoded, Rescan, SeatCommand
  <2> QED
    BY <2>6, <2>7 DEF Inv
<1> QED
  BY <1>1, <1>2

\* The request is filled, read by the server and answered.
LEMMA MessageStep ==
  ASSUME Inv, send_request \/ Serve \/ Answer
  PROVE  Inv'
<1> USE SeatInputAssumption
<1>0. seat \in Seq(Chars)
  BY VisibleIsChars DEF Inv, TypeOK
<1>1. CASE send_request
  <2>1. /\ request'.seat_id =
             copy_string_to_buffer(kMaxSeatIdLength, ZeroBuffer(kMaxSeatIdLength), seat)
        /\ request'.reply_queue_name =
             copy_string_to_buffer(kMaxQueueNameLength, ZeroBuffer(kMaxQueueNameLength),
                                   format_client_reply_queue_name(client_id))
    BY <1>1 DEF send_request, NoRequest
  <2>2. request'.seat_id \in [1..kMaxSeatIdLength -> Chars]
    BY <1>0, <2>1, BufferType
  <2>3. TypeOK'
    BY <1>1, <2>2 DEF Inv, TypeOK, send_request, keyboard, scan, PCs
  <2>4. Encoded' /\ Rescan'
    BY <1>1, <2>1 DEF Encoded, Rescan, send_request
  <2> QED
    BY <2>3, <2>4 DEF Inv
<1>2. CASE Serve
  <2>1. /\ seen'.seat_id = buffer_to_string_view(request.seat_id, kMaxSeatIdLength)
        /\ seen'.reply_queue_name =
             buffer_to_string_view(request.reply_queue_name, kMaxQueueNameLength)
    BY <1>2 DEF Serve
  <2>2. seen'.seat_id \in Seq(Chars)
    BY <2>1, ViewType DEF Inv, TypeOK
  <2>3. TypeOK'
    BY <1>2, <2>2 DEF Inv, TypeOK, Serve, keyboard, scan, PCs
  <2>4. /\ seen'.seat_id = Received(kMaxSeatIdLength, seat)
        /\ seen'.reply_queue_name =
             Received(kMaxQueueNameLength, format_client_reply_queue_name(client_id))
    BY <1>2, <2>1 DEF Inv, Encoded, Serve, Received
  <2>5. Encoded' /\ Rescan'
    BY <1>2, <2>4 DEF Encoded, Rescan, Serve
  <2> QED
    BY <2>3, <2>5 DEF Inv
<1>3. CASE Answer
  <2>1. ZeroBuffer(kMaxSeatIdLength) \in [1..kMaxSeatIdLength -> Chars]
    BY <1>0, BufferType
  <2>2. InputTyped'
    BY <1>3, EmptyLine DEF Answer
  <2>3. TypeOK'
    BY <1>3, <2>1, <2>2 DEF Answer, NoRequest, NothingSeen, Inv, TypeOK, InputTyped, PCs
  <2>4. Encoded' /\ Rescan'
    BY <1>3 DEF Answer, Encoded, Rescan
  <2> QED
    BY <2>3, <2>4 DEF Inv
<1> QED
  BY <1>1, <1>2, <1>3

\* No key and no step of the client or the server breaks it.
LEMMA StepInv == Inv /\ [Next]_vars => Inv'
<1> SUFFICES ASSUME Inv, [Next]_vars PROVE Inv'
  OBVIOUS
<1>1. CASE \E key \in PlainKeys \cup CursorKeys \cup {<<CR>>, <<ESC>>} : Press(key)
  BY <1>1, KeyboardStep
<1>2. CASE Enter
  BY <1>2, KeyboardStep, <<CR>> \in {<<CR>>, <<ESC>>}
<1>3. CASE Program
  BY <1>3, ScanStep, SanitizedStep, ParseStep, MessageStep DEF Program
<1>4. CASE UNCHANGED vars
  BY <1>4 DEF vars, Inv, TypeOK, Encoded, Rescan
<1> QED
  BY <1>1, <1>2, <1>3, <1>4 DEF Next

\* The invariant holds of every line a user can type.
THEOREM Invariance == Spec => []Inv
<1>1. Init => Inv
  BY InitInv
<1>2. Inv /\ [Next]_vars => Inv'
  BY StepInv
<1> QED
  BY <1>1, <1>2, PTL DEF Spec

-----------------------------------------------------------------------------
(* The properties.                                                         *)

\* sanitize_input stays in its line, and what it returns has no escape and no
\* carriage return in it, for lines of every length.
THEOREM InputTypes == Spec => []TypeOK
<1>1. Inv => TypeOK
  BY DEF Inv
<1> QED
  BY <1>1, Invariance, PTL

\* ClientRepl::run and CommandParser::parse_line work on the same line.
THEOREM SanitizeOnceIsEnough == Spec => []SanitizeIdempotent
<1>1. Inv => SanitizeIdempotent
  BY DEF Inv, Rescan, SanitizeIdempotent
<1> QED
  BY <1>1, Invariance, PTL

\* The server reserves the seat the client prints, for every size of the
\* seat_id field that leaves a byte more than the seat ids and their
\* terminator need: an id that is cut is then longer than any seat's.
THEOREM TicketNamesTheSeat == Spec => []SeatUnderstood
<1>1. ASSUME Inv, pc = "answer", \A k \in 1..Len(seat) : seat[k] # NUL
      PROVE  /\ seen.seat_id \in SeatIds <=> seat \in SeatIds
             /\ seat \in SeatIds => seen.seat_id = seat
  <2> USE SeatInputAssumption
  <2>0. seat \in Seq(Chars)
    BY <1>1, VisibleIsChars DEF Inv, TypeOK
  <2>1. seen.seat_id = Received(kMaxSeatIdLength, seat)
    BY <1>1 DEF Inv, Encoded
  <2>2. CASE Len(seat) < kMaxSeatIdLength
    BY <1>1, <2>0, <2>1, <2>2, RoundTrip
  <2>3. CASE Len(seat) >= kMaxSeatIdLength
    <3>1. Smaller(Len(seat), kMaxSeatIdLength - 1) = kMaxSeatIdLength - 1
      BY <2>0, <2>3 DEF Smaller
    <3>2. seen.seat_id = [k \in 1..(kMaxSeatIdLength - 1) |-> seat[k]]
      BY <1>1, <2>0, <2>1, <3>1, ReceivedIs
    <3>3. Len(seen.seat_id) = kMaxSeatIdLength - 1
      BY <3>2
    <3>4. seen.seat_id \notin SeatIds /\ seat \notin SeatIds
      BY <2>0, <2>3, <3>3
    <3> QED
      BY <3>4
  <2> QED
    BY <2>0, <2>2, <2>3
<1>2. Inv => SeatUnderstood
  BY <1>1 DEF SeatUnderstood
<1> QED
  BY <1>2, Invariance, PTL

\* The server answers to the queue of the client that asked and of no other: the
\* name it reads is one mq_open accepts, and no other client's name is the same.
THEOREM ReplyFindsClient == Spec => []ReplyNameOfClient
<1>1. ASSUME Inv, pc = "answer"
      PROVE  /\ is_valid_posix_queue_name(seen.reply_queue_name)
             /\ \A c \in ClientIds :
                  format_client_reply_queue_name(c) = seen.reply_queue_name <=> c = client_id
  <2> DEFINE name == format_client_reply_queue_name(client_id)
  <2>1. client_id \in ClientIds /\ client_id \in Nat /\ Len(name) < kMaxQueueNameLength
    BY <1>1, SeatInputAssumption DEF Inv, TypeOK
  <2>2. name \in Seq(Chars) /\ is_valid_posix_queue_name(name)
    BY <2>1, ReplyNameShape DEF is_valid_posix_queue_name
  <2>3. seen.reply_queue_name = Received(kMaxQueueNameLength, name)
    BY <1>1 DEF Inv, Encoded
  <2> HIDE DEF name
  <2>4. seen.reply_queue_name = name
    BY <2>2, <2>3, ValidNameTravels
  <2>5. ASSUME NEW c \in ClientIds, format_client_reply_queue_name(c) = name
        PROVE  c = client_id
    BY <2>1, <2>5, ReplyNamesDiffer, SeatInputAssumption DEF name
  <2> QED
    BY <2>2, <2>4, <2>5 DEF name
<1>2. Inv => ReplyNameOfClient
  BY <1>1 DEF ReplyNameOfClient
<1> QED
  BY <1>2, Invariance, PTL
=============================================================================
