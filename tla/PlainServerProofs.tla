------------------------- MODULE PlainServerProofs --------------------------
(***************************************************************************)
(* An element of the plain database is the end of what the client receives *)
(* exactly when it does not contain the delimiter, for every number and    *)
(* length of elements and all bytes: no delimiter forms where the element  *)
(* meets the zeros in front of it or the delimiter behind it.              *)
(***************************************************************************)
EXTENDS PlainServer, SequenceTheorems, TLAPS

Bytes == 0 .. 255

-----------------------------------------------------------------------------
\* Three bytes of a string are the delimiter, byte by byte.
LEMMA DelimiterAt ==
  ASSUME NEW str \in Seq(Bytes), NEW i \in 1 .. Len(str) - 2
  PROVE  SubSeq(str, i, i + 2) = delimiter
           <=> str[i] = 58 /\ str[i + 1] = 113 /\ str[i + 2] = 33
<1> DEFINE sub == SubSeq(str, i, i + 2)
<1>1. Len(str) \in Nat /\ i \in Int /\ i + 2 \in Int
  BY LenProperties
<1>2. \A j \in i .. i + 2 : str[j] \in Bytes
  BY <1>1, ElementOfSeq
<1>3. /\ sub \in Seq(Bytes)
      /\ Len(sub) = IF i <= i + 2 THEN i + 2 - i + 1 ELSE 0
      /\ \A j \in 1 .. i + 2 - i + 1 : sub[j] = str[i + j - 1]
  BY <1>1, <1>2, SubSeqProperties
<1>4. /\ Len(sub) = 3
      /\ sub[1] = str[i] /\ sub[2] = str[i + 1] /\ sub[3] = str[i + 2]
  <2> HIDE DEF sub
  <2>1. 1 \in 1 .. i + 2 - i + 1 /\ 2 \in 1 .. i + 2 - i + 1 /\ 3 \in 1 .. i + 2 - i + 1
    BY <1>1
  <2>2. i + 1 - 1 = i /\ i + 2 - 1 = i + 1 /\ i + 3 - 1 = i + 2
    BY <1>1
  <2>3. sub[1] = str[i + 1 - 1] /\ sub[2] = str[i + 2 - 1] /\ sub[3] = str[i + 3 - 1]
    BY <1>3, <2>1
  <2> QED
    BY <1>1, <1>3, <2>2, <2>3
<1>5. /\ delimiter \in Seq(Bytes) /\ Len(delimiter) = 3
      /\ delimiter[1] = 58 /\ delimiter[2] = 113 /\ delimiter[3] = 33
  BY DEF delimiter, Bytes
<1> HIDE DEF sub
<1>6. ASSUME str[i] = 58, str[i + 1] = 113, str[i + 2] = 33
      PROVE  sub = delimiter
  <2>1. \A j \in 1 .. 3 : sub[j] = delimiter[j]
    <3> TAKE j \in 1 .. 3
    <3>1. j = 1 \/ j = 2 \/ j = 3
      OBVIOUS
    <3> QED
      BY <1>4, <1>5, <1>6, <3>1
  <2>2. Len(sub) = Len(delimiter) /\ \A j \in 1 .. Len(sub) : sub[j] = delimiter[j]
    BY <1>4, <1>5, <2>1
  <2>3. sub \in Seq(Bytes) /\ delimiter \in Seq(Bytes)
    BY <1>3, <1>5
  <2> QED
    BY ONLY <2>2, <2>3, SeqEqual
<1>7. ASSUME sub = delimiter
      PROVE  str[i] = 58 /\ str[i + 1] = 113 /\ str[i + 2] = 33
  BY <1>4, <1>5, <1>7
<1> QED
  BY <1>6, <1>7 DEF sub

\* Where the delimiter is, in a string, and in what PlainServer sends of an
\* element: behind the element, and wherever it is in the element.
LEMMA OccurrencesAre ==
  ASSUME NEW str \in Seq(Bytes), NEW i
  PROVE  i \in Occurrences(str) <=>
           /\ i \in 1 .. Len(str) - 2
           /\ str[i] = 58 /\ str[i + 1] = 113 /\ str[i + 2] = 33
<1>1. i \in Occurrences(str) <=>
        i \in 1 .. Len(str) - 2 /\ SubSeq(str, i, i + 2) = delimiter
  BY Zenon DEF Occurrences
<1>2. ASSUME i \in 1 .. Len(str) - 2
      PROVE  SubSeq(str, i, i + 2) = delimiter
               <=> str[i] = 58 /\ str[i + 1] = 113 /\ str[i + 2] = 33
  BY <1>2, DelimiterAt
<1> QED
  BY <1>1, <1>2

\* What is sent of an element: zeros, the element, the delimiter.
Frame(E) == ([i \in 1 .. ele_size |-> 0] \o E) \o delimiter

\* Its bytes, one by one.
IsFrame(R, E) ==
  /\ R \in Seq(Bytes) /\ Len(R) = 2 * ele_size + 3
  /\ \A k \in 1 .. ele_size : R[k] = 0
  /\ \A k \in ele_size + 1 .. 2 * ele_size : R[k] = E[k - ele_size]
  /\ R[2 * ele_size + 1] = 58
  /\ R[2 * ele_size + 2] = 113
  /\ R[2 * ele_size + 3] = 33

\* Zeros, element and delimiter, joined, have these bytes.
LEMMA Framed ==
  ASSUME NEW E \in Seq(Bytes), Len(E) = ele_size,
         NEW R, R = Frame(E)
  PROVE  IsFrame(R, E)
<1> DEFINE Z == [i \in 1 .. ele_size |-> 0]
           ZE == Z \o E
<1>1. ele_size \in Nat \ {0}
  BY PlainServerAssumption
<1>2. Z \in Seq(Bytes) /\ Len(Z) = ele_size /\ \A k \in 1 .. ele_size : Z[k] = 0
  BY <1>1 DEF Bytes
<1>3. /\ delimiter \in Seq(Bytes) /\ Len(delimiter) = 3
      /\ delimiter[1] = 58 /\ delimiter[2] = 113 /\ delimiter[3] = 33
  BY DEF delimiter, Bytes
<1> HIDE DEF Z
<1>4. /\ ZE \in Seq(Bytes) /\ Len(ZE) = 2 * ele_size
      /\ \A k \in 1 .. 2 * ele_size :
           ZE[k] = IF k <= ele_size THEN 0 ELSE E[k - ele_size]
  <2>1. /\ ZE \in Seq(Bytes) /\ Len(ZE) = Len(Z) + Len(E)
        /\ \A k \in 1 .. Len(Z) + Len(E) :
             ZE[k] = IF k <= Len(Z) THEN Z[k] ELSE E[k - Len(Z)]
    BY <1>2, ConcatProperties
  <2> HIDE DEF ZE
  <2>2. Len(Z) + Len(E) = 2 * ele_size
    BY <1>1, <1>2
  <2> QED
    BY <1>1, <1>2, <2>1, <2>2
<1> HIDE DEF ZE
<1>5. /\ R \in Seq(Bytes) /\ Len(R) = Len(ZE) + Len(delimiter)
      /\ \A k \in 1 .. Len(ZE) + Len(delimiter) :
           R[k] = IF k <= Len(ZE) THEN ZE[k] ELSE delimiter[k - Len(ZE)]
  <2>1. R = ZE \o delimiter
    BY DEF Frame, ZE, Z
  <2>2. /\ ZE \o delimiter \in Seq(Bytes)
        /\ Len(ZE \o delimiter) = Len(ZE) + Len(delimiter)
        /\ \A k \in 1 .. Len(ZE) + Len(delimiter) :
             (ZE \o delimiter)[k] = IF k <= Len(ZE) THEN ZE[k] ELSE delimiter[k - Len(ZE)]
    <3>1. ZE \in Seq(Bytes) /\ delimiter \in Seq(Bytes)
      BY <1>3, <1>4
    <3> QED
      BY ONLY <3>1, ConcatProperties
  <2> QED
    BY <2>1, <2>2
<1>6. /\ Len(R) = 2 * ele_size + 3
      /\ \A k \in 1 .. 2 * ele_size + 3 :
           R[k] = IF k <= 2 * ele_size THEN ZE[k] ELSE delimiter[k - 2 * ele_size]
  BY <1>3, <1>4, <1>5
<1>7. \A k \in 1 .. ele_size : R[k] = 0
  BY <1>1, <1>4, <1>6
<1>8. \A k \in ele_size + 1 .. 2 * ele_size : R[k] = E[k - ele_size]
  BY <1>1, <1>4, <1>6
<1>9. /\ R[2 * ele_size + 1] = delimiter[1]
      /\ R[2 * ele_size + 2] = delimiter[2]
      /\ R[2 * ele_size + 3] = delimiter[3]
  <2> DEFINE n == 2 * ele_size
  <2>1. n \in Nat
    BY <1>1
  <2>2. \A k \in 1 .. n + 3 : R[k] = IF k <= n THEN ZE[k] ELSE delimiter[k - n]
    BY <1>6
  <2> HIDE DEF n
  <2>3. ASSUME NEW j \in 1 .. 3 PROVE R[n + j] = delimiter[j]
    <3>1. n + j \in 1 .. n + 3 /\ ~ (n + j <= n) /\ n + j - n = j
      BY <2>1, <2>3
    <3> QED
      BY ONLY <2>1, <2>2, <3>1
  <2>4. R[n + 1] = delimiter[1] /\ R[n + 2] = delimiter[2] /\ R[n + 3] = delimiter[3]
    <3>1. 1 \in 1 .. 3 /\ 2 \in 1 .. 3 /\ 3 \in 1 .. 3
      OBVIOUS
    <3> QED
      BY ONLY <2>3, <3>1
  <2> QED
    BY <2>4 DEF n
<1> QED
  BY <1>3, <1>5, <1>6, <1>7, <1>8, <1>9 DEF IsFrame

\* The delimiter is behind the element, and where it is in the element; it is
\* nowhere else: one that began before the element would begin with a zero,
\* one that began in its last two bytes would have its first byte twice.
LEMMA FramedOccurrences ==
  ASSUME NEW E \in Seq(Bytes), Len(E) = ele_size,
         NEW R, R = Frame(E)
  PROVE  /\ 2 * ele_size + 1 \in Occurrences(R)
         /\ \A j \in Occurrences(E) : j + ele_size \in Occurrences(R)
         /\ \A i \in Occurrences(R) :
              i = 2 * ele_size + 1 \/ i - ele_size \in Occurrences(E)
<1> DEFINE n == ele_size
<1>1. n \in Nat \ {0} /\ Len(E) = n
  BY PlainServerAssumption
<1>2. /\ R \in Seq(Bytes) /\ Len(R) = 2 * n + 3
      /\ \A k \in 1 .. n : R[k] = 0
      /\ \A k \in n + 1 .. 2 * n : R[k] = E[k - n]
      /\ R[2 * n + 1] = 58 /\ R[2 * n + 2] = 113 /\ R[2 * n + 3] = 33
  <2>1. IsFrame(R, E)
    BY Framed
  <2> QED
    BY <2>1 DEF IsFrame
<1>3. \A i : i \in Occurrences(R) <=>
        /\ i \in 1 .. 2 * n + 1
        /\ R[i] = 58 /\ R[i + 1] = 113 /\ R[i + 2] = 33
  <2>1. Len(R) - 2 = 2 * n + 1
    BY ONLY <1>1, <1>2
  <2>2. R \in Seq(Bytes)
    BY <1>2
  <2> QED
    <3>1. \A i : i \in Occurrences(R) <=>
            /\ i \in 1 .. Len(R) - 2
            /\ R[i] = 58 /\ R[i + 1] = 113 /\ R[i + 2] = 33
      BY ONLY <2>2, OccurrencesAre
    <3> HIDE DEF n
    <3> QED
      BY ONLY <2>1, <3>1
<1>4. \A i : i \in Occurrences(E) <=>
        /\ i \in 1 .. n - 2
        /\ E[i] = 58 /\ E[i + 1] = 113 /\ E[i + 2] = 33
  <2>1. E \in Seq(Bytes)
    OBVIOUS
  <2>2. \A i : i \in Occurrences(E) <=>
          /\ i \in 1 .. Len(E) - 2
          /\ E[i] = 58 /\ E[i + 1] = 113 /\ E[i + 2] = 33
    BY ONLY <2>1, OccurrencesAre
  <2> HIDE DEF n
  <2> QED
    BY ONLY <1>1, <2>2
<1> HIDE DEF n
<1>5. 2 * n + 1 \in Occurrences(R)
  <2>1. /\ 2 * n + 1 \in 1 .. 2 * n + 1
        /\ 2 * n + 1 + 1 = 2 * n + 2 /\ 2 * n + 1 + 2 = 2 * n + 3
    BY ONLY <1>1
  <2> QED
    BY ONLY <1>2, <1>3, <2>1
<1>6. ASSUME NEW j \in Occurrences(E) PROVE j + n \in Occurrences(R)
  <2>1. j \in 1 .. n - 2 /\ E[j] = 58 /\ E[j + 1] = 113 /\ E[j + 2] = 33
    BY <1>4
  <2>2. /\ j + n \in n + 1 .. 2 * n /\ j + n + 1 \in n + 1 .. 2 * n
        /\ j + n + 2 \in n + 1 .. 2 * n /\ j + n \in 1 .. 2 * n + 1
        /\ j + n - n = j /\ j + n + 1 - n = j + 1 /\ j + n + 2 - n = j + 2
    BY ONLY <1>1, <2>1
  <2>3. R[j + n] = E[j] /\ R[j + n + 1] = E[j + 1] /\ R[j + n + 2] = E[j + 2]
    BY ONLY <1>1, <1>2, <2>1, <2>2
  <2> QED
    BY ONLY <1>3, <2>1, <2>2, <2>3
<1>7. ASSUME NEW i \in Occurrences(R), i # 2 * n + 1
      PROVE  i - n \in Occurrences(E)
  <2>1. i \in 1 .. 2 * n + 1 /\ R[i] = 58 /\ R[i + 1] = 113 /\ R[i + 2] = 33
    BY <1>3
  <2>2. ~ (i <= n)
    BY ONLY <1>1, <1>2, <2>1
  <2>3. i # 2 * n
    BY ONLY <1>1, <1>2, <2>1
  <2>4. i # 2 * n - 1
    <3>1. 2 * n - 1 + 2 = 2 * n + 1
      BY ONLY <1>1
    <3> QED
      BY ONLY <1>2, <2>1, <3>1
  <2>5. /\ i - n \in 1 .. n - 2
        /\ i \in n + 1 .. 2 * n /\ i + 1 \in n + 1 .. 2 * n /\ i + 2 \in n + 1 .. 2 * n
        /\ i + 1 - n = i - n + 1 /\ i + 2 - n = i - n + 2
    BY ONLY <1>1, <1>7, <2>1, <2>2, <2>3, <2>4
  <2>6. E[i - n] = 58 /\ E[i - n + 1] = 113 /\ E[i - n + 2] = 33
    BY ONLY <1>1, <1>2, <2>1, <2>5
  <2> QED
    BY ONLY <1>4, <2>5, <2>6
<1> QED
  BY <1>5, <1>6, <1>7 DEF n

\* A string ends in another, byte by byte.
LEMMA SuffixIs ==
  ASSUME NEW E \in Seq(Bytes), NEW r \in Seq(Bytes)
  PROVE  IsSuffix(E, r) <=>
           /\ Len(E) <= Len(r)
           /\ \A k \in 1 .. Len(E) : r[Len(r) - Len(E) + k] = E[k]
<1> DEFINE e == Len(E)
           l == Len(r)
           RE == Reverse(E)
           Rr == Reverse(r)
           Same == SubSeq(RE, 1, e) = SubSeq(Rr, 1, e)
<1>1. e \in Nat /\ l \in Nat
  OBVIOUS
<1>2. /\ RE \in Seq(Bytes) /\ Len(RE) = e
      /\ \A k \in 1 .. e : RE[k] = E[(e - k) + 1]
  BY DEF Reverse
<1>3. /\ Rr \in Seq(Bytes) /\ Len(Rr) = l
      /\ \A k \in 1 .. l : Rr[k] = r[(l - k) + 1]
  BY DEF Reverse
<1>4. IsSuffix(E, r) <=> e <= l /\ Same
  BY <1>2, <1>3 DEF IsSuffix, IsPrefix
<1> HIDE DEF e, l, RE, Rr
<1>5. ASSUME e <= l
      PROVE  Same <=> \A k \in 1 .. e : RE[k] = Rr[k]
  <2>1. \A k \in 1 .. e : RE[k] \in Bytes /\ Rr[k] \in Bytes
    <3>1. \A k \in 1 .. e : k \in 1 .. l
      BY ONLY <1>1, <1>5
    <3> QED
      BY <1>2, <1>3, <3>1, ElementOfSeq
  <2>2. /\ SubSeq(RE, 1, e) \in Seq(Bytes)
        /\ Len(SubSeq(RE, 1, e)) = IF 1 <= e THEN e - 1 + 1 ELSE 0
        /\ \A k \in 1 .. e - 1 + 1 : SubSeq(RE, 1, e)[k] = RE[1 + k - 1]
    BY ONLY <1>1, <2>1, SubSeqProperties
  <2>3. /\ SubSeq(Rr, 1, e) \in Seq(Bytes)
        /\ Len(SubSeq(Rr, 1, e)) = IF 1 <= e THEN e - 1 + 1 ELSE 0
        /\ \A k \in 1 .. e - 1 + 1 : SubSeq(Rr, 1, e)[k] = Rr[1 + k - 1]
    BY ONLY <1>1, <2>1, SubSeqProperties
  <2>4. e - 1 + 1 = e /\ \A k \in 1 .. e : 1 + k - 1 = k
    BY ONLY <1>1
  <2>5. Len(SubSeq(RE, 1, e)) = e /\ Len(SubSeq(Rr, 1, e)) = e
    BY ONLY <1>1, <2>2, <2>3
  <2>6. \A k \in 1 .. e : SubSeq(RE, 1, e)[k] = RE[k] /\ SubSeq(Rr, 1, e)[k] = Rr[k]
    BY ONLY <2>2, <2>3, <2>4
  <2>7. ASSUME \A k \in 1 .. e : RE[k] = Rr[k] PROVE Same
    <3>1. \A k \in 1 .. e : SubSeq(RE, 1, e)[k] = SubSeq(Rr, 1, e)[k]
      BY ONLY <2>6, <2>7
    <3> QED
      BY ONLY <2>2, <2>3, <2>5, <3>1, SeqEqual
  <2>8. ASSUME Same PROVE \A k \in 1 .. e : RE[k] = Rr[k]
    BY ONLY <2>6, <2>8
  <2> QED
    BY ONLY <2>7, <2>8
<1> HIDE DEF Same
<1>6. ASSUME e <= l, NEW k \in 1 .. e
      PROVE  /\ (e - k) + 1 \in 1 .. e
             /\ RE[k] = E[(e - k) + 1] /\ Rr[k] = r[(l - e) + ((e - k) + 1)]
  <2>1. /\ (e - k) + 1 \in 1 .. e /\ k \in 1 .. l
        /\ (l - e) + ((e - k) + 1) = (l - k) + 1
    BY ONLY <1>1, <1>6
  <2> QED
    BY ONLY <1>2, <1>3, <1>6, <2>1
<1>7. ASSUME e <= l
      PROVE  (\A k \in 1 .. e : RE[k] = Rr[k])
               <=> \A k \in 1 .. e : r[(l - e) + k] = E[k]
  <2>1. ASSUME \A k \in 1 .. e : RE[k] = Rr[k], NEW k \in 1 .. e
        PROVE  r[(l - e) + k] = E[k]
    <3> DEFINE m == (e - k) + 1
    <3>1. m \in 1 .. e /\ (e - m) + 1 = k
      BY ONLY <1>1, <2>1
    <3> HIDE DEF m
    <3>2. RE[m] = E[(e - m) + 1] /\ Rr[m] = r[(l - e) + ((e - m) + 1)]
      BY <1>6, <1>7, <3>1
    <3>3. RE[m] = Rr[m]
      BY ONLY <2>1, <3>1
    <3> QED
      BY ONLY <3>1, <3>2, <3>3
  <2>2. ASSUME \A k \in 1 .. e : r[(l - e) + k] = E[k], NEW k \in 1 .. e
        PROVE  RE[k] = Rr[k]
    <3> DEFINE m == (e - k) + 1
    <3>1. m \in 1 .. e /\ RE[k] = E[m] /\ Rr[k] = r[(l - e) + m]
      BY <1>6, <1>7, <2>2
    <3> HIDE DEF m
    <3> QED
      BY ONLY <2>2, <3>1
  <2> QED
    BY ONLY <2>1, <2>2
<1>8. IsSuffix(E, r) <=> e <= l /\ \A k \in 1 .. e : r[(l - e) + k] = E[k]
  BY ONLY <1>4, <1>5, <1>7
<1> QED
  BY <1>8 DEF e, l

\* What the client keeps of the reply, cut at the first delimiter: zeros and
\* the element, or less, that has no delimiter in it any more.
LEMMA CutReply ==
  ASSUME NEW E \in Seq(Bytes), Len(E) = ele_size,
         NEW R, R = Frame(E),
         NEW i \in Occurrences(R), \A k \in Occurrences(R) : i <= k
  PROVE  IsSuffix(E, SubSeq(R, 1, i - 1)) <=> Occurrences(E) = {}
<1> DEFINE n == ele_size
           r == SubSeq(R, 1, i - 1)
<1>1. n \in Nat \ {0} /\ Len(E) = n
  BY PlainServerAssumption
<1>2. /\ R \in Seq(Bytes) /\ Len(R) = 2 * n + 3
      /\ \A k \in n + 1 .. 2 * n : R[k] = E[k - n]
  <2>1. IsFrame(R, E)
    BY Framed
  <2> QED
    BY <2>1 DEF IsFrame
<1>3. i = 2 * n + 1 \/ i - n \in Occurrences(E)
  BY FramedOccurrences
<1>4. i \in 1 .. 2 * n + 1
  <2>1. i \in 1 .. Len(R) - 2
    BY DEF Occurrences
  <2> HIDE DEF n
  <2> QED
    BY ONLY <1>1, <1>2, <2>1
<1>5. /\ r \in Seq(Bytes) /\ Len(r) = i - 1
      /\ \A k \in 1 .. i - 1 : r[k] = R[k]
  <2> DEFINE m == i - 1
  <2> HIDE DEF n
  <2>1. m \in 0 .. 2 * n
    BY ONLY <1>1, <1>4
  <2> HIDE DEF m
  <2>2. \A k \in 1 .. m : R[k] \in Bytes
    <3>1. \A k \in 1 .. m : k \in 1 .. Len(R)
      BY ONLY <1>1, <1>2, <2>1
    <3> QED
      BY ONLY <1>2, <3>1, ElementOfSeq
  <2>3. /\ SubSeq(R, 1, m) \in Seq(Bytes)
        /\ Len(SubSeq(R, 1, m)) = IF 1 <= m THEN m - 1 + 1 ELSE 0
        /\ \A k \in 1 .. m - 1 + 1 : SubSeq(R, 1, m)[k] = R[1 + k - 1]
    <3>1. m \in Int /\ 1 \in Int
      BY ONLY <1>1, <2>1
    <3> QED
      BY ONLY <2>2, <3>1, SubSeqProperties
  <2>4. m - 1 + 1 = m /\ \A k \in 1 .. m : 1 + k - 1 = k
    BY ONLY <1>1, <2>1
  <2>5. Len(SubSeq(R, 1, m)) = m
    BY ONLY <1>1, <2>1, <2>3
  <2>6. \A k \in 1 .. m : SubSeq(R, 1, m)[k] = R[k]
    BY ONLY <2>3, <2>4
  <2> QED
    BY ONLY <2>3, <2>5, <2>6 DEF m
<1> HIDE DEF r, n
<1>6. Len(r) \in Nat /\ Len(E) \in Nat
  OBVIOUS
<1>7. ASSUME Occurrences(E) = {}
      PROVE  IsSuffix(E, r)
  <2>1. i = 2 * n + 1
    BY ONLY <1>3, <1>7
  <2>2. Len(r) = 2 * n /\ i - 1 = 2 * n
    BY ONLY <1>1, <1>5, <2>1
  <2>3. ASSUME NEW k \in 1 .. n PROVE r[Len(r) - Len(E) + k] = E[k]
    <3>1. /\ Len(r) - Len(E) + k = n + k /\ n + k \in n + 1 .. 2 * n
          /\ n + k \in 1 .. i - 1 /\ n + k - n = k
      BY ONLY <1>1, <2>2, <2>3
    <3> QED
      BY ONLY <1>1, <1>2, <1>5, <3>1
  <2>4. Len(E) <= Len(r) /\ \A k \in 1 .. Len(E) : r[Len(r) - Len(E) + k] = E[k]
    BY <1>1, <2>2, <2>3
  <2> QED
    BY <1>5, <2>4, SuffixIs
<1>8. ASSUME NEW j \in Occurrences(E), IsSuffix(E, r)
      PROVE  FALSE
  <2> DEFINE p == (Len(r) - Len(E)) + j
  <2>1. /\ j \in 1 .. n - 2 /\ E[j] = 58 /\ E[j + 1] = 113 /\ E[j + 2] = 33
    BY <1>1, <1>8, OccurrencesAre
  <2>2. Len(E) <= Len(r) /\ \A k \in 1 .. Len(E) : r[Len(r) - Len(E) + k] = E[k]
    BY <1>5, <1>8, SuffixIs
  <2>3. /\ p \in 1 .. i - 3 /\ p = (Len(r) - Len(E)) + j
        /\ p + 1 = (Len(r) - Len(E)) + (j + 1)
        /\ p + 2 = (Len(r) - Len(E)) + (j + 2)
        /\ j \in 1 .. Len(E) /\ j + 1 \in 1 .. Len(E) /\ j + 2 \in 1 .. Len(E)
    BY ONLY <1>1, <1>4, <1>5, <2>1, <2>2
  <2> HIDE DEF p
  <2>4. r[p] = 58 /\ r[p + 1] = 113 /\ r[p + 2] = 33
    <3>1. /\ r[(Len(r) - Len(E)) + j] = E[j]
          /\ r[(Len(r) - Len(E)) + (j + 1)] = E[j + 1]
          /\ r[(Len(r) - Len(E)) + (j + 2)] = E[j + 2]
      BY ONLY <2>2, <2>3
    <3>2. r[p] = E[j] /\ r[p + 1] = E[j + 1] /\ r[p + 2] = E[j + 2]
      BY ONLY <2>3, <3>1, Zenon
    <3> QED
      BY ONLY <2>1, <3>2
  <2>5. p \in 1 .. i - 1 /\ p + 1 \in 1 .. i - 1 /\ p + 2 \in 1 .. i - 1 /\ ~ (i <= p)
    BY ONLY <1>4, <1>1, <2>3
  <2>6. R[p] = 58 /\ R[p + 1] = 113 /\ R[p + 2] = 33
    BY ONLY <1>5, <2>4, <2>5
  <2>7. p \in 1 .. Len(R) - 2
    BY ONLY <1>1, <1>2, <1>4, <2>5
  <2>8. p \in Occurrences(R)
    BY <1>2, <2>6, <2>7, OccurrencesAre
  <2> QED
    BY <2>5, <2>8
<1> QED
  BY <1>7, <1>8 DEF r

-----------------------------------------------------------------------------
\* The bytes of the database entry, of an element there is.
LEMMA EntryIs ==
  ASSUME db_ \in [1 .. ele_num * ele_size -> ByteValues], NEW e \in 0 .. ele_num - 1
  PROVE  Entry(e) \in Seq(Bytes) /\ Len(Entry(e)) = ele_size
<1> DEFINE a == e * ele_size
           b == (e + 1) * ele_size
           c == ele_num * ele_size
<1>1. ele_size \in Nat \ {0} /\ ele_num \in Nat \ {0} /\ e \in Nat /\ e + 1 <= ele_num
  BY PlainServerAssumption
<1>2. a \in Nat /\ b = a + ele_size /\ b <= c /\ c \in Nat
  <2>1. a \in Nat /\ b = a + ele_size /\ c \in Nat
    BY <1>1
  <2>2. (e + 1) * ele_size <= ele_num * ele_size
    BY <1>1
  <2> QED
    BY <2>1, <2>2
<1> HIDE DEF a, b, c
<1>3. \A k \in a + 1 .. b : db_[k] \in Bytes
  <2>1. \A k \in a + 1 .. b : k \in 1 .. c
    BY ONLY <1>1, <1>2
  <2>2. db_ \in [1 .. c -> ByteValues] /\ ByteValues \subseteq Bytes
    BY PlainServerAssumption DEF c, Bytes
  <2> QED
    BY ONLY <2>1, <2>2
<1>4. /\ SubSeq(db_, a + 1, b) \in Seq(Bytes)
      /\ Len(SubSeq(db_, a + 1, b)) = IF a + 1 <= b THEN b - (a + 1) + 1 ELSE 0
  <2>1. a + 1 \in Int /\ b \in Int
    BY ONLY <1>1, <1>2
  <2> QED
    BY ONLY <1>3, <2>1, SubSeqProperties
<1>5. Len(SubSeq(db_, a + 1, b)) = ele_size
  BY ONLY <1>1, <1>2, <1>4
<1> QED
  BY <1>4, <1>5 DEF Entry, a, b

\* What has been sent is the reply to the last query, and what was received
\* is an element of the database, or what a delimiter left of it.
PlainInv ==
  /\ query \in 0 .. ele_num - 1
  /\ db_ = <<>> => sent = <<>> /\ reply_str = <<>>
  /\ db_ # <<>> => db_ \in [1 .. ele_num * ele_size -> ByteValues]
  /\ sent # <<>> => sent = Frame(Entry(query))
  /\ ElementArrives

\* Before the first query,
LEMMA PlainInit == Init => PlainInv
BY PlainServerAssumption DEF Init, PlainInv, ElementArrives

\* and after every step of server and client.
LEMMA PlainStep == PlainInv /\ [Next]_vars => PlainInv'
<1> SUFFICES ASSUME PlainInv, [Next]_vars PROVE PlainInv'
  OBVIOUS
<1>1. CASE gen_database
  <2>1. /\ sent = <<>> /\ reply_str = <<>>
        /\ sent' = sent /\ reply_str' = reply_str /\ query' = query
        /\ db_' \in [1 .. ele_num * ele_size -> ByteValues]
    BY <1>1 DEF gen_database, PlainInv
  <2>2. ElementArrives'
    BY <2>1 DEF ElementArrives
  <2> QED
    BY <2>1, <2>2 DEF PlainInv
<1>2. ASSUME NEW e \in 0 .. ele_num - 1, handle_read_plain(e)
      PROVE  PlainInv'
  <2>1. /\ db_ # <<>> /\ query' = e /\ db_' = db_ /\ reply_str' = reply_str
        /\ sent' = Frame(Entry(e))
    BY <1>2 DEF handle_read_plain, generate_reply, Frame
  <2>2. Entry(e) \in Seq(Bytes) /\ Len(Entry(e)) = ele_size
    BY <2>1, EntryIs DEF PlainInv
  <2>3. sent' # <<>>
    <3>1. IsFrame(sent', Entry(e))
      BY <2>1, <2>2, Framed
    <3>2. Len(sent') = 2 * ele_size + 3
      BY <3>1 DEF IsFrame
    <3> QED
      BY <3>2, PlainServerAssumption
  <2>4. ElementArrives'
    BY <2>3 DEF ElementArrives
  <2>5. Entry(e) = Entry(query)'
    BY <2>1 DEF Entry
  <2> QED
    BY <2>1, <2>4, <2>5 DEF PlainInv
<1>3. CASE read_reply
  <2>1. PICK i \in Occurrences(sent) :
          /\ \A k \in Occurrences(sent) : i <= k
          /\ reply_str' = SubSeq(sent, 1, i - 1)
    BY <1>3 DEF read_reply
  <2>2. /\ sent # <<>> /\ sent' = <<>> /\ db_' = db_ /\ query' = query
    BY <1>3 DEF read_reply
  <2>3. /\ db_ # <<>> /\ sent = Frame(Entry(query)) /\ query \in 0 .. ele_num - 1
        /\ db_ \in [1 .. ele_num * ele_size -> ByteValues]
    BY <2>2 DEF PlainInv
  <2>4. Entry(query) \in Seq(Bytes) /\ Len(Entry(query)) = ele_size
    BY <2>3, EntryIs
  <2>5. IsSuffix(Entry(query), SubSeq(sent, 1, i - 1)) <=> Occurrences(Entry(query)) = {}
    BY <2>1, <2>3, <2>4, CutReply
  <2>6. Entry(query)' = Entry(query)
    BY <2>2 DEF Entry
  <2>7. ElementArrives'
    BY <2>1, <2>5, <2>6 DEF ElementArrives
  <2> QED
    BY <2>2, <2>3, <2>7 DEF PlainInv
<1>4. CASE UNCHANGED vars
  BY <1>4 DEF vars, PlainInv, ElementArrives, Entry
<1> QED
  BY <1>1, <1>2, <1>3, <1>4 DEF Next

\* What a plain client receives ends in the element it asked for exactly when
\* the element does not contain ":q!": handle_read_plain's delimiter and the
\* client's read_until agree where a reply ends, and nothing that resize leaves
\* in front of the element is taken for a delimiter.
THEOREM PlainElementArrives ==
  Spec => []ElementArrives
<1>1. PlainInv => ElementArrives
  BY DEF PlainInv
<1> QED
  BY <1>1, PlainInit, PlainStep, PTL DEF Spec

\* What a string holds in front of one of its places.
LEMMA CutType ==
  ASSUME NEW str \in Seq(Bytes), NEW i \in 1 .. Len(str)
  PROVE  SubSeq(str, 1, i - 1) \in Seq(Bytes)
<1> DEFINE m == i - 1
<1>1. m \in Int /\ 1 \in Int /\ \A k \in 1 .. m : k \in 1 .. Len(str)
  OBVIOUS
<1>2. \A k \in 1 .. m : str[k] \in Bytes
  BY <1>1, ElementOfSeq
<1> HIDE DEF m
<1>3. SubSeq(str, 1, m) \in Seq(Bytes)
  BY <1>1, <1>2, SubSeqProperties
<1> QED
  BY <1>3 DEF m

\* What the server generates, sends and the client cuts off are bytes, the
\* database all those of its elements, for every number and length of them.
THEOREM PlainTypes ==
  Spec => []TypeOK
<1>1. Init => TypeOK
  BY PlainServerAssumption DEF Init, TypeOK
<1>2. TypeOK /\ PlainInv /\ [Next]_vars => TypeOK'
  <2> SUFFICES ASSUME TypeOK, PlainInv, [Next]_vars PROVE TypeOK'
    OBVIOUS
  <2>1. CASE gen_database
    <3> DEFINE c == ele_num * ele_size
    <3>1. c \in Nat /\ db_' \in [1 .. c -> ByteValues]
      BY <2>1, PlainServerAssumption DEF gen_database
    <3> HIDE DEF c
    <3>2. db_' \in Seq(ByteValues) /\ Len(db_') = c
      BY <3>1
    <3> QED
      BY <2>1, <3>2 DEF gen_database, TypeOK, c
  <2>2. ASSUME NEW e \in 0 .. ele_num - 1, handle_read_plain(e)
        PROVE  TypeOK'
    <3>1. /\ db_ # <<>> /\ query' = e /\ db_' = db_ /\ reply_str' = reply_str
          /\ sent' = Frame(Entry(e))
      BY <2>2 DEF handle_read_plain, generate_reply, Frame
    <3>2. Entry(e) \in Seq(Bytes) /\ Len(Entry(e)) = ele_size
      BY <3>1, EntryIs DEF PlainInv
    <3>3. sent' \in Seq(Bytes)
      BY <3>1, <3>2, Framed DEF IsFrame
    <3> QED
      BY <3>1, <3>3 DEF TypeOK, Bytes
  <2>3. CASE read_reply
    <3>1. PICK i \in Occurrences(sent) : reply_str' = SubSeq(sent, 1, i - 1)
      BY <2>3 DEF read_reply
    <3>2. sent \in Seq(Bytes)
      BY DEF TypeOK, Bytes
    <3>3. i \in 1 .. Len(sent)
      BY <3>2 DEF Occurrences
    <3>4. reply_str' \in Seq(Bytes)
      BY <3>1, <3>2, <3>3, CutType
    <3>5. sent' = <<>> /\ db_' = db_ /\ query' = query
      BY <2>3 DEF read_reply
    <3> QED
      BY <3>4, <3>5 DEF TypeOK, Bytes
  <2>4. CASE UNCHANGED vars
    BY <2>4 DEF vars, TypeOK
  <2> QED
    BY <2>1, <2>2, <2>3, <2>4 DEF Next
<1> QED
  BY <1>1, <1>2, PlainInit, PlainStep, PTL DEF Spec
=============================================================================
