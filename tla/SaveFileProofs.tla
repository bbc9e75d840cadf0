--------------------------- MODULE SaveFileProofs ---------------------------
(***************************************************************************)
(* Theorems about the save file, for every set of records, every number of *)
(* counters and every size of a value: the format can be read back, from a *)
(* whole file as from one that was cut off anywhere, and the file is the   *)
(* log of records it is meant to be.                                       *)
(***************************************************************************)
EXTENDS SaveFileDecoder, NumberInduction, SequenceTheorems

----------------------------------------------------------------------------
(* The recursive definitions have the functions they describe.             *)
LEMMA VarintEquation ==
  \A v \in Value :
    Varint[v] = IF v < 128 THEN <<v>> ELSE <<(v % 128) + 128>> \o Varint[v \div 128]
<1> DEFINE Body(f, v) == IF v < 128 THEN <<v>> ELSE <<(v % 128) + 128>> \o f[v \div 128]
           S == {m \in 0 .. MaxValue : \E f : \A v \in 0 .. m : f[v] = Body(f, v)}
<1>1. 0 \in S
  <2> DEFINE f == [v \in {0} |-> <<0>>]
  <2>1. \A v \in 0 .. 0 : f[v] = Body(f, v)
    OBVIOUS
  <2>2. 0 \in 0 .. MaxValue
    BY SaveAssumption
  <2> HIDE DEF f
  <2> QED
    BY <2>1, <2>2
<1>2. ASSUME NEW m \in 0 .. MaxValue - 1, m \in S PROVE m + 1 \in S
  <2>1. PICK f : \A v \in 0 .. m : f[v] = Body(f, v)
    BY <1>2
  <2> DEFINE g == [v \in 0 .. m + 1 |-> IF v = m + 1 THEN Body(f, v) ELSE f[v]]
  <2>2. ASSUME NEW v \in 0 .. m + 1 PROVE g[v] = Body(g, v)
    <3>1. g[v] = Body(f, v)
      BY <2>1
    <3>2. v >= 128 => g[v \div 128] = f[v \div 128]
      <4> SUFFICES ASSUME v >= 128 PROVE g[v \div 128] = f[v \div 128]
        OBVIOUS
      <4>1. v \div 128 \in 0 .. m
        BY <1>2, SaveAssumption
      <4> QED
        BY <4>1
    <3> QED
      BY <3>1, <3>2
  <2>3. m + 1 \in 0 .. MaxValue
    BY SaveAssumption
  <2> HIDE DEF g
  <2> QED
    BY <2>2, <2>3
<1>3. MaxValue \in S
  <2> HIDE DEF S
  <2>1. \A i \in 0 .. MaxValue : i \in S
    BY <1>1, <1>2, UpTo, SaveAssumption, Zenon
  <2> QED
    BY <2>1, SaveAssumption
<1>4. PICK f : \A v \in 0 .. MaxValue : f[v] = Body(f, v)
  BY <1>3
<1> DEFINE F == [v \in Value |-> f[v]]
<1>5. F = [v \in Value |-> Body(F, v)]
  <2>1. \A v \in Value : v \div 128 \in Value
    BY SaveAssumption DEF Value
  <2>2. ASSUME NEW v \in Value PROVE f[v] = Body(F, v)
    <3>1. f[v] = Body(f, v)
      BY <1>4 DEF Value
    <3>2. F[v \div 128] = f[v \div 128]
      BY <2>1
    <3> QED
      BY <3>1, <3>2, Zenon
  <2> QED
    BY <2>2, Zenon
<1>6. Varint = [v \in Value |-> Body(Varint, v)]
  <2> HIDE DEF F
  <2> QED
    BY <1>5 DEF Varint
<1> QED
  BY <1>6

LEMMA NumbersEquation ==
  ASSUME NEW s \in Seq(Byte)
  PROVE  \A k \in 1 .. Len(s) + 1 :
           Numbers(s)[k] = IF k > Len(s) THEN Incomplete
                           ELSE Groups(s[k], k, Numbers(s)[k + 1])
<1> DEFINE Body(f, k) == IF k > Len(s) THEN Incomplete ELSE Groups(s[k], k, f[k + 1])
           L == Len(s)
           S == {m \in 0 .. L : \E f : \A k \in L + 1 - m .. L + 1 : f[k] = Body(f, k)}
<1>0. L \in Nat
  OBVIOUS
<1>1. 0 \in S
  <2> DEFINE f == [k \in {L + 1} |-> Incomplete]
  <2>1. \A k \in L + 1 - 0 .. L + 1 : f[k] = Body(f, k)
    OBVIOUS
  <2> HIDE DEF f
  <2> QED
    BY <2>1
<1>2. ASSUME NEW m \in 0 .. L - 1, m \in S PROVE m + 1 \in S
  <2>1. PICK f : \A k \in L + 1 - m .. L + 1 : f[k] = Body(f, k)
    BY <1>2
  <2> DEFINE g == [k \in L - m .. L + 1 |-> IF k = L - m THEN Body(f, k) ELSE f[k]]
  <2>2. ASSUME NEW k \in L + 1 - (m + 1) .. L + 1 PROVE g[k] = Body(g, k)
    <3>1. k \in L - m .. L + 1 /\ (k # L - m => k \in L + 1 - m .. L + 1)
      BY <1>0
    <3>2. g[k] = Body(f, k)
      BY <2>1, <3>1
    <3>3. k <= L => g[k + 1] = f[k + 1]
      BY <3>1, <1>0
    <3> HIDE DEF g
    <3> QED
      BY <3>1, <3>2, <3>3
  <2>3. m + 1 \in 0 .. L
    BY <1>0
  <2> HIDE DEF g
  <2> QED
    BY <2>2, <2>3
<1>3. L \in S
  <2> HIDE DEF S, L
  <2>1. \A i \in 0 .. L : i \in S
    BY <1>0, <1>1, <1>2, UpTo, Zenon
  <2> QED
    BY <1>0, <2>1
<1>4. PICK f : \A k \in 1 .. L + 1 : f[k] = Body(f, k)
  BY <1>0, <1>3
<1> DEFINE F == [k \in 1 .. L + 1 |-> f[k]]
<1>5. F = [k \in 1 .. L + 1 |-> Body(F, k)]
  <2>1. \A k \in 1 .. L + 1 : ~(k > L) => k + 1 \in 1 .. L + 1
    BY <1>0
  <2> QED
    BY <1>4, <2>1
<1>6. Numbers(s) = [k \in 1 .. L + 1 |-> Body(Numbers(s), k)]
  <2> HIDE DEF F
  <2> QED
    BY <1>5 DEF Numbers
<1> QED
  BY <1>6

LEMMA CountersEquation ==
  ASSUME NEW s, NEW k
  PROVE  \E first : /\ ReadCounters(s, k) = first[Len(Reference)]
                    /\ first[0] = Read(<<>>, k)
                    /\ \A n \in 0 .. Len(Reference) - 1 :
                         first[n + 1] = AddCounter(s, first[n])
<1> DEFINE Body(f, n) == IF n = 0 THEN Read(<<>>, k) ELSE AddCounter(s, f[n - 1])
           L == Len(Reference)
           S == {m \in 0 .. L : \E f : \A n \in 0 .. m : f[n] = Body(f, n)}
<1>0. L \in Nat
  BY SaveAssumption
<1>1. 0 \in S
  <2> DEFINE f == [n \in {0} |-> Read(<<>>, k)]
  <2>1. \A n \in 0 .. 0 : f[n] = Body(f, n)
    OBVIOUS
  <2> HIDE DEF f
  <2> QED
    BY <1>0, <2>1
<1>2. ASSUME NEW m \in 0 .. L - 1, m \in S PROVE m + 1 \in S
  <2>1. PICK f : \A n \in 0 .. m : f[n] = Body(f, n)
    BY <1>2
  <2> DEFINE g == [n \in 0 .. m + 1 |-> IF n = m + 1 THEN Body(f, n) ELSE f[n]]
  <2>2. ASSUME NEW n \in 0 .. m + 1 PROVE g[n] = Body(g, n)
    <3>1. g[n] = Body(f, n)
      BY <2>1
    <3>2. n # 0 => g[n - 1] = f[n - 1]
      OBVIOUS
    <3> HIDE DEF g
    <3> QED
      BY <3>1, <3>2
  <2>3. m + 1 \in 0 .. L
    BY <1>0
  <2> HIDE DEF g
  <2> QED
    BY <2>2, <2>3
<1>3. L \in S
  <2> HIDE DEF S, L
  <2>1. \A i \in 0 .. L : i \in S
    BY <1>0, <1>1, <1>2, UpTo, Zenon
  <2> QED
    BY <1>0, <2>1
<1>4. PICK f : \A n \in 0 .. L : f[n] = Body(f, n)
  BY <1>0, <1>3
<1> DEFINE F == [n \in 0 .. L |-> f[n]]
<1>5. F = [n \in 0 .. L |-> Body(F, n)]
  <2>1. \A n \in 0 .. L : n # 0 => n - 1 \in 0 .. L
    BY <1>0
  <2> QED
    BY <1>4, <2>1
<1> DEFINE C == CHOOSE c : c = [n \in 0 .. L |-> Body(c, n)]
<1>6. C = [n \in 0 .. L |-> Body(C, n)]
  <2> HIDE DEF F
  <2> QED
    BY <1>5
<1>7. ReadCounters(s, k) = C[L]
  BY DEF ReadCounters
<1>8. C[0] = Read(<<>>, k) /\ \A n \in 0 .. L - 1 : C[n + 1] = AddCounter(s, C[n])
  <2> HIDE DEF C
  <2>1. 0 \in 0 .. L /\ \A n \in 0 .. L - 1 : n + 1 \in 0 .. L /\ n + 1 # 0 /\ (n + 1) - 1 = n
    BY <1>0
  <2> QED
    BY <1>6, <2>1
<1> HIDE DEF C
<1> QED
  BY <1>7, <1>8

(* The reader that knows no error code was written.                        *)
RecordAt(s, k) == ReadRecord(s, k, FALSE)
ExtraAt(s, k) == ReadOptional(s, k + 1, s[k] >= 128)
OneMore(s, before) == AddRecord(s, FALSE, before)
Decoded(s) == Decode(s, FALSE)

LEMMA DecodeEquation ==
  ASSUME NEW s \in Seq(Byte)
  PROVE  /\ ~ReadCounters(s, 1).ok => Decoded(s) = <<>>
         /\ ReadCounters(s, 1).ok =>
              \E first : /\ Decoded(s) = first[Len(s)].value
                         /\ first[0] = Read(<<ReadCounters(s, 1).value>>,
                                            ReadCounters(s, 1).next)
                         /\ \A n \in 0 .. Len(s) - 1 :
                              first[n + 1] = OneMore(s, first[n])
<1> DEFINE Start == Then(ReadCounters(s, 1), LAMBDA reference :
                      Read(<<reference.value>>, reference.next))
           Body(f, n) == IF n = 0 THEN Start ELSE OneMore(s, f[n - 1])
           L == Len(s)
           S == {m \in 0 .. L : \E f : \A n \in 0 .. m : f[n] = Body(f, n)}
           C == CHOOSE c : c = [n \in 0 .. L |-> Body(c, n)]
<1>0. L \in Nat
  OBVIOUS
<1>1. Decoded(s) = IF ReadCounters(s, 1).ok THEN C[L].value ELSE <<>>
  BY DEF Decode, Decoded, OneMore
<1>2. ReadCounters(s, 1).ok =>
        Start = Read(<<ReadCounters(s, 1).value>>, ReadCounters(s, 1).next)
  BY DEF Then
<1> HIDE DEF Start, L
<1>3. 0 \in S
  <2> DEFINE f == [n \in {0} |-> Start]
  <2>1. \A n \in 0 .. 0 : f[n] = Body(f, n)
    OBVIOUS
  <2> HIDE DEF f
  <2> QED
    BY <1>0, <2>1
<1>4. ASSUME NEW m \in 0 .. L - 1, m \in S PROVE m + 1 \in S
  <2>1. PICK f : \A n \in 0 .. m : f[n] = Body(f, n)
    BY <1>4
  <2> DEFINE g == [n \in 0 .. m + 1 |-> IF n = m + 1 THEN Body(f, n) ELSE f[n]]
  <2>2. ASSUME NEW n \in 0 .. m + 1 PROVE g[n] = Body(g, n)
    <3>1. g[n] = Body(f, n)
      BY <2>1
    <3>2. n # 0 => g[n - 1] = f[n - 1]
      OBVIOUS
    <3> HIDE DEF g
    <3> QED
      BY <3>1, <3>2
  <2>3. m + 1 \in 0 .. L
    BY <1>0
  <2> HIDE DEF g
  <2> QED
    BY <2>2, <2>3
<1>5. L \in S
  <2> HIDE DEF S
  <2>1. \A i \in 0 .. L : i \in S
    BY <1>0, <1>3, <1>4, UpTo, Zenon
  <2> QED
    BY <1>0, <2>1
<1>6. PICK f : \A n \in 0 .. L : f[n] = Body(f, n)
  BY <1>0, <1>5
<1> DEFINE F == [n \in 0 .. L |-> f[n]]
<1>7. F = [n \in 0 .. L |-> Body(F, n)]
  <2>1. \A n \in 0 .. L : n # 0 => n - 1 \in 0 .. L
    BY <1>0
  <2> QED
    BY <1>6, <2>1
<1>8. C = [n \in 0 .. L |-> Body(C, n)]
  <2> HIDE DEF F
  <2> QED
    BY <1>7
<1>9. C[0] = Start /\ \A n \in 0 .. L - 1 : C[n + 1] = OneMore(s, C[n])
  <2> HIDE DEF C
  <2>1. 0 \in 0 .. L /\ \A n \in 0 .. L - 1 : n + 1 \in 0 .. L /\ n + 1 # 0 /\ (n + 1) - 1 = n
    BY <1>0
  <2> QED
    BY <1>8, <2>1
<1> HIDE DEF C
<1> QED
  BY <1>1, <1>2, <1>9 DEF L

----------------------------------------------------------------------------
(* s is w, or w cut off somewhere.                                         *)
Begins(s, w) == Len(s) <= Len(w) /\ \A i \in 1 .. Len(s) : s[i] = w[i]

(* The bytes e follow the first a bytes of w.                              *)
Follows(w, a, e) ==
  a + Len(e) <= Len(w) /\ \A i \in 1 .. Len(e) : w[a + i] = e[i]

LEMMA VarintBytes ==
  \A v \in Value : Varint[v] \in Seq(Byte) /\ Varint[v] # <<>>
<1> DEFINE S == {v \in Value : Varint[v] \in Seq(Byte) /\ Varint[v] # <<>>}
<1>1. ASSUME NEW v \in 0 .. MaxValue, \A u \in 0 .. v - 1 : u \in S PROVE v \in S
  <2>1. v \in Value
    BY DEF Value
  <2>2. CASE v < 128
    <3>1. Varint[v] = <<v>>
      BY <2>1, <2>2, VarintEquation, Zenon
    <3>2. v \in Byte
      BY <2>2 DEF Byte
    <3>3. <<v>> \in Seq(Byte) /\ <<v>> # <<>>
      BY <3>2
    <3> QED
      BY <2>1, <3>1, <3>3, Zenon
  <2>3. CASE v >= 128
    <3>1. Varint[v] = <<(v % 128) + 128>> \o Varint[v \div 128]
      <4>1. ~(v < 128)
        BY <2>3
      <4> QED
        BY <2>1, <4>1, VarintEquation, Zenon
    <3>2. v \div 128 \in 0 .. v - 1 /\ (v % 128) + 128 \in Byte
      BY <2>3, SaveAssumption DEF Byte
    <3>3. Varint[v \div 128] \in Seq(Byte)
      BY <1>1, <3>2
    <3>4. Varint[v] \in Seq(Byte) /\ Len(Varint[v]) = 1 + Len(Varint[v \div 128])
      BY <3>1, <3>2, <3>3
    <3>5. Varint[v] # <<>>
      BY <3>3, <3>4
    <3> QED
      BY <2>1, <3>4, <3>5
  <2> QED
    BY <2>1, <2>2, <2>3, SaveAssumption DEF Value
<1>2. \A v \in 0 .. MaxValue : v \in S
  <2> HIDE DEF S
  <2> QED
    BY <1>1, UpToFromAll, SaveAssumption, Zenon
<1> QED
  BY <1>2 DEF Value

LEMMA FollowsRest ==
  ASSUME NEW w \in Seq(Byte), NEW a \in Nat, NEW low, NEW t \in Seq(Byte),
         Follows(w, a, <<low>> \o t)
  PROVE  Follows(w, a + 1, t)
<1> DEFINE e == <<low>> \o t
<1>1. Len(e) = 1 + Len(t) /\ \A i \in 1 .. Len(t) : e[1 + i] = t[i]
  OBVIOUS
<1> HIDE DEF e
<1>2. ASSUME NEW i \in 1 .. Len(t) PROVE w[(a + 1) + i] = t[i]
  <2>1. 1 + i \in 1 .. Len(e)
    BY <1>1
  <2>2. w[a + (1 + i)] = e[1 + i]
    BY <2>1 DEF Follows, e
  <2>3. a + (1 + i) = (a + 1) + i
    OBVIOUS
  <2> QED
    BY <1>1, <2>2, <2>3
<1>3. (a + 1) + Len(t) <= Len(w)
  BY <1>1 DEF Follows, e
<1> QED
  BY <1>2, <1>3 DEF Follows

(* A reader finds a number where it was written, or nothing if it was cut  *)
(* off.                                                                    *)
LEMMA NumberIsRead ==
  ASSUME NEW w \in Seq(Byte), NEW s \in Seq(Byte), Begins(s, w)
  PROVE  \A v \in Value : \A a \in 0 .. Len(s) :
           Follows(w, a, Varint[v]) =>
             Numbers(s)[a + 1] = IF a + Len(Varint[v]) <= Len(s)
                                 THEN Read(v, a + Len(Varint[v]) + 1) ELSE Incomplete
<1> DEFINE Found(v, a) ==
      Numbers(s)[a + 1] = IF a + Len(Varint[v]) <= Len(s)
                          THEN Read(v, a + Len(Varint[v]) + 1) ELSE Incomplete
           S == {v \in Value : \A a \in 0 .. Len(s) : Follows(w, a, Varint[v]) => Found(v, a)}
<1>1. ASSUME NEW v \in 0 .. MaxValue, \A u \in 0 .. v - 1 : u \in S PROVE v \in S
  <2>1. v \in Value
    BY DEF Value
  <2> SUFFICES ASSUME NEW a \in 0 .. Len(s), Follows(w, a, Varint[v])
               PROVE  Found(v, a)
    BY <2>1
  <2>2. Varint[v] \in Seq(Byte) /\ Len(Varint[v]) >= 1
    BY <2>1, VarintBytes
  <2>3. a + 1 \in 1 .. Len(s) + 1
    OBVIOUS
  <2>4. CASE a = Len(s)
    <3>1. Numbers(s)[a + 1] = Incomplete
      BY <2>3, <2>4, NumbersEquation
    <3> QED
      BY <2>2, <2>4, <3>1
  <2>5. CASE a < Len(s)
    <3>1. Numbers(s)[a + 1] = Groups(s[a + 1], a + 1, Numbers(s)[a + 2])
      BY <2>3, <2>5, NumbersEquation
    <3>2. s[a + 1] = Varint[v][1]
      BY <2>2, <2>5 DEF Begins, Follows
    <3>3. CASE v < 128
      <4>1. Varint[v] = <<v>>
        BY <2>1, <3>3, VarintEquation, Zenon
      <4>2. s[a + 1] = v /\ Len(Varint[v]) = 1
        BY <3>2, <4>1
      <4>3. Numbers(s)[a + 1] = Read(v, a + 2)
        BY <3>1, <3>3, <4>2 DEF Groups
      <4> QED
        BY <2>5, <4>2, <4>3
    <3>4. CASE v >= 128
      <4> DEFINE u == v \div 128
      <4>1. Varint[v] = <<(v % 128) + 128>> \o Varint[u]
        <5>1. ~(v < 128)
          BY <3>4
        <5> QED
          BY <2>1, <5>1, VarintEquation, Zenon
      <4>2. /\ u \in 0 .. v - 1 /\ u \in Value /\ u <= MaxValue \div 128
            /\ (v % 128) + 128 >= 128 /\ ((v % 128) + 128) - 128 + 128 * u = v
        BY <3>4, SaveAssumption DEF Value
      <4>3. Varint[u] \in Seq(Byte)
        BY <4>2, VarintBytes
      <4> HIDE DEF u
      <4>4. /\ Len(Varint[v]) = 1 + Len(Varint[u]) /\ Varint[v][1] = (v % 128) + 128
            /\ \A i \in 1 .. Len(Varint[u]) : Varint[v][1 + i] = Varint[u][i]
        BY <4>1, <4>3
      <4>5. Follows(w, a + 1, Varint[u])
        BY <4>1, <4>3, FollowsRest
      <4>6. Found(u, a + 1)
        <5>1. u \in S /\ a + 1 \in 0 .. Len(s)
          BY <1>1, <2>5, <4>2
        <5> HIDE DEF Found
        <5> QED
          BY <4>5, <5>1
      <4>7. Numbers(s)[a + 2] = IF a + Len(Varint[v]) <= Len(s)
                                THEN Read(u, a + Len(Varint[v]) + 1) ELSE Incomplete
        <5>1. /\ (a + 1) + 1 = a + 2 /\ Len(Varint[u]) \in Nat
              /\ (a + 1) + Len(Varint[u]) = a + Len(Varint[v])
          <6>1. Len(Varint[u]) \in Nat /\ Len(Varint[v]) = 1 + Len(Varint[u])
            BY <4>3, <4>4
          <6>2. a \in Nat
            OBVIOUS
          <6>3. \A i, m \in Nat : \A n : n = 1 + m =>
                  (i + 1) + 1 = i + 2 /\ (i + 1) + m = i + n
            OBVIOUS
          <6> QED
            BY <6>1, <6>2, <6>3, Zenon
        <5> QED
          BY <4>6, <5>1, Zenon
      <4> DEFINE low == (v % 128) + 128
                 n == a + Len(Varint[v]) + 1
      <4>8. Numbers(s)[a + 1] = Groups(low, a + 1, Numbers(s)[a + 2])
        BY <3>1, <3>2, <4>4, Zenon
      <4>9. ASSUME NEW rest, ~rest.ok PROVE Groups(low, a + 1, rest) = Incomplete
        <5>1. ~(low < 128)
          BY <4>2
        <5> HIDE DEF low
        <5> QED
          BY <4>9, <5>1 DEF Groups, Then
      <4>10. Groups(low, a + 1, Read(u, n)) = Read(v, n)
        <5>1. ~(low < 128) /\ ~(u > MaxValue \div 128)
          BY <4>2, SaveAssumption DEF Value
        <5>2. Read(u, n).ok /\ Read(u, n).value = u /\ Read(u, n).next = n
          BY DEF Read
        <5> HIDE DEF low, n
        <5>3. Groups(low, a + 1, Read(u, n)) = Read(low - 128 + 128 * u, n)
          BY <5>1, <5>2 DEF Groups, Then
        <5> QED
          BY <4>2, <5>3 DEF low
      <4>11. CASE a + Len(Varint[v]) <= Len(s)
        BY <4>7, <4>8, <4>10, <4>11, Zenon
      <4>12. CASE ~(a + Len(Varint[v]) <= Len(s))
        <5>1. Numbers(s)[a + 2] = Incomplete
          BY <4>7, <4>12, Zenon
        <5>2. ~Incomplete.ok
          BY DEF Incomplete
        <5> QED
          BY <4>8, <4>9, <4>12, <5>1, <5>2, Zenon
      <4> QED
        BY <4>11, <4>12
    <3> QED
      BY <3>3, <3>4, SaveAssumption
  <2> QED
    BY <2>4, <2>5
<1>2. \A v \in 0 .. MaxValue : v \in S
  <2> HIDE DEF S
  <2> QED
    BY <1>1, UpToFromAll, SaveAssumption, Zenon
<1> QED
  BY <1>2 DEF Value

----------------------------------------------------------------------------
LEMMA ReadFields ==
  /\ ~Incomplete.ok
  /\ \A v, n : Read(v, n).ok /\ Read(v, n).value = v /\ Read(v, n).next = n
  BY DEF Incomplete, Read

LEMMA NoCounterAfterNone ==
  \A s : AddCounter(s, Incomplete) = Incomplete
  BY ReadFields DEF AddCounter, Then

LEMMA NoCounter ==
  \A s, counters, k :
    Numbers(s)[k] = Incomplete => AddCounter(s, Read(counters, k)) = Incomplete
  BY ReadFields DEF AddCounter, Then

LEMMA OneMoreCounter ==
  \A s, counters, k, v, n :
    Numbers(s)[k] = Read(v, n) =>
      AddCounter(s, Read(counters, k)) = Read(Append(counters, v), n)
  BY ReadFields DEF AddCounter, Then

(* What the function in ReadCounters has read after each counter.          *)
CounterSteps(s, k, first) ==
  /\ ReadCounters(s, k) = first[Len(Reference)]
  /\ first[0] = Read(<<>>, k)
  /\ \A n \in 0 .. Len(Reference) - 1 : first[n + 1] = AddCounter(s, first[n])

LEMMA CountersAreSteps ==
  \A s, k : \E first : CounterSteps(s, k, first)
  BY CountersEquation DEF CounterSteps

(* The same for the counters, which follow one another at the places at.   *)
LEMMA CountersAreRead ==
  ASSUME NEW w \in Seq(Byte), NEW s \in Seq(Byte), Begins(s, w),
         NEW counters \in Seq(Value), Len(counters) = Len(Reference),
         NEW at, \A i \in 0 .. Len(Reference) : at[i] \in Nat,
         at[0] <= Len(s),
         \A i \in 0 .. Len(Reference) - 1 :
           /\ Follows(w, at[i], Varint[counters[i + 1]])
           /\ at[i + 1] = at[i] + Len(Varint[counters[i + 1]])
  PROVE  ReadCounters(s, at[0] + 1) =
           IF at[Len(Reference)] <= Len(s)
           THEN Read(counters, at[Len(Reference)] + 1) ELSE Incomplete
<1>0. PICK first : CounterSteps(s, at[0] + 1, first)
  BY CountersAreSteps, Zenon
<1> DEFINE N == Len(Reference)
           Found(i) == IF at[i] <= Len(s) THEN Read(SubSeq(counters, 1, i), at[i] + 1)
                       ELSE Incomplete
<1>1. /\ ReadCounters(s, at[0] + 1) = first[N]
      /\ first[0] = Read(<<>>, at[0] + 1)
      /\ \A n \in 0 .. N - 1 : first[n + 1] = AddCounter(s, first[n])
  BY <1>0 DEF CounterSteps
<1>2. N \in Nat /\ Len(s) \in Nat
  BY SaveAssumption
<1> DEFINE S == {i \in 0 .. N : first[i] = Found(i)}
<1>3. 0 \in S
  <2>1. SubSeq(counters, 1, 0) = <<>>
    OBVIOUS
  <2>2. Found(0) = Read(<<>>, at[0] + 1)
    BY <2>1, Zenon
  <2>3. 0 \in 0 .. N
    BY <1>2
  <2> QED
    BY <1>1, <2>2, <2>3, Zenon
<1>4. ASSUME NEW i \in 0 .. N - 1, i \in S PROVE i + 1 \in S
  <2> DEFINE v == counters[i + 1]
  <2>1. /\ v \in Value /\ i \in 0 .. N /\ i + 1 \in 0 .. N
        /\ at[i] \in Nat /\ at[i + 1] \in Nat /\ Len(Varint[v]) \in Nat
    BY <1>2, VarintBytes
  <2>2. Follows(w, at[i], Varint[v]) /\ at[i + 1] = at[i] + Len(Varint[v])
    OBVIOUS
  <2>3. first[i] = Found(i)
    BY <1>4
  <2>6. first[i + 1] = AddCounter(s, first[i])
    BY <1>1
  <2> HIDE DEF v
  <2>4. CASE at[i] <= Len(s)
    <3>1. first[i] = Read(SubSeq(counters, 1, i), at[i] + 1)
      BY <2>3, <2>4, Zenon
    <3>2. at[i] \in 0 .. Len(s)
      BY <2>1, <2>4
    <3>3. Numbers(s)[at[i] + 1] = IF at[i] + Len(Varint[v]) <= Len(s)
                                  THEN Read(v, at[i] + Len(Varint[v]) + 1) ELSE Incomplete
      BY <2>1, <2>2, <3>2, NumberIsRead
    <3>4. Numbers(s)[at[i] + 1] = IF at[i + 1] <= Len(s)
                                  THEN Read(v, at[i + 1] + 1) ELSE Incomplete
      BY <2>2, <3>3, Zenon
    <3>5. Append(SubSeq(counters, 1, i), v) = SubSeq(counters, 1, i + 1)
      BY <1>2 DEF v
    <3>6. CASE at[i + 1] <= Len(s)
      <4>1. Numbers(s)[at[i] + 1] = Read(v, at[i + 1] + 1)
        BY <3>4, <3>6, Zenon
      <4>2. first[i + 1] = Read(Append(SubSeq(counters, 1, i), v), at[i + 1] + 1)
        <5>1. AddCounter(s, Read(SubSeq(counters, 1, i), at[i] + 1)) =
                Read(Append(SubSeq(counters, 1, i), v), at[i + 1] + 1)
          BY <4>1, OneMoreCounter
        <5> QED
          BY <2>6, <3>1, <5>1
      <4>3. first[i + 1] = Found(i + 1)
        BY <3>5, <3>6, <4>2, Zenon
      <4> QED
        BY <2>1, <4>3, Zenon
    <3>7. CASE ~(at[i + 1] <= Len(s))
      <4>1. Numbers(s)[at[i] + 1] = Incomplete
        BY <3>4, <3>7, Zenon
      <4>2. first[i + 1] = Incomplete
        <5>1. AddCounter(s, Read(SubSeq(counters, 1, i), at[i] + 1)) = Incomplete
          BY <4>1, NoCounter
        <5> QED
          BY <2>6, <3>1, <5>1
      <4>3. first[i + 1] = Found(i + 1)
        BY <3>7, <4>2, Zenon
      <4> QED
        BY <2>1, <4>3, Zenon
    <3> QED
      BY <3>6, <3>7
  <2>5. CASE ~(at[i] <= Len(s))
    <3>1. first[i] = Incomplete
      BY <2>3, <2>5, Zenon
    <3>2. first[i + 1] = Incomplete
      BY <2>6, <3>1, NoCounterAfterNone, Zenon
    <3>3. ~(at[i + 1] <= Len(s))
      BY <1>2, <2>1, <2>2, <2>5
    <3>4. first[i + 1] = Found(i + 1)
      BY <3>2, <3>3, Zenon
    <3> QED
      BY <2>1, <3>4, Zenon
  <2> QED
    BY <2>4, <2>5
<1>5. N \in S
  <2> HIDE DEF S
  <2>1. \A i \in 0 .. N : i \in S
    BY <1>2, <1>3, <1>4, UpTo, Zenon
  <2> QED
    BY <1>2, <2>1
<1>6. SubSeq(counters, 1, N) = counters
  OBVIOUS
<1>7. first[N] = Found(N)
  BY <1>5
<1> QED
  BY <1>1, <1>6, <1>7, Zenon

----------------------------------------------------------------------------
(* The writes one after the other, at the places cut of w.                 *)
Laid(w, cut, writes) ==
  /\ \A i \in 0 .. Len(writes) : cut[i] \in Nat
  /\ \A i \in 0 .. Len(writes) - 1 :
       /\ Follows(w, cut[i], writes[i + 1])
       /\ cut[i + 1] = cut[i] + Len(writes[i + 1])

Writes == Seq(Seq(Byte) \ {<<>>})

LEMMA CutsGrow ==
  ASSUME NEW w, NEW cut, NEW writes \in Writes, Laid(w, cut, writes)
  PROVE  \A i, j \in 0 .. Len(writes) : i < j => cut[i] < cut[j]
<1> DEFINE m == Len(writes)
           S == {j \in 0 .. m : \A i \in 0 .. m : i < j => cut[i] < cut[j]}
<1>1. m \in Nat
  BY DEF Writes
<1>2. 0 \in S
  BY <1>1
<1>3. ASSUME NEW j \in 0 .. m - 1, j \in S PROVE j + 1 \in S
  <2>1. Len(writes[j + 1]) \in Nat /\ Len(writes[j + 1]) > 0
    <3>1. writes[j + 1] \in Seq(Byte) \ {<<>>}
      BY <1>1 DEF Writes
    <3> QED
      BY <3>1
  <2>2. cut[j] \in Nat /\ cut[j + 1] \in Nat /\ cut[j + 1] = cut[j] + Len(writes[j + 1])
    BY <1>1 DEF Laid
  <2>3. ASSUME NEW i \in 0 .. m, i < j + 1 PROVE cut[i] < cut[j + 1]
    <3>1. cut[i] \in Nat
      BY DEF Laid
    <3>2. i = j \/ cut[i] < cut[j]
      BY <1>1, <1>3, <2>3
    <3> QED
      BY <2>1, <2>2, <3>1, <3>2
  <2>4. j + 1 \in 0 .. m
    BY <1>1
  <2> QED
    BY <2>3, <2>4
<1>4. \A j \in 0 .. m : j \in S
  <2> HIDE DEF S
  <2> QED
    BY <1>1, <1>2, <1>3, UpTo, Zenon
<1> QED
  BY <1>4

(* The byte before a record's counters, in any record.                     *)
LEMMA ExceptionByteFields ==
  ASSUME NEW r \in Record
  PROVE  /\ ExceptionByte(r) \in Byte /\ ExceptionByte(r) % 128 = r.exception
         /\ ExceptionByte(r) >= 128 <=> r.extra # NoData
         /\ ~IsMasked(ExceptionByte(r))
<1>1. r.exception \in 0 .. 31
  BY SaveAssumption
<1> DEFINE x == ExceptionByte(r)
<1>2. x = IF r.extra # NoData THEN r.exception + 128 ELSE r.exception
  BY <1>1 DEF ExceptionByte
<1>3. x \in 0 .. 255 /\ x % 128 = r.exception
  BY <1>1, <1>2
<1>4. x >= 128 <=> r.extra # NoData
  BY <1>1, <1>2
<1> HIDE DEF x
<1>5. /\ x \div 2^8 = 0 /\ x \div 2^10 = 0 /\ x \div 2^11 = 0 /\ x \div 2^12 = 0
      /\ x \div 2^13 = 0 /\ x \div 2^14 = 0 /\ x \div 2^17 = 0 /\ x \div 2^21 = 0
  BY <1>3
<1>6. ASSUME NEW bit \in ErrorCodeVectors PROVE (x \div 2^bit) % 2 # 1
  <2>1. x \div 2^bit = 0
    BY <1>5, <1>6 DEF ErrorCodeVectors
  <2> QED
    BY <2>1
<1> QED
  BY <1>3, <1>4, <1>6 DEF x, Byte, IsMasked

LEMMA NotEmpty ==
  ASSUME NEW q \in Seq(Byte), Len(q) \in 1 .. 15
  PROVE  q # <<>>
  OBVIOUS

LEMMA TwoParts ==
  ASSUME NEW W, NEW a \in Seq(W), NEW b \in Seq(W)
  PROVE  /\ a \o b \in Seq(W) /\ Len(a \o b) = Len(a) + Len(b)
         /\ \A i \in 1 .. Len(a) : (a \o b)[i] = a[i]
         /\ \A i \in 1 .. Len(b) : (a \o b)[Len(a) + i] = b[i]
  OBVIOUS

LEMMA ThreeParts ==
  ASSUME NEW W, NEW a \in Seq(W), NEW b \in Seq(W), NEW c \in Seq(W)
  PROVE  /\ (a \o b) \o c \in Seq(W)
         /\ Len((a \o b) \o c) = Len(a) + Len(b) + Len(c)
         /\ \A i \in 1 .. Len(a) : ((a \o b) \o c)[i] = a[i]
         /\ \A i \in 1 .. Len(b) : ((a \o b) \o c)[Len(a) + i] = b[i]
         /\ \A i \in 1 .. Len(c) : ((a \o b) \o c)[Len(a) + Len(b) + i] = c[i]
<1> DEFINE u == a \o b
           t == u \o c
<1>0. u \in Seq(W)
  BY TwoParts
<1>1. /\ Len(u) = Len(a) + Len(b)
      /\ \A i \in 1 .. Len(a) : u[i] = a[i]
      /\ \A i \in 1 .. Len(b) : u[Len(a) + i] = b[i]
  BY TwoParts
<1> HIDE DEF u
<1>2. /\ t \in Seq(W) /\ Len(t) = Len(u) + Len(c)
      /\ \A i \in 1 .. Len(u) : t[i] = u[i]
      /\ \A i \in 1 .. Len(c) : t[Len(u) + i] = c[i]
  BY <1>0, TwoParts
<1> HIDE DEF t
<1>3. Len(a) \in Nat /\ Len(b) \in Nat /\ Len(c) \in Nat
  OBVIOUS
<1>4. Len(t) = Len(a) + Len(b) + Len(c)
  BY <1>1, <1>2
<1>5. ASSUME NEW i \in 1 .. Len(a) PROVE t[i] = a[i]
  <2>1. i \in 1 .. Len(u)
    BY <1>1, <1>3
  <2> QED
    BY <1>1, <1>2, <2>1
<1>6. ASSUME NEW i \in 1 .. Len(b) PROVE t[Len(a) + i] = b[i]
  <2>1. Len(a) + i \in 1 .. Len(u)
    BY <1>1, <1>3
  <2> QED
    BY <1>1, <1>2, <2>1
<1>7. ASSUME NEW i \in 1 .. Len(c) PROVE t[Len(a) + Len(b) + i] = c[i]
  BY <1>1, <1>2
<1> QED
  BY <1>2, <1>4, <1>5, <1>6, <1>7 DEF t, u

(* Whether the record has extra data, as a number of fields.               *)
Extras(r) == IF r.extra # NoData THEN 1 ELSE 0

(* The writes of a record by their places: the exception, the extra data   *)
(* if there are any, the counters, the length and type, the bytes.  The    *)
(* mask is of vectors and never has a bit of the byte it is tested with,   *)
(* so that there is no error code.                                         *)
LEMMA RecordFields ==
  ASSUME NEW r \in Record
  PROVE  LET c == 1 + Extras(r)
             n == Len(Reference)
             t == RecordWrites(r)
         IN  /\ Len(t) = c + n + 2 /\ n \in Nat /\ t \in Writes
             /\ t[1] = <<ExceptionByte(r)>>
             /\ r.extra # NoData => t[2] = Varint[r.extra]
             /\ \A i \in 1 .. n : t[c + i] = Varint[r.counters[i]]
             /\ t[c + n + 1] = <<Len(r.bytes) + 16 * r.type>>
             /\ t[c + n + 2] = r.bytes
<1> DEFINE c == 1 + Extras(r)
           n == Len(Reference)
           W == Seq(Byte) \ {<<>>}
           x == <<ExceptionByte(r)>>
           extra == IF r.extra # NoData THEN <<Varint[r.extra]>> ELSE <<>>
           head == <<x>> \o extra
           middle == CounterWrites(r.counters)
           y == <<Len(r.bytes) + 16 * r.type>>
           tail == <<y, r.bytes>>
<1>1. /\ r.extra \in Value \cup {NoData} /\ r.counters \in Seq(Value)
      /\ Len(r.counters) = n /\ n \in Nat /\ r.bytes \in Seq(Byte)
      /\ Len(r.bytes) \in 1 .. 15 /\ r.type \in 1 .. 7
  BY SaveAssumption
<1>2. x \in W
  BY ExceptionByteFields
<1>3. /\ head \in Seq(W) /\ Len(head) = c /\ head[1] = x
      /\ r.extra # NoData => head[2] = Varint[r.extra]
  <2>1. <<x>> \in Seq(W) /\ Len(<<x>>) = 1 /\ <<x>>[1] = x
    <3> HIDE DEF W, x
    <3> QED
      BY <1>2
  <2>2. extra \in Seq(W) /\ c = 1 + Len(extra)
    <3>1. CASE r.extra # NoData
      <4>1. Varint[r.extra] \in W
        BY <1>1, <3>1, VarintBytes
      <4>2. extra = <<Varint[r.extra]>> /\ c = 2
        BY <3>1 DEF Extras
      <4> HIDE DEF W, extra, c
      <4> QED
        BY <4>1, <4>2
    <3>2. CASE r.extra = NoData
      <4>1. extra = <<>> /\ c = 1
        BY <3>2 DEF Extras
      <4> HIDE DEF W, extra, c
      <4> QED
        BY <4>1
    <3> QED
      BY <3>1, <3>2
  <2>3. r.extra # NoData => Len(extra) = 1 /\ extra[1] = Varint[r.extra]
    <3> SUFFICES ASSUME r.extra # NoData
                 PROVE  Len(extra) = 1 /\ extra[1] = Varint[r.extra]
      OBVIOUS
    <3>1. extra = <<Varint[r.extra]>>
      OBVIOUS
    <3> HIDE DEF extra
    <3> QED
      BY <3>1
  <2> HIDE DEF W, x, extra, c
  <2>4. /\ head \in Seq(W) /\ Len(head) = 1 + Len(extra)
        /\ \A i \in 1 .. 1 : head[i] = <<x>>[i]
        /\ \A i \in 1 .. Len(extra) : head[1 + i] = extra[i]
    BY <2>1, <2>2, TwoParts
  <2>5. head[1] = x
    BY <2>1, <2>4
  <2>6. r.extra # NoData => head[2] = Varint[r.extra]
    <3>1. Len(extra) = 1 => head[1 + 1] = extra[1]
      BY <2>4
    <3> QED
      BY <2>3, <3>1
  <2> QED
    BY <2>2, <2>4, <2>5, <2>6
<1>4. /\ middle \in Seq(W) /\ Len(middle) = n
      /\ \A i \in 1 .. n : middle[i] = Varint[r.counters[i]]
  <2>1. middle = [i \in 1 .. n |-> Varint[r.counters[i]]]
    BY <1>1 DEF CounterWrites
  <2>2. \A i \in 1 .. n : Varint[r.counters[i]] \in W
    BY <1>1, VarintBytes
  <2> HIDE DEF W, middle
  <2> QED
    BY <1>1, <2>1, <2>2
<1>5. tail \in Seq(W) /\ Len(tail) = 2 /\ tail[1] = y /\ tail[2] = r.bytes
  <2>1. y \in W
    <3>1. Len(r.bytes) + 16 * r.type \in 0 .. 255
      <4>1. \A a \in 1 .. 15, b \in 1 .. 7 : a + 16 * b \in 0 .. 255
        OBVIOUS
      <4> QED
        BY <1>1, <4>1, Zenon
    <3> QED
      BY <3>1 DEF Byte
  <2>2. r.bytes \in W
    <3>1. \A q \in Seq(Byte) : Len(q) \in 1 .. 15 => q # <<>>
      BY NotEmpty
    <3> QED
      BY <1>1, <3>1, Zenon
  <2> HIDE DEF W, y
  <2> QED
    BY <2>1, <2>2
<1>6. RecordWrites(r) = (head \o middle) \o tail
  <2>1. ~IsMasked(ExceptionByte(r))
    BY ExceptionByteFields
  <2>2. <<x>> \o <<>> = <<x>>
    OBVIOUS
  <2> HIDE DEF middle
  <2> QED
    BY <2>1, <2>2, Zenon DEF RecordWrites, middle
<1> HIDE DEF W, head, middle, tail
<1> DEFINE t == (head \o middle) \o tail
<1>15. /\ t \in Seq(W) /\ Len(t) = Len(head) + Len(middle) + Len(tail)
       /\ \A i \in 1 .. Len(head) : t[i] = head[i]
       /\ \A i \in 1 .. Len(middle) : t[Len(head) + i] = middle[i]
       /\ \A i \in 1 .. Len(tail) : t[Len(head) + Len(middle) + i] = tail[i]
  <2>1. head \in Seq(W) /\ middle \in Seq(W) /\ tail \in Seq(W)
    BY <1>3, <1>4, <1>5
  <2> QED
    BY <2>1, ThreeParts
<1>7. t \in Seq(W) /\ Len(t) = c + n + 2
  BY <1>3, <1>4, <1>5, <1>15, Zenon
<1>8. \A i \in 1 .. c : t[i] = head[i]
  BY <1>3, <1>15, Zenon
<1>9. \A i \in 1 .. n : t[c + i] = middle[i]
  BY <1>3, <1>4, <1>15, Zenon
<1>10. t[c + n + 1] = tail[1] /\ t[c + n + 2] = tail[2]
  <2>1. 1 \in 1 .. 2 /\ 2 \in 1 .. 2
    OBVIOUS
  <2> QED
    BY <1>3, <1>4, <1>5, <1>15, <2>1, Zenon
<1>12. c \in {1, 2} /\ (r.extra # NoData => c = 2)
  BY DEF Extras
<1>13. t[1] = x /\ (r.extra # NoData => t[2] = Varint[r.extra])
  <2>1. 1 \in 1 .. c /\ (r.extra # NoData => 2 \in 1 .. c)
    BY <1>12
  <2>2. t[1] = head[1] /\ (r.extra # NoData => t[2] = head[2])
    BY <1>8, <2>1
  <2> QED
    BY <1>3, <2>2, Zenon
<1> HIDE DEF t, x, y, c
<1>14. RecordWrites(r) = t
  BY <1>6 DEF t
<1> QED
  BY <1>1, <1>4, <1>5, <1>7, <1>9, <1>10, <1>13, <1>14 DEF W, Writes, c, x, y

----------------------------------------------------------------------------
LEMMA NoErrorCode ==
  ASSUME NEW s, NEW k
  PROVE  ReadOptional(s, k + 1, FALSE /\ s[k] % 128 \in ErrorCodeVectors) = Read(NoData, k + 1)
  BY DEF ReadOptional

(* ReadRecord, from what the readers of the fields return.                 *)
LEMMA RecordSteps ==
  ASSUME NEW s, NEW k, ~(k > Len(s)),
         NEW extra, extra = ExtraAt(s, k),
         NEW counters, counters = ReadCounters(s, extra.next),
         NEW instruction, instruction = ReadInstruction(s, counters.next)
  PROVE  /\ ~extra.ok \/ ~counters.ok \/ ~instruction.ok =>
              RecordAt(s, k) = Incomplete
         /\ extra.ok /\ counters.ok /\ instruction.ok =>
              RecordAt(s, k) =
                Read([exception |-> s[k] % 128, error_code |-> NoData,
                      extra |-> extra.value, counters |-> counters.value,
                      type |-> instruction.value.type,
                      bytes |-> instruction.value.bytes], instruction.next)
<1> DEFINE Result(c, x, n, i) ==
             Read([exception |-> s[k] % 128, error_code |-> c.value, extra |-> x.value,
                   counters |-> n.value, type |-> i.value.type, bytes |-> i.value.bytes],
                  i.next)
           AfterCounters(c, x, n) ==
             Then(ReadInstruction(s, n.next), LAMBDA i : Result(c, x, n, i))
           AfterExtra(c, x) ==
             Then(ReadCounters(s, x.next), LAMBDA n : AfterCounters(c, x, n))
           AfterCode(c) ==
             Then(ReadOptional(s, c.next, s[k] >= 128), LAMBDA x : AfterExtra(c, x))
           code == ReadOptional(s, k + 1, FALSE /\ s[k] % 128 \in ErrorCodeVectors)
<1>1. RecordAt(s, k) = Then(code, LAMBDA c : AfterCode(c))
  BY DEF RecordAt, ReadRecord
<1>2. code = Read(NoData, k + 1)
  BY NoErrorCode
<1>3. code.ok /\ code.value = NoData /\ code.next = k + 1
  BY <1>2, ReadFields
<1> HIDE DEF Result, code
<1>4. IF instruction.ok
      THEN AfterCounters(code, extra, counters) = Result(code, extra, counters, instruction)
      ELSE AfterCounters(code, extra, counters) = Incomplete
  BY DEF Then
<1> HIDE DEF AfterCounters
<1>5. IF counters.ok
      THEN AfterExtra(code, extra) = AfterCounters(code, extra, counters)
      ELSE AfterExtra(code, extra) = Incomplete
  BY DEF Then
<1> HIDE DEF AfterExtra
<1>6. IF extra.ok THEN AfterCode(code) = AfterExtra(code, extra)
      ELSE AfterCode(code) = Incomplete
  BY <1>3 DEF Then, ExtraAt
<1> HIDE DEF AfterCode
<1>7. RecordAt(s, k) = AfterCode(code)
  <2>1. Then(code, LAMBDA c : AfterCode(c)) = AfterCode(code)
    BY <1>3 DEF Then
  <2> QED
    BY <1>1, <2>1, Zenon
<1>8. CASE extra.ok /\ counters.ok /\ instruction.ok
  <2>1. RecordAt(s, k) = Result(code, extra, counters, instruction)
    BY <1>4, <1>5, <1>6, <1>7, <1>8
  <2> QED
    BY <1>3, <1>8, <2>1 DEF Result
<1>9. CASE ~(extra.ok /\ counters.ok /\ instruction.ok)
  BY <1>4, <1>5, <1>6, <1>7, <1>9
<1> QED
  BY <1>8, <1>9

LEMMA LengthAndType ==
  \A n \in 1 .. 15, type \in 1 .. 7 :
    (n + 16 * type) % 16 = n /\ (n + 16 * type) \div 16 = type
  OBVIOUS

(* Positions are compared in contexts where the prover needs them plain.   *)
LEMMA Positions ==
  /\ \A a, b \in Nat : a < b => a + 1 \in 1 .. b /\ ~(a + 1 > b)
  /\ \A a, b \in Nat : a <= b => a = b \/ a < b
  /\ \A a, b \in Nat : a + b + 2 = (a + 1 + b) + 1
  OBVIOUS

LEMMA InstructionIsRead ==
  ASSUME NEW w \in Seq(Byte), NEW s \in Seq(Byte), Begins(s, w),
         NEW p \in Nat, p <= Len(s), NEW type \in 1 .. 7,
         NEW bytes \in Seq(Byte), Len(bytes) \in 1 .. 15,
         Follows(w, p, <<Len(bytes) + 16 * type>>), Follows(w, p + 1, bytes)
  PROVE  ReadInstruction(s, p + 1) =
           IF p + 1 + Len(bytes) <= Len(s)
           THEN Read([type |-> type, bytes |-> bytes], p + Len(bytes) + 2)
           ELSE Incomplete
<1> DEFINE n == Len(bytes)
           y == n + 16 * type
<1>1. y % 16 = n /\ y \div 16 = type /\ n \in 1 .. 15
  BY LengthAndType, Zenon
<1>2. CASE p = Len(s)
  BY <1>2 DEF ReadInstruction
<1>3. CASE p < Len(s)
  <2>1. w[p + 1] = y
    <3>1. Len(<<y>>) = 1 /\ <<y>>[1] = y
      OBVIOUS
    <3> QED
      BY <3>1 DEF Follows
  <2>2. s[p + 1] = y
    BY <1>3, <2>1 DEF Begins
  <2> HIDE DEF y, n
  <2>3. s[p + 1] % 16 = n /\ s[p + 1] \div 16 = type
    BY <1>1, <2>2
  <2>4. CASE p + 1 + n <= Len(s)
    <3>1. SubSeq(s, p + 2, p + 1 + n) = bytes
      <4>1. /\ SubSeq(s, p + 2, p + 1 + n) \in Seq(Byte)
            /\ Len(SubSeq(s, p + 2, p + 1 + n)) = n
            /\ \A i \in 1 .. n : SubSeq(s, p + 2, p + 1 + n)[i] = s[p + 1 + i]
        BY <1>1, <2>4
      <4>2. ASSUME NEW i \in 1 .. n PROVE s[p + 1 + i] = bytes[i]
        <5>1. p + 1 + i \in 1 .. Len(s)
          BY <1>1, <2>4
        <5>2. s[p + 1 + i] = w[p + 1 + i]
          BY <5>1 DEF Begins
        <5>3. w[p + 1 + i] = bytes[i]
          BY DEF Follows, n
        <5> QED
          BY <5>2, <5>3
      <4>3. \A i \in 1 .. n : SubSeq(s, p + 2, p + 1 + n)[i] = bytes[i]
        BY <4>1, <4>2
      <4> QED
        BY <4>1, <4>3, SeqEqual DEF n
    <3>2. ReadInstruction(s, p + 1) =
            Read([type |-> type, bytes |-> SubSeq(s, p + 2, p + 1 + n)], p + n + 2)
      <4>1. /\ p + 1 <= Len(s) /\ (p + 1) + n <= Len(s)
            /\ (p + 1) + 1 = p + 2 /\ (p + 1) + n = p + 1 + n
            /\ ((p + 1) + n) + 1 = p + n + 2
        BY <1>1, <1>3, <2>4
      <4> QED
        BY <2>3, <4>1 DEF ReadInstruction
    <3> QED
      BY <2>4, <3>1, <3>2 DEF n
  <2>5. CASE ~(p + 1 + n <= Len(s))
    <3>1. ReadInstruction(s, p + 1) = Incomplete
      BY <1>1, <2>3, <2>5 DEF ReadInstruction
    <3> QED
      BY <2>5, <3>1 DEF n
  <2> QED
    BY <2>4, <2>5
<1> QED
  BY <1>2, <1>3

Recovered(r) == [r EXCEPT !.error_code = NoData]

LEMMA RecordIsRead ==
  ASSUME NEW w \in Seq(Byte), NEW s \in Seq(Byte), Begins(s, w), NEW r \in Record,
         NEW cut, Laid(w, cut, RecordWrites(r)), cut[0] <= Len(s)
  PROVE  RecordAt(s, cut[0] + 1) =
           IF cut[Len(RecordWrites(r))] <= Len(s)
           THEN Read(Recovered(r), cut[Len(RecordWrites(r))] + 1) ELSE Incomplete
<1> DEFINE t == RecordWrites(r)
           m == Len(t)
           c == 1 + Extras(r)
           n == Len(Reference)
           k == cut[0] + 1
           x == ExceptionByte(r)
<1>1. /\ m = c + n + 2 /\ n \in Nat /\ t \in Writes /\ t[1] = <<x>>
      /\ r.extra # NoData => t[2] = Varint[r.extra]
      /\ \A i \in 1 .. n : t[c + i] = Varint[r.counters[i]]
      /\ t[c + n + 1] = <<Len(r.bytes) + 16 * r.type>> /\ t[c + n + 2] = r.bytes
  BY RecordFields
<1>2. /\ c \in {1, 2} /\ (c = 2 <=> r.extra # NoData)
  BY DEF Extras
<1>3. /\ r \in [exception : 0 .. 31, error_code : Value, extra : Value \cup {NoData},
                counters : Seq(Value), type : 1 .. 7, bytes : Seq(Byte)]
      /\ Len(r.counters) = n /\ Len(r.bytes) \in 1 .. 15
  BY SaveAssumption
<1>4. \A i, j \in 0 .. m : i < j => cut[i] < cut[j]
  BY <1>1, CutsGrow
<1>5. /\ \A i \in 0 .. m : cut[i] \in Nat
      /\ \A i \in 0 .. m - 1 : Follows(w, cut[i], t[i + 1]) /\ cut[i + 1] = cut[i] + Len(t[i + 1])
  BY DEF Laid
<1>6. Len(s) \in Nat
  OBVIOUS
<1>9. cut[0] \in Nat
  <2>1. 0 \in 0 .. m
    BY <1>1, <1>2
  <2> QED
    BY <1>5, <2>1
<1> HIDE DEF c, t, n, m, x
<1>7. CASE cut[0] = Len(s)
  <2>1. RecordAt(s, k) = Incomplete
    BY <1>6, <1>7 DEF RecordAt, ReadRecord
  <2>2. 0 \in 0 .. m /\ m \in 0 .. m /\ 0 < m
    BY <1>1, <1>2
  <2>3. ~(cut[m] <= Len(s))
    BY <1>4, <1>5, <1>7, <2>2
  <2> QED
    BY <2>1, <2>3 DEF m, t
<1>8. CASE cut[0] < Len(s)
  <2>1. s[k] = x /\ cut[1] = k
    <3>1. 0 \in 0 .. m - 1 /\ 0 + 1 = 1
      BY <1>1, <1>2
    <3>2. Follows(w, cut[0], <<x>>) /\ cut[1] = cut[0] + Len(<<x>>)
      BY <1>1, <1>5, <3>1
    <3>3. Len(<<x>>) = 1 /\ <<x>>[1] = x
      OBVIOUS
    <3>4. w[cut[0] + 1] = x
      BY <3>2, <3>3 DEF Follows
    <3>5. k \in 1 .. Len(s)
      BY <1>6, <1>8, <1>9, Positions, Zenon
    <3> QED
      BY <3>2, <3>3, <3>4, <3>5 DEF Begins
  <2>2. x % 128 = r.exception /\ (x >= 128 <=> r.extra # NoData)
    BY ExceptionByteFields DEF x
  <2>3. ~(k > Len(s))
    BY <1>6, <1>8, <1>9, Positions, Zenon
  <2> DEFINE extra == ExtraAt(s, k)
             counters == ReadCounters(s, extra.next)
             instruction == ReadInstruction(s, counters.next)
  <2>4. /\ ~extra.ok \/ ~counters.ok \/ ~instruction.ok =>
              RecordAt(s, k) = Incomplete
        /\ extra.ok /\ counters.ok /\ instruction.ok =>
              RecordAt(s, k) =
                Read([exception |-> s[k] % 128, error_code |-> NoData,
                      extra |-> extra.value, counters |-> counters.value,
                      type |-> instruction.value.type,
                      bytes |-> instruction.value.bytes], instruction.next)
    <3>1. /\ extra = ExtraAt(s, k)
          /\ counters = ReadCounters(s, extra.next)
          /\ instruction = ReadInstruction(s, counters.next)
      OBVIOUS
    <3> HIDE DEF extra, counters, instruction, k
    <3> QED
      BY <2>3, <3>1, RecordSteps
  <2>5. /\ 1 \in 0 .. m /\ c \in 0 .. m /\ c + n \in 0 .. m /\ m \in 0 .. m
        /\ c < m /\ c + n < m /\ c \in Nat
    BY <1>1, <1>2
  <2>6. /\ cut[1] \in Nat /\ cut[c] \in Nat /\ cut[c + n] \in Nat /\ cut[m] \in Nat
        /\ cut[c] < cut[m] /\ cut[c + n] < cut[m]
    BY <1>4, <1>5, <2>5
  <2>7. extra = IF cut[c] <= Len(s) THEN Read(r.extra, cut[c] + 1) ELSE Incomplete
    <3>1. CASE r.extra # NoData
      <4>1. extra = Numbers(s)[cut[1] + 1]
        BY <2>1, <2>2, <3>1 DEF ExtraAt, ReadOptional
      <4>2. c = 2 /\ 1 \in 0 .. m - 1 /\ 1 + 1 = 2
        BY <1>1, <1>2, <3>1
      <4>3. Follows(w, cut[1], Varint[r.extra]) /\ cut[2] = cut[1] + Len(Varint[r.extra])
        BY <1>1, <1>5, <3>1, <4>2
      <4>4. r.extra \in Value
        BY <1>3, <3>1
      <4>5. cut[1] \in 0 .. Len(s)
        BY <1>6, <2>1, <2>3, <2>6
      <4>6. Numbers(s)[cut[1] + 1] = IF cut[1] + Len(Varint[r.extra]) <= Len(s)
                                     THEN Read(r.extra, cut[1] + Len(Varint[r.extra]) + 1)
                                     ELSE Incomplete
        BY <4>3, <4>4, <4>5, NumberIsRead
      <4> HIDE DEF extra
      <4> QED
        BY <4>1, <4>2, <4>3, <4>6, Zenon
    <3>2. CASE r.extra = NoData
      <4>1. extra = Read(NoData, k + 1)
        BY <2>1, <2>2, <3>2 DEF ExtraAt, ReadOptional
      <4>2. c = 1
        BY <1>2, <3>2
      <4>3. cut[c] <= Len(s) /\ cut[c] + 1 = k + 1
        BY <1>6, <2>1, <2>3, <2>6, <4>2
      <4> HIDE DEF extra, k
      <4> QED
        BY <3>2, <4>1, <4>3, Zenon
    <3> QED
      BY <3>1, <3>2
  <2>8. CASE ~(cut[c] <= Len(s))
    <3>1. ~extra.ok
      BY <2>7, <2>8, ReadFields
    <3>2. ~(cut[m] <= Len(s))
      BY <1>6, <2>6, <2>8
    <3> QED
      BY <2>4, <3>1, <3>2 DEF m, t
  <2>9. CASE cut[c] <= Len(s)
    <3>1. extra.ok /\ extra.value = r.extra /\ extra.next = cut[c] + 1
      BY <2>7, <2>9, ReadFields
    <3>2. counters = IF cut[c + n] <= Len(s) THEN Read(r.counters, cut[c + n] + 1)
                     ELSE Incomplete
      <4> DEFINE at == [i \in 0 .. n |-> cut[c + i]]
      <4>1. at[0] = cut[c] /\ at[n] = cut[c + n]
        BY <1>1, <2>5
      <4>2. \A i \in 0 .. n : at[i] \in Nat
        <5> SUFFICES ASSUME NEW i \in 0 .. n PROVE cut[c + i] \in Nat
          OBVIOUS
        <5>1. c + i \in 0 .. m
          BY <1>1, <1>2
        <5> QED
          BY <1>5, <5>1
      <4>3. ASSUME NEW i \in 0 .. n - 1
            PROVE  /\ Follows(w, at[i], Varint[r.counters[i + 1]])
                   /\ at[i + 1] = at[i] + Len(Varint[r.counters[i + 1]])
        <5>1. /\ c + i \in 0 .. m - 1 /\ i + 1 \in 1 .. n
              /\ (c + i) + 1 = c + (i + 1) /\ i \in 0 .. n /\ i + 1 \in 0 .. n
          BY <1>1, <1>2
        <5>2. t[(c + i) + 1] = Varint[r.counters[i + 1]]
          BY <1>1, <5>1
        <5>3. at[i] = cut[c + i] /\ at[i + 1] = cut[(c + i) + 1]
          BY <5>1
        <5>4. /\ Follows(w, cut[c + i], t[(c + i) + 1])
              /\ cut[(c + i) + 1] = cut[c + i] + Len(t[(c + i) + 1])
          BY <1>5, <5>1
        <5> HIDE DEF at
        <5> QED
          BY <5>2, <5>3, <5>4
      <4>4. r.counters \in Seq(Value)
        BY <1>3
      <4> HIDE DEF at
      <4>5. ReadCounters(s, at[0] + 1) =
              IF at[n] <= Len(s) THEN Read(r.counters, at[n] + 1) ELSE Incomplete
        BY <1>3, <2>9, <4>1, <4>2, <4>3, <4>4, CountersAreRead DEF n
      <4> HIDE DEF extra
      <4> QED
        BY <3>1, <4>1, <4>5, Zenon
    <3>3. CASE ~(cut[c + n] <= Len(s))
      <4>1. ~counters.ok
        BY <3>2, <3>3, ReadFields
      <4>2. ~(cut[m] <= Len(s))
        BY <1>6, <2>6, <3>3
      <4> QED
        BY <2>4, <4>1, <4>2 DEF m, t
    <3>4. CASE cut[c + n] <= Len(s)
      <4> DEFINE p == cut[c + n]
      <4>1. counters.ok /\ counters.value = r.counters /\ counters.next = p + 1
        BY <3>2, <3>4, ReadFields
      <4>2. /\ c + n \in 0 .. m - 1 /\ c + n + 1 \in 0 .. m - 1
            /\ (c + n + 1) + 1 = c + n + 2 /\ c + n + 2 = m
        BY <1>1, <1>2
      <4>3. /\ Follows(w, p, <<Len(r.bytes) + 16 * r.type>>)
            /\ cut[c + n + 1] = p + Len(<<Len(r.bytes) + 16 * r.type>>)
        BY <1>1, <1>5, <4>2
      <4>4. Follows(w, cut[c + n + 1], r.bytes) /\ cut[m] = cut[c + n + 1] + Len(r.bytes)
        BY <1>1, <1>5, <4>2
      <4>5. cut[c + n + 1] = p + 1
        BY <4>3
      <4>6. /\ r.bytes \in Seq(Byte) /\ r.type \in 1 .. 7 /\ Len(r.bytes) \in 1 .. 15
            /\ p \in Nat
        BY <1>3, <2>6
      <4>7. Follows(w, p + 1, r.bytes) /\ cut[m] = p + 1 + Len(r.bytes)
        BY <4>4, <4>5
      <4> HIDE DEF p, extra, counters
      <4>8. instruction = IF cut[m] <= Len(s)
                          THEN Read([type |-> r.type, bytes |-> r.bytes], cut[m] + 1)
                          ELSE Incomplete
        <5>1. p <= Len(s)
          BY <3>4 DEF p
        <5>2. ReadInstruction(s, p + 1) =
                IF p + 1 + Len(r.bytes) <= Len(s)
                THEN Read([type |-> r.type, bytes |-> r.bytes], p + Len(r.bytes) + 2)
                ELSE Incomplete
          BY <4>3, <4>6, <4>7, <5>1, InstructionIsRead
        <5>3. p + Len(r.bytes) + 2 = cut[m] + 1
          <6>1. Len(r.bytes) \in Nat
            BY <4>6
          <6>2. p + Len(r.bytes) + 2 = (p + 1 + Len(r.bytes)) + 1
            BY <4>6, <6>1, Positions, Zenon
          <6> QED
            BY <4>7, <6>2, Zenon
        <5> QED
          BY <4>1, <4>7, <5>2, <5>3, Zenon
      <4> HIDE DEF instruction
      <4>9. CASE cut[m] <= Len(s)
        <5>1. /\ instruction.ok /\ instruction.value = [type |-> r.type, bytes |-> r.bytes]
              /\ instruction.next = cut[m] + 1
          BY <4>8, <4>9, ReadFields
        <5>2. instruction.value.type = r.type /\ instruction.value.bytes = r.bytes
          BY <5>1
        <5>3. RecordAt(s, k) =
                Read([exception |-> r.exception, error_code |-> NoData, extra |-> r.extra,
                      counters |-> r.counters, type |-> r.type, bytes |-> r.bytes],
                     cut[m] + 1)
          BY <2>1, <2>2, <2>4, <3>1, <4>1, <5>1, <5>2, Zenon
        <5>4. [exception |-> r.exception, error_code |-> NoData, extra |-> r.extra,
               counters |-> r.counters, type |-> r.type, bytes |-> r.bytes] = Recovered(r)
          BY <1>3 DEF Recovered
        <5> QED
          BY <4>9, <5>3, <5>4 DEF m, t
      <4>10. CASE ~(cut[m] <= Len(s))
        <5>1. ~instruction.ok
          BY <4>8, <4>10, ReadFields
        <5> QED
          BY <2>4, <4>10, <5>1 DEF m, t
      <4> QED
        BY <4>9, <4>10
    <3> QED
      BY <3>3, <3>4
  <2> QED
    BY <2>8, <2>9
<1> QED
  BY <1>6, <1>7, <1>8, <1>9, Positions, Zenon

----------------------------------------------------------------------------
(* What w holds, a longer sequence of bytes holds.                         *)
LEMMA FollowsLonger ==
  ASSUME NEW w \in Seq(Byte), NEW w2 \in Seq(Byte), Begins(w, w2),
         NEW a \in Nat, NEW e \in Seq(Byte), Follows(w, a, e)
  PROVE  Follows(w2, a, e)
<1>1. a + Len(e) <= Len(w2)
  BY DEF Begins, Follows
<1>2. ASSUME NEW i \in 1 .. Len(e) PROVE w2[a + i] = e[i]
  <2>1. a + i \in 1 .. Len(w)
    BY DEF Follows
  <2>2. w[a + i] = w2[a + i]
    BY <2>1 DEF Begins
  <2> QED
    BY <2>2 DEF Follows
<1> QED
  BY <1>1, <1>2 DEF Follows

LEMMA LaidLonger ==
  ASSUME NEW w \in Seq(Byte), NEW w2 \in Seq(Byte), Begins(w, w2),
         NEW writes \in Writes, NEW cut, Laid(w, cut, writes)
  PROVE  Laid(w2, cut, writes)
<1>1. ASSUME NEW i \in 0 .. Len(writes) - 1
      PROVE  Follows(w2, cut[i], writes[i + 1])
  <2>1. cut[i] \in Nat /\ Follows(w, cut[i], writes[i + 1])
    BY DEF Laid, Writes
  <2>2. writes[i + 1] \in Seq(Byte)
    BY DEF Writes
  <2> QED
    BY <2>1, <2>2, FollowsLonger
<1> QED
  BY <1>1 DEF Laid

LEMMA BeginsTransitive ==
  ASSUME NEW s \in Seq(Byte), NEW w \in Seq(Byte), NEW w2 \in Seq(Byte),
         Begins(s, w), Begins(w, w2)
  PROVE  Begins(s, w2)
  BY DEF Begins

(* Bytes put at the end of s.                                              *)
LEMMA AtTheEnd ==
  ASSUME NEW s \in Seq(Byte), NEW e \in Seq(Byte)
  PROVE  /\ s \o e \in Seq(Byte) /\ Len(s \o e) = Len(s) + Len(e)
         /\ Begins(s, s \o e) /\ Follows(s \o e, Len(s), e)
<1>1. /\ s \o e \in Seq(Byte) /\ Len(s \o e) = Len(s) + Len(e)
      /\ \A i \in 1 .. Len(s) : (s \o e)[i] = s[i]
      /\ \A i \in 1 .. Len(e) : (s \o e)[Len(s) + i] = e[i]
  BY TwoParts
<1> QED
  BY <1>1 DEF Begins, Follows

(* The bytes of some writes, at the end of w.                              *)
LEMMA LaidAtTheEnd ==
  ASSUME NEW w \in Seq(Byte), NEW writes \in Writes
  PROVE  \E w2, cut :
           /\ w2 \in Seq(Byte) /\ Begins(w, w2) /\ Laid(w2, cut, writes)
           /\ cut[0] = Len(w) /\ cut[Len(writes)] = Len(w2)
<1> DEFINE m == Len(writes)
           Done(n, w2, cut) ==
             /\ w2 \in Seq(Byte) /\ Begins(w, w2)
             /\ cut[0] = Len(w) /\ cut[n] = Len(w2)
             /\ \A i \in 0 .. n : cut[i] \in Nat
             /\ \A i \in 0 .. n - 1 :
                  /\ Follows(w2, cut[i], writes[i + 1])
                  /\ cut[i + 1] = cut[i] + Len(writes[i + 1])
           S == {n \in 0 .. m : \E w2, cut : Done(n, w2, cut)}
<1>1. m \in Nat
  BY DEF Writes
<1>2. 0 \in S
  <2>1. Begins(w, w)
    BY DEF Begins
  <2>2. Done(0, w, [i \in {0} |-> Len(w)])
    BY <2>1
  <2> HIDE DEF Done
  <2> QED
    BY <1>1, <2>2
<1>3. ASSUME NEW n \in 0 .. m - 1, n \in S PROVE n + 1 \in S
  <2>1. PICK w2, cut : Done(n, w2, cut)
    BY <1>3
  <2> DEFINE e == writes[n + 1]
             w3 == w2 \o e
             cut3 == [i \in 0 .. n + 1 |-> IF i = n + 1 THEN Len(w3) ELSE cut[i]]
  <2>2. e \in Seq(Byte) /\ w2 \in Seq(Byte) /\ Len(w2) \in Nat
    BY <1>1, <2>1 DEF Writes
  <2>3. /\ w3 \in Seq(Byte) /\ Len(w3) = Len(w2) + Len(e)
        /\ Begins(w2, w3) /\ Follows(w3, Len(w2), e)
    BY <2>2, AtTheEnd
  <2>4. Begins(w, w3)
    BY <2>1, <2>2, <2>3, BeginsTransitive
  <2> HIDE DEF w3
  <2>5. cut3[n + 1] = Len(w3) /\ \A i \in 0 .. n : cut3[i] = cut[i]
    OBVIOUS
  <2> HIDE DEF cut3
  <2>6. cut3[0] = Len(w)
    BY <2>1, <2>5
  <2>7. \A i \in 0 .. n + 1 : cut3[i] \in Nat
    <3>1. \A i \in 0 .. n : cut3[i] \in Nat
      BY <2>1, <2>5, Zenon
    <3>2. cut3[n + 1] \in Nat
      BY <2>2, <2>3, <2>5
    <3>3. \A i \in 0 .. n + 1 : i = n + 1 \/ i \in 0 .. n
      OBVIOUS
    <3> QED
      BY <3>1, <3>2, <3>3, Zenon
  <2>8. ASSUME NEW i \in 0 .. n
        PROVE  /\ Follows(w3, cut3[i], writes[i + 1])
               /\ cut3[i + 1] = cut3[i] + Len(writes[i + 1])
    <3>1. CASE i = n
      <4>1. cut3[n] = Len(w2)
        BY <1>1, <2>1, <2>5
      <4>2. /\ Follows(w3, cut3[n], writes[n + 1])
            /\ cut3[n + 1] = cut3[n] + Len(writes[n + 1])
        BY <2>3, <2>5, <4>1
      <4> QED
        BY <3>1, <4>2, Zenon
    <3>2. CASE i # n
      <4>1. i \in 0 .. n - 1 /\ i + 1 \in 0 .. n /\ i + 1 \in 1 .. m
        BY <1>1, <3>2
      <4>2. /\ cut[i] \in Nat /\ Follows(w2, cut[i], writes[i + 1])
            /\ cut[i + 1] = cut[i] + Len(writes[i + 1])
        BY <2>1, <4>1
      <4>3. writes[i + 1] \in Seq(Byte)
        BY <4>1 DEF Writes
      <4>4. Follows(w3, cut[i], writes[i + 1])
        BY <2>2, <2>3, <4>2, <4>3, FollowsLonger
      <4> QED
        BY <2>5, <4>1, <4>2, <4>4
    <3> QED
      BY <3>1, <3>2
  <2>9. Done(n + 1, w3, cut3)
    BY <2>3, <2>4, <2>5, <2>6, <2>7, <2>8
  <2>10. n + 1 \in 0 .. m
    BY <1>1
  <2> HIDE DEF Done
  <2> QED
    BY <2>9, <2>10
<1>4. m \in S
  <2> HIDE DEF S
  <2>1. \A i \in 0 .. m : i \in S
    BY <1>1, <1>2, <1>3, UpTo
  <2> QED
    BY <1>1, <2>1
<1>5. PICK w2, cut : Done(m, w2, cut)
  BY <1>4
<1>6. Laid(w2, cut, writes)
  BY <1>5 DEF Laid
<1> QED
  BY <1>5, <1>6

----------------------------------------------------------------------------
(* The reference and records after it, as the program saves them, and the  *)
(* Write calls of each.                                                    *)
Items ==
  {q \in Seq({Reference} \cup Record) :
     \A i \in 1 .. Len(q) : IF i = 1 THEN q[1] = Reference ELSE q[i] \in Record}

ItemWrites(q, i) == IF i = 1 THEN CounterWrites(q[1]) ELSE RecordWrites(q[i])

Between(w, a, b, writes) ==
  \E cut : Laid(w, cut, writes) /\ cut[0] = a /\ cut[Len(writes)] = b

(* w holds these items and nothing else, item i between at[i - 1] and at[i]. *)
Encoding(w, q, at) ==
  /\ at[0] = 0 /\ at[Len(q)] = Len(w)
  /\ \A i \in 0 .. Len(q) : at[i] \in Nat
  /\ \A i \in 0 .. Len(q) - 1 :
       /\ at[i] < at[i + 1]
       /\ Between(w, at[i], at[i + 1], ItemWrites(q, i + 1))

LEMMA ReferenceWrites ==
  /\ CounterWrites(Reference) \in Writes
  /\ Len(CounterWrites(Reference)) = Len(Reference)
  /\ Len(CounterWrites(Reference)) > 0
  /\ \A i \in 1 .. Len(Reference) : CounterWrites(Reference)[i] = Varint[Reference[i]]
<1>1. Reference \in Seq(Value) /\ Reference # <<>>
  BY SaveAssumption
<1>2. Len(Reference) \in Nat /\ Len(Reference) > 0
  BY <1>1
<1>3. \A i \in 1 .. Len(Reference) : Varint[Reference[i]] \in Seq(Byte) \ {<<>>}
  BY <1>1, VarintBytes
<1>4. CounterWrites(Reference) \in Writes
  BY <1>2, <1>3 DEF CounterWrites, Writes
<1> QED
  BY <1>2, <1>4 DEF CounterWrites

LEMMA ItemWritesAreWrites ==
  ASSUME NEW q \in Items, NEW i \in 1 .. Len(q)
  PROVE  ItemWrites(q, i) \in Writes /\ Len(ItemWrites(q, i)) > 0
<1>1. CASE i = 1
  <2>1. q[1] = Reference
    BY <1>1 DEF Items
  <2>2. ItemWrites(q, i) = CounterWrites(Reference)
    BY <1>1, <2>1 DEF ItemWrites
  <2> QED
    BY <2>2, ReferenceWrites
<1>2. CASE i # 1
  <2>1. q[i] \in Record
    BY <1>2 DEF Items
  <2>2. ItemWrites(q, i) = RecordWrites(q[i])
    BY <1>2 DEF ItemWrites
  <2>3. /\ Len(RecordWrites(q[i])) = 1 + Extras(q[i]) + Len(Reference) + 2
        /\ Len(Reference) \in Nat /\ RecordWrites(q[i]) \in Writes
    BY <2>1, RecordFields
  <2>4. Extras(q[i]) \in {0, 1}
    BY DEF Extras
  <2> QED
    BY <2>2, <2>3, <2>4
<1> QED
  BY <1>1, <1>2

LEMMA AtGrows ==
  ASSUME NEW n \in Nat, NEW at,
         \A i \in 0 .. n : at[i] \in Nat,
         \A i \in 0 .. n - 1 : at[i] < at[i + 1]
  PROVE  /\ \A i, j \in 0 .. n : i < j => at[i] < at[j]
         /\ \A i, j \in 0 .. n : i <= j => at[i] <= at[j]
<1> DEFINE S == {j \in 0 .. n : \A i \in 0 .. n : i < j => at[i] < at[j]}
<1>1. 0 \in S
  OBVIOUS
<1>2. ASSUME NEW j \in 0 .. n - 1, j \in S PROVE j + 1 \in S
  <2>1. /\ j \in 0 .. n /\ j + 1 \in 0 .. n /\ at[j] \in Nat /\ at[j + 1] \in Nat
        /\ at[j] < at[j + 1]
    OBVIOUS
  <2>2. ASSUME NEW i \in 0 .. n, i < j + 1 PROVE at[i] < at[j + 1]
    <3>1. at[i] \in Nat /\ (i = j \/ i < j)
      BY <2>2
    <3>2. i = j \/ at[i] < at[j]
      BY <1>2, <3>1
    <3> QED
      BY <2>1, <3>1, <3>2
  <2> QED
    BY <2>1, <2>2
<1>3. \A j \in 0 .. n : j \in S
  <2> HIDE DEF S
  <2> QED
    BY <1>1, <1>2, UpTo
<1>4. \A i, j \in 0 .. n : i < j => at[i] < at[j]
  BY <1>3
<1>5. ASSUME NEW i \in 0 .. n, NEW j \in 0 .. n, i <= j PROVE at[i] <= at[j]
  <2>1. i = j \/ i < j
    BY <1>5
  <2>2. at[i] \in Nat /\ at[j] \in Nat /\ (i = j \/ at[i] < at[j])
    BY <1>4, <2>1
  <2> QED
    BY <2>2
<1> QED
  BY <1>4, <1>5

(* An item has a byte at least.                                            *)
LEMMA ManyBytes ==
  ASSUME NEW n \in Nat, NEW at,
         \A i \in 0 .. n : at[i] \in Nat,
         \A i \in 0 .. n - 1 : at[i] < at[i + 1]
  PROVE  n <= at[n]
<1> DEFINE S == {j \in 0 .. n : j <= at[j]}
<1>1. 0 \in S
  OBVIOUS
<1>2. ASSUME NEW j \in 0 .. n - 1, j \in S PROVE j + 1 \in S
  <2>1. /\ j \in 0 .. n /\ j + 1 \in 0 .. n /\ at[j] \in Nat /\ at[j + 1] \in Nat
        /\ at[j] < at[j + 1] /\ j <= at[j]
    BY <1>2
  <2> QED
    BY <2>1
<1>3. \A j \in 0 .. n : j \in S
  <2> HIDE DEF S
  <2> QED
    BY <1>1, <1>2, UpTo
<1> QED
  BY <1>3

LEMMA NothingAtTheEnd ==
  ASSUME NEW s, NEW k, k > Len(s)
  PROVE  RecordAt(s, k) = Incomplete
  BY DEF RecordAt, ReadRecord

LEMMA OneMoreRecord ==
  \A s, records, k, r, n :
    RecordAt(s, k) = Read(r, n) =>
      OneMore(s, Read(records, k)) = Read(Append(records, r), n)
<1> SUFFICES ASSUME NEW s, NEW records, NEW k, NEW r, NEW n,
                    RecordAt(s, k) = Read(r, n)
             PROVE  OneMore(s, Read(records, k)) = Read(Append(records, r), n)
  OBVIOUS
<1> DEFINE before == Read(records, k)
<1>1. before.ok /\ before.value = records /\ before.next = k
  BY ReadFields
<1>2. Read(r, n).ok /\ Read(r, n).value = r /\ Read(r, n).next = n
  BY ReadFields
<1> HIDE DEF before
<1>3. OneMore(s, before) = Read(Append(records, r), n)
  BY <1>1, <1>2 DEF OneMore, RecordAt, AddRecord, Then
<1> QED
  BY <1>3 DEF before

LEMMA NoMoreRecords ==
  \A s, records, k :
    RecordAt(s, k) = Incomplete =>
      OneMore(s, Read(records, k)) = Read(records, k)
<1> SUFFICES ASSUME NEW s, NEW records, NEW k, RecordAt(s, k) = Incomplete
             PROVE  OneMore(s, Read(records, k)) = Read(records, k)
  OBVIOUS
<1> DEFINE before == Read(records, k)
<1>1. before.ok /\ before.next = k
  BY ReadFields
<1> DEFINE Options(records_) ==
             {IF one.ok THEN Read(Append(records_.value, one.value), one.next)
              ELSE records_ : one \in {RecordAt(s, records_.next)}}
           After(records_) == CHOOSE after \in Options(records_) : TRUE
<1> HIDE DEF before
<1>2. OneMore(s, before) = Then(before, LAMBDA records_ : After(records_))
  BY DEF OneMore, RecordAt, AddRecord
<1>3. Options(before) = {before}
  <2>1. RecordAt(s, before.next) = Incomplete
    BY <1>1
  <2> QED
    BY <2>1, ReadFields
<1> HIDE DEF Options
<1>4. After(before) = before
  BY <1>3
<1> HIDE DEF After
<1>5. Then(before, LAMBDA records_ : After(records_)) = After(before)
  BY <1>1 DEF Then
<1> QED
  BY <1>2, <1>4, <1>5, Zenon DEF before

(* What a reader finds of q: its first n items.                            *)
Found(q, n) == [i \in 1 .. n |-> IF i = 1 THEN q[1] ELSE Recovered(q[i])]

LEMMA FoundGrows ==
  ASSUME NEW q, NEW n \in Nat, n # 0
  PROVE  Append(Found(q, n), Recovered(q[n + 1])) = Found(q, n + 1)
<1>1. /\ Found(q, n) \in Seq({Found(q, n)[i] : i \in 1 .. n}) /\ Len(Found(q, n)) = n
  BY DEF Found
<1> QED
  BY <1>1 DEF Found

LEMMA FoundOne ==
  ASSUME NEW q
  PROVE  Found(q, 1) = <<q[1]>>
  BY DEF Found

LEMMA FoundNone ==
  ASSUME NEW q
  PROVE  Found(q, 0) = <<>>
  BY DEF Found

LEMMA ReferenceIsRead ==
  ASSUME NEW w \in Seq(Byte), NEW s \in Seq(Byte), Begins(s, w),
         NEW b, Between(w, 0, b, CounterWrites(Reference))
  PROVE  ReadCounters(s, 1) = IF b <= Len(s) THEN Read(Reference, b + 1) ELSE Incomplete
<1>1. PICK cut : /\ Laid(w, cut, CounterWrites(Reference))
                 /\ cut[0] = 0 /\ cut[Len(CounterWrites(Reference))] = b
  BY DEF Between
<1>2. /\ Len(CounterWrites(Reference)) = Len(Reference)
      /\ \A i \in 1 .. Len(Reference) : CounterWrites(Reference)[i] = Varint[Reference[i]]
  BY ReferenceWrites
<1>3. Reference \in Seq(Value) /\ Len(Reference) \in Nat /\ Len(s) \in Nat
  BY SaveAssumption
<1>4. \A i \in 0 .. Len(Reference) : cut[i] \in Nat
  BY <1>1, <1>2 DEF Laid
<1>5. ASSUME NEW i \in 0 .. Len(Reference) - 1
      PROVE  /\ Follows(w, cut[i], Varint[Reference[i + 1]])
             /\ cut[i + 1] = cut[i] + Len(Varint[Reference[i + 1]])
  <2>1. CounterWrites(Reference)[i + 1] = Varint[Reference[i + 1]]
    BY <1>2, <1>3
  <2> QED
    BY <1>1, <1>2, <2>1 DEF Laid
<1>6. cut[0] <= Len(s)
  BY <1>1, <1>3
<1>7. ReadCounters(s, cut[0] + 1) = IF cut[Len(Reference)] <= Len(s)
                                    THEN Read(Reference, cut[Len(Reference)] + 1)
                                    ELSE Incomplete
  BY <1>3, <1>4, <1>5, <1>6, CountersAreRead
<1>8. cut[0] + 1 = 1 /\ cut[Len(Reference)] = b
  BY <1>1, <1>2
<1> QED
  BY <1>7, <1>8, Zenon

LEMMA NextIsRead ==
  ASSUME NEW w \in Seq(Byte), NEW s \in Seq(Byte), Begins(s, w), NEW r \in Record,
         NEW a, a <= Len(s), NEW b, Between(w, a, b, RecordWrites(r))
  PROVE  /\ b <= Len(s) => RecordAt(s, a + 1) = Read(Recovered(r), b + 1)
         /\ ~(b <= Len(s)) => RecordAt(s, a + 1) = Incomplete
<1>1. PICK cut : Laid(w, cut, RecordWrites(r)) /\ cut[0] = a /\ cut[Len(RecordWrites(r))] = b
  BY DEF Between
<1>2. RecordAt(s, cut[0] + 1) =
        IF cut[Len(RecordWrites(r))] <= Len(s)
        THEN Read(Recovered(r), cut[Len(RecordWrites(r))] + 1) ELSE Incomplete
  BY <1>1, RecordIsRead
<1> QED
  BY <1>1, <1>2, Zenon

(* A file that holds n items and part of another decodes to the n.         *)
LEMMA FileIsDecoded ==
  ASSUME NEW w \in Seq(Byte), NEW s \in Seq(Byte), Begins(s, w),
         NEW q \in Items, Len(q) > 0, NEW at, Encoding(w, q, at),
         NEW n \in 0 .. Len(q), at[n] <= Len(s), n < Len(q) => Len(s) < at[n + 1]
  PROVE  Decoded(s) = Found(q, n)
<1> DEFINE L == Len(s)
           N == Len(q)
<1>1. L \in Nat /\ N \in Nat /\ n \in Nat /\ L <= Len(w) /\ Len(w) \in Nat
  BY DEF Items, Begins
<1>2. /\ at[0] = 0 /\ at[N] = Len(w)
      /\ \A i \in 0 .. N : at[i] \in Nat
      /\ \A i \in 0 .. N - 1 : at[i] < at[i + 1]
      /\ \A i \in 0 .. N - 1 : Between(w, at[i], at[i + 1], ItemWrites(q, i + 1))
  BY DEF Encoding
<1>3. \A i, j \in 0 .. N : i <= j => at[i] <= at[j]
  BY <1>1, <1>2, AtGrows
<1>4. q[1] = Reference /\ \A i \in 2 .. N : q[i] \in Record
  BY <1>1 DEF Items
<1>5. ReadCounters(s, 1) = IF at[1] <= L THEN Read(Reference, at[1] + 1) ELSE Incomplete
  <2>1. 0 \in 0 .. N - 1 /\ 0 + 1 = 1
    BY <1>1
  <2>2. Between(w, 0, at[1], ItemWrites(q, 1))
    BY <1>2, <2>1
  <2>3. ItemWrites(q, 1) = CounterWrites(Reference)
    BY <1>4 DEF ItemWrites
  <2>4. Between(w, 0, at[1], CounterWrites(Reference))
    BY <2>2, <2>3, Zenon
  <2> QED
    BY <2>4, ReferenceIsRead
<1>6. CASE n = 0
  <2>1. ~(at[1] <= L)
    <3>1. 1 \in 0 .. N
      BY <1>1
    <3> QED
      BY <1>1, <1>2, <1>6, <3>1
  <2>2. ~ReadCounters(s, 1).ok
    BY <1>5, <2>1, ReadFields
  <2>3. Decoded(s) = <<>>
    BY <2>2, DecodeEquation
  <2> QED
    BY <1>6, <2>3, FoundNone, Zenon
<1>7. CASE n > 0
  <2>1. at[1] <= L
    <3>1. 1 \in 0 .. N /\ n \in 0 .. N /\ 1 <= n
      BY <1>1, <1>7
    <3>2. at[1] <= at[n] /\ at[1] \in Nat /\ at[n] \in Nat
      BY <1>2, <1>3, <3>1
    <3> QED
      BY <1>1, <3>2
  <2>2. /\ ReadCounters(s, 1).ok /\ ReadCounters(s, 1).value = Reference
        /\ ReadCounters(s, 1).next = at[1] + 1
    BY <1>5, <2>1, ReadFields
  <2>3. PICK first : /\ Decoded(s) = first[L].value
                     /\ first[0] = Read(<<ReadCounters(s, 1).value>>,
                                        ReadCounters(s, 1).next)
                     /\ \A i \in 0 .. L - 1 : first[i + 1] = OneMore(s, first[i])
    <3>1. ReadCounters(s, 1).ok
      BY <2>2
    <3> QED
      BY <3>1, DecodeEquation, Zenon
  <2> DEFINE M(j) == IF j < n THEN j + 1 ELSE n
             S == {j \in 0 .. L : first[j] = Read(Found(q, M(j)), at[M(j)] + 1)}
  <2>4. 0 \in S
    <3>1. first[0] = Read(<<Reference>>, at[1] + 1)
      BY <2>2, <2>3, Zenon
    <3>2. M(0) = 1 /\ 0 \in 0 .. L
      BY <1>1, <1>7
    <3>3. Found(q, 1) = <<Reference>>
      BY <1>4, FoundOne, Zenon
    <3>4. first[0] = Read(Found(q, 1), at[1] + 1)
      BY <3>1, <3>3, Zenon
    <3> QED
      BY <3>2, <3>4
  <2>5. ASSUME NEW j \in 0 .. L - 1, j \in S PROVE j + 1 \in S
    <3>0. j + 1 \in 0 .. L
      BY <1>1
    <3>1. first[j + 1] = OneMore(s, Read(Found(q, M(j)), at[M(j)] + 1))
      BY <2>3, <2>5
    <3>2. CASE j + 1 < n
      <4> DEFINE k == j + 1
      <4>1. M(j) = k /\ M(j + 1) = k + 1 /\ k \in Nat /\ k # 0
        BY <1>1, <3>2
      <4>2. k \in 0 .. N - 1 /\ k \in 0 .. N /\ k + 1 \in 0 .. N /\ k + 1 <= n /\ k <= n
        BY <1>1, <3>2
      <4>3. k + 1 \in 2 .. N /\ k + 1 # 1
        BY <1>1, <3>2
      <4>4. Between(w, at[k], at[k + 1], RecordWrites(q[k + 1]))
        <5>1. Between(w, at[k], at[k + 1], ItemWrites(q, k + 1))
          BY <1>2, <4>2
        <5>2. ItemWrites(q, k + 1) = RecordWrites(q[k + 1])
          BY <4>3 DEF ItemWrites
        <5> QED
          BY <5>1, <5>2, Zenon
      <4>5. at[k] <= L /\ at[k + 1] <= L
        <5>1. n \in 0 .. N
          OBVIOUS
        <5>2. at[k] <= at[n] /\ at[k + 1] <= at[n]
          BY <1>3, <4>2, <5>1
        <5>3. at[k] \in Nat /\ at[k + 1] \in Nat /\ at[n] \in Nat /\ at[n] <= L
          BY <1>2, <4>2, <5>1
        <5> QED
          BY <1>1, <5>2, <5>3
      <4>6. q[k + 1] \in Record
        BY <1>4, <4>3
      <4> HIDE DEF k, M
      <4>7. RecordAt(s, at[k] + 1) = Read(Recovered(q[k + 1]), at[k + 1] + 1)
        BY <4>4, <4>5, <4>6, NextIsRead
      <4>8. OneMore(s, Read(Found(q, k), at[k] + 1)) =
              Read(Append(Found(q, k), Recovered(q[k + 1])), at[k + 1] + 1)
        BY <4>7, OneMoreRecord
      <4>9. Append(Found(q, k), Recovered(q[k + 1])) = Found(q, k + 1)
        BY <4>1, FoundGrows, Zenon
      <4>10. first[j + 1] = Read(Found(q, M(j + 1)), at[M(j + 1)] + 1)
        BY <3>1, <4>1, <4>8, <4>9, Zenon
      <4> QED
        BY <3>0, <4>10
    <3>3. CASE ~(j + 1 < n)
      <4>1. M(j) = n /\ M(j + 1) = n
        BY <1>1, <3>3
      <4>2. RecordAt(s, at[n] + 1) = Incomplete
        <5>1. CASE n = N
          <6>1. at[n] + 1 > L
            BY <1>1, <1>2, <5>1
          <6> QED
            BY <6>1, NothingAtTheEnd
        <5>2. CASE n < N
          <6>1. n \in 0 .. N - 1 /\ n + 1 \in 2 .. N /\ n + 1 # 1 /\ n + 1 \in 0 .. N
            BY <1>1, <1>7, <5>2
          <6>2. Between(w, at[n], at[n + 1], RecordWrites(q[n + 1]))
            <7>1. Between(w, at[n], at[n + 1], ItemWrites(q, n + 1))
              BY <1>2, <6>1
            <7>2. ItemWrites(q, n + 1) = RecordWrites(q[n + 1])
              BY <6>1 DEF ItemWrites
            <7> QED
              BY <7>1, <7>2, Zenon
          <6>3. q[n + 1] \in Record
            BY <1>4, <6>1
          <6>4. ~(at[n + 1] <= L)
            BY <1>1, <1>2, <5>2, <6>1
          <6> QED
            BY <6>2, <6>3, <6>4, NextIsRead
        <5>3. n = N \/ n < N
          BY <1>1
        <5> QED
          BY <5>1, <5>2, <5>3
      <4> HIDE DEF M
      <4>3. OneMore(s, Read(Found(q, n), at[n] + 1)) = Read(Found(q, n), at[n] + 1)
        BY <4>2, NoMoreRecords, Zenon
      <4>4. first[j + 1] = Read(Found(q, M(j + 1)), at[M(j + 1)] + 1)
        BY <3>1, <4>1, <4>3, Zenon
      <4> QED
        BY <3>0, <4>4
    <3> QED
      BY <3>2, <3>3
  <2>6. L \in S
    <3> HIDE DEF S
    <3>1. \A j \in 0 .. L : j \in S
      BY <1>1, <2>4, <2>5, UpTo
    <3> QED
      BY <1>1, <3>1
  <2>7. M(L) = n
    <3>1. n <= at[n]
      <4>1. /\ n \in Nat /\ \A i \in 0 .. n : at[i] \in Nat
            /\ \A i \in 0 .. n - 1 : at[i] < at[i + 1]
        BY <1>1, <1>2
      <4> QED
        BY <4>1, ManyBytes
    <3>2. at[n] \in Nat
      BY <1>1, <1>2
    <3> QED
      BY <1>1, <3>1, <3>2
  <2>8. first[L] = Read(Found(q, n), at[n] + 1)
    <3>1. first[L] = Read(Found(q, M(L)), at[M(L)] + 1)
      BY <2>6
    <3> HIDE DEF M
    <3> QED
      BY <2>7, <3>1, Zenon
  <2>9. first[L].value = Found(q, n)
    BY <2>8, ReadFields
  <2> QED
    BY <2>3, <2>9, Zenon
<1>8. n = 0 \/ n > 0
  BY <1>1
<1> QED
  BY <1>6, <1>7, <1>8

LEMMA ItemWritesStay ==
  ASSUME NEW q, NEW q2, NEW n \in Nat, \A i \in 1 .. n : q2[i] = q[i], NEW i \in 1 .. n
  PROVE  ItemWrites(q2, i) = ItemWrites(q, i)
<1>1. q2[i] = q[i] /\ (i = 1 => q2[1] = q[1])
  OBVIOUS
<1> QED
  BY <1>1, Zenon DEF ItemWrites

(* One more item can follow the items of w.                                *)
LEMMA ItemAdded ==
  ASSUME NEW w \in Seq(Byte), NEW q \in Items, NEW at, Encoding(w, q, at),
         NEW q2 \in Items, Len(q2) = Len(q) + 1, \A i \in 1 .. Len(q) : q2[i] = q[i]
  PROVE  \E w2, at2, cut :
           /\ w2 \in Seq(Byte) /\ Begins(w, w2) /\ Encoding(w2, q2, at2)
           /\ \A i \in 0 .. Len(q) : at2[i] = at[i]
           /\ Laid(w2, cut, ItemWrites(q2, Len(q2)))
           /\ cut[0] = Len(w) /\ cut[Len(ItemWrites(q2, Len(q2)))] = Len(w2)
<1> DEFINE n == Len(q)
           writes == ItemWrites(q2, Len(q2))
<1>1. n \in Nat /\ Len(q2) = n + 1 /\ Len(q2) \in 1 .. Len(q2)
  BY DEF Items
<1>2. writes \in Writes /\ Len(writes) \in Nat /\ Len(writes) > 0
  <2>1. writes \in Writes /\ Len(writes) > 0
    BY <1>1, ItemWritesAreWrites
  <2> QED
    BY <2>1 DEF Writes
<1>3. /\ at[0] = 0 /\ at[n] = Len(w)
      /\ \A i \in 0 .. n : at[i] \in Nat
      /\ \A i \in 0 .. n - 1 :
           at[i] < at[i + 1] /\ Between(w, at[i], at[i + 1], ItemWrites(q, i + 1))
  BY DEF Encoding
<1>4. PICK w2, cut : /\ w2 \in Seq(Byte) /\ Begins(w, w2) /\ Laid(w2, cut, writes)
                     /\ cut[0] = Len(w) /\ cut[Len(writes)] = Len(w2)
  <2> HIDE DEF writes
  <2> QED
    BY <1>2, LaidAtTheEnd
<1>5. Len(w) < Len(w2)
  <2>1. \A i, j \in 0 .. Len(writes) : i < j => cut[i] < cut[j]
    <3> HIDE DEF writes
    <3> QED
      BY <1>2, <1>4, CutsGrow
  <2> HIDE DEF writes
  <2>2. 0 \in 0 .. Len(writes) /\ Len(writes) \in 0 .. Len(writes)
    BY <1>2
  <2>3. cut[0] < cut[Len(writes)]
    BY <1>2, <2>1, <2>2
  <2> QED
    BY <1>4, <2>3
<1> DEFINE at2 == [i \in 0 .. n + 1 |-> IF i = n + 1 THEN Len(w2) ELSE at[i]]
<1>6. at2[n + 1] = Len(w2) /\ \A i \in 0 .. n : at2[i] = at[i]
  BY <1>1
<1> HIDE DEF at2
<1>7. at2[0] = 0 /\ \A i \in 0 .. n + 1 : at2[i] \in Nat
  <2>1. 0 \in 0 .. n
    BY <1>1
  <2>2. Len(w2) \in Nat
    BY <1>4
  <2>3. at2[0] = 0
    BY <1>3, <1>6, <2>1
  <2>4. ASSUME NEW i \in 0 .. n + 1 PROVE at2[i] \in Nat
    <3>1. i = n + 1 \/ i \in 0 .. n
      BY <1>1
    <3> QED
      BY <1>3, <1>6, <2>2, <3>1
  <2> QED
    BY <2>3, <2>4
<1>8. ASSUME NEW i \in 0 .. n
      PROVE  at2[i] < at2[i + 1] /\ Between(w2, at2[i], at2[i + 1], ItemWrites(q2, i + 1))
  <2>1. CASE i = n
    <3>1. at2[i] = Len(w) /\ at2[i + 1] = Len(w2) /\ i + 1 = Len(q2)
      BY <1>1, <1>3, <1>6, <2>1
    <3>2. Between(w2, Len(w), Len(w2), writes)
      BY <1>4 DEF Between
    <3> QED
      BY <1>5, <3>1, <3>2
  <2>2. CASE i # n
    <3>1. i \in 0 .. n - 1 /\ i \in 0 .. n /\ i + 1 \in 0 .. n /\ i + 1 \in 1 .. n
      BY <1>1, <2>2
    <3>2. at2[i] = at[i] /\ at2[i + 1] = at[i + 1] /\ at[i] < at[i + 1]
      BY <1>3, <1>6, <3>1
    <3>3. PICK c : /\ Laid(w, c, ItemWrites(q, i + 1)) /\ c[0] = at[i]
                   /\ c[Len(ItemWrites(q, i + 1))] = at[i + 1]
      BY <1>3, <3>1 DEF Between
    <3>4. ItemWrites(q, i + 1) \in Writes
      BY <3>1, ItemWritesAreWrites
    <3>5. Laid(w2, c, ItemWrites(q, i + 1))
      BY <1>4, <3>3, <3>4, LaidLonger
    <3>6. ItemWrites(q2, i + 1) = ItemWrites(q, i + 1)
      BY <1>1, <3>1, ItemWritesStay
    <3>7. Between(w2, at[i], at[i + 1], ItemWrites(q, i + 1))
      BY <3>3, <3>5 DEF Between
    <3> QED
      BY <3>2, <3>6, <3>7, Zenon
  <2> QED
    BY <2>1, <2>2
<1>9. Encoding(w2, q2, at2)
  <2>1. Len(q2) - 1 = n
    BY <1>1
  <2> QED
    BY <1>1, <1>6, <1>7, <1>8, <2>1 DEF Encoding
<1> QED
  BY <1>4, <1>6, <1>9

LEMMA NoItems ==
  /\ <<>> \in Items
  /\ Encoding(<<>>, <<>>, [i \in {0} |-> 0])
  BY DEF Items, Encoding

LEMMA OneItem ==
  /\ <<Reference>> \in Items /\ Len(<<Reference>>) = 1
  BY DEF Items

LEMMA EmptyIsDecoded == Decoded(<<>>) = <<>>
<1> DEFINE at == [i \in {0} |-> 0]
<1>1. PICK w2, at2, cut :
        w2 \in Seq(Byte) /\ Begins(<<>>, w2) /\ Encoding(w2, <<Reference>>, at2)
  <2>1. /\ <<>> \in Seq(Byte) /\ Len(<<>>) = 0
        /\ Len(<<Reference>>) = Len(<<>>) + 1
        /\ \A i \in 1 .. Len(<<>>) : <<Reference>>[i] = <<>>[i]
    OBVIOUS
  <2>2. <<>> \in Items /\ Encoding(<<>>, <<>>, at) /\ <<Reference>> \in Items
    BY NoItems, OneItem
  <2> HIDE DEF at
  <2> QED
    BY <2>1, <2>2, ItemAdded
<1>2. at2[0] = 0 /\ at2[0] < at2[0 + 1]
  <2>1. 0 \in 0 .. Len(<<Reference>>) - 1
    OBVIOUS
  <2> QED
    BY <1>1, <2>1 DEF Encoding
<1> DEFINE q == <<Reference>>
           s == <<>>
<1>3. /\ Len(q) > 0 /\ 0 \in 0 .. Len(q)
      /\ s \in Seq(Byte) /\ Len(s) = 0
  OBVIOUS
<1>4. Decoded(s) = Found(q, 0)
  <2>1. at2[0] <= Len(s) /\ (0 < Len(q) => Len(s) < at2[0 + 1])
    BY <1>2, <1>3
  <2>2. /\ w2 \in Seq(Byte) /\ q \in Items /\ Begins(s, w2) /\ Encoding(w2, q, at2)
    BY <1>1, OneItem
  <2> HIDE DEF q, s
  <2> QED
    BY <1>3, <2>1, <2>2, FileIsDecoded
<1> QED
  BY <1>4, FoundNone

(* The same, for no items too.                                             *)
LEMMA AnyFileIsDecoded ==
  ASSUME NEW w \in Seq(Byte), NEW s \in Seq(Byte), Begins(s, w),
         NEW q \in Items, NEW at, Encoding(w, q, at),
         NEW n \in 0 .. Len(q), at[n] <= Len(s), n < Len(q) => Len(s) < at[n + 1]
  PROVE  Decoded(s) = Found(q, n)
<1>1. CASE Len(q) = 0
  <2>1. Len(w) = 0
    BY <1>1 DEF Encoding
  <2>2. s = <<>> /\ n = 0
    BY <1>1, <2>1 DEF Begins
  <2> QED
    BY <2>2, EmptyIsDecoded, FoundNone
<1>2. CASE Len(q) # 0
  <2>1. Len(q) > 0
    BY <1>2 DEF Items
  <2> QED
    BY <2>1, FileIsDecoded
<1> QED
  BY <1>1, <1>2

----------------------------------------------------------------------------
(* The types, with what is being saved: it is the next item, and a Write   *)
(* goes to the end of the file.                                            *)
SaveTypes ==
  /\ SaveTypeOK
  /\ pending \in Writes
  /\ saved \in Items
  /\ status \in {"ready", "saving"} => position = Len(file)
  /\ status = "saving" =>
       /\ saved \o current \in Items
       /\ current \in Seq({Reference} \cup Record) /\ Len(current) = 1

LEMMA PutAtTheEnd ==
  ASSUME file \in Seq(Byte), position = Len(file), NEW e \in Seq(Byte)
  PROVE  Put(e) = file \o e
<1> DEFINE L == Len(file)
<1>1. SubSeq(file, 1, L) = file /\ SubSeq(file, L + Len(e) + 1, L) = <<>>
  OBVIOUS
<1>2. (file \o e) \o <<>> = file \o e
  OBVIOUS
<1>3. Put(e) = (SubSeq(file, 1, L) \o e) \o SubSeq(file, L + Len(e) + 1, L)
  BY DEF Put
<1> HIDE DEF L
<1> QED
  BY <1>1, <1>2, <1>3, Zenon

LEMMA FirstWrite ==
  ASSUME pending \in Writes, pending # <<>>
  PROVE  /\ Head(pending) \in Seq(Byte) /\ Len(Head(pending)) \in Nat
         /\ Len(Head(pending)) > 0 /\ Tail(pending) \in Writes
<1>1. Head(pending) \in Seq(Byte) \ {<<>>} /\ Tail(pending) \in Writes
  BY DEF Writes
<1> QED
  BY <1>1

LEMMA PartOfBytes ==
  ASSUME NEW e \in Seq(Byte), NEW n \in 0 .. Len(e)
  PROVE  /\ SubSeq(e, 1, n) \in Seq(Byte) /\ Len(SubSeq(e, 1, n)) = n
         /\ \A i \in 1 .. n : SubSeq(e, 1, n)[i] = e[i]
  OBVIOUS

LEMMA FirstItem ==
  <<>> \o <<Reference>> \in Items
  BY DEF Items

LEMMA OneMoreItem ==
  ASSUME NEW q \in Items, NEW one \in Seq({Reference} \cup Record), Len(one) = 1
  PROVE  /\ Len(q \o one) = Len(q) + 1
         /\ \A i \in 1 .. Len(q) : (q \o one)[i] = q[i]
<1> DEFINE W == {Reference} \cup Record
<1>1. q \in Seq(W)
  BY DEF Items
<1>2. one \in Seq(W)
  OBVIOUS
<1> HIDE DEF W
<1>3. /\ Len(q \o one) = Len(q) + Len(one)
      /\ \A i \in 1 .. Len(q) : (q \o one)[i] = q[i]
  BY <1>1, <1>2, TwoParts
<1> QED
  BY <1>3

LEMMA PartsOfParts ==
  /\ \A a, b \in Nat : \A n \in a .. b : n \in 0 .. b
  /\ \A b \in Nat : \A n \in 0 .. b : n \in Nat
  OBVIOUS

LEMMA Nothing ==
  <<>> \in Writes /\ <<>> \in Seq(Byte) /\ 0 \in 0 .. Len(<<>>)
  BY DEF Writes

LEMMA WritesAreCounted ==
  \A t \in Writes : Len(t) \in Nat
  BY DEF Writes

LEMMA BytesAreCounted ==
  \A s \in Seq(Byte) : Len(s) \in Nat /\ Len(s) \in 0 .. Len(s)
  OBVIOUS

LEMMA NextItem ==
  ASSUME NEW q \in Items, q # <<>>, NEW r \in Record
  PROVE  q \o <<r>> \in Items
<1>1. q \in Seq({Reference} \cup Record) /\ Len(q) > 0
  BY DEF Items
<1>2. /\ q \o <<r>> \in Seq({Reference} \cup Record) /\ Len(q \o <<r>>) = Len(q) + 1
      /\ \A i \in 1 .. Len(q) : (q \o <<r>>)[i] = q[i]
      /\ (q \o <<r>>)[Len(q) + 1] = r
  BY <1>1
<1>3. ASSUME NEW i \in 1 .. Len(q \o <<r>>)
      PROVE  IF i = 1 THEN (q \o <<r>>)[1] = Reference ELSE (q \o <<r>>)[i] \in Record
  <2>1. CASE i = Len(q) + 1
    BY <1>1, <1>2, <2>1
  <2>2. CASE i # Len(q) + 1
    <3>1. i \in 1 .. Len(q) /\ 1 \in 1 .. Len(q)
      BY <1>1, <1>2, <2>2
    <3>2. IF i = 1 THEN q[1] = Reference ELSE q[i] \in Record
      BY <3>1 DEF Items
    <3> QED
      BY <1>2, <3>1, <3>2
  <2> QED
    BY <2>1, <2>2
<1> QED
  BY <1>2, <1>3 DEF Items

LEMMA ItemsAreFinite ==
  ASSUME NEW q \in Items
  PROVE  Len(q) \in Nat /\ (q = <<>> <=> Len(q) = 0)
  BY DEF Items

LEMMA TypesInit == Init => SaveTypes
<1> SUFFICES ASSUME Init PROVE SaveTypes
  OBVIOUS
<1>1. file \in Seq(Byte) /\ durable = Len(file)
  BY SaveAssumption DEF Init
<1>2. SaveTypeOK
  BY <1>1 DEF Init, SaveTypeOK
<1>3. pending \in Writes /\ saved \in Items
  BY NoItems DEF Init, Writes
<1> QED
  BY <1>2, <1>3 DEF Init, SaveTypes

LEMMA TypesNext ==
  ASSUME SaveTypes, [Next]_vars
  PROVE  SaveTypes'
<1>0. /\ file \in Seq(Byte) /\ Len(file) \in Nat /\ durable \in 0 .. Len(file)
      /\ durable \in Nat
      /\ position \in Nat /\ kept \in 0 .. Len(saved) /\ Len(saved) \in Nat
      /\ status \in {"off", "ready", "saving", "closed", "no file", "not emptied"}
      /\ status = "saving" <=> pending # <<>>
      /\ pending \in Writes /\ saved \in Items
      /\ status \in {"ready", "saving"} => position = Len(file)
      /\ status = "saving" =>
           /\ saved \o current \in Items
           /\ current \in Seq({Reference} \cup Record) /\ Len(current) = 1
  <2>1. SaveTypeOK /\ saved \in Items
    BY DEF SaveTypes
  <2>2. /\ file \in Seq(Byte) /\ durable \in 0 .. Len(file)
        /\ position \in Nat /\ kept \in 0 .. Len(saved)
        /\ status \in {"off", "ready", "saving", "closed", "no file", "not emptied"}
        /\ status = "saving" <=> pending # <<>>
    BY <2>1, Zenon DEF SaveTypeOK
  <2>3. Len(file) \in Nat
    BY <2>2, BytesAreCounted, Zenon
  <2>4. Len(saved) \in Nat
    BY <2>1, ItemsAreFinite
  <2>5. durable \in Nat
    BY <2>2, <2>3, PartsOfParts
  <2> QED
    BY <2>2, <2>3, <2>4, <2>5, Zenon DEF SaveTypes
<1>1. CASE OpenSaveFile
  <2>1. /\ pending' = <<>> /\ saved' = <<>> /\ kept' = 0 /\ position' = 0
        /\ status' \in {"ready", "no file", "not emptied"}
        /\ \/ file' = <<>> /\ durable' = 0 /\ status' = "ready"
           \/ file' = file /\ durable' = durable /\ status' \in {"no file", "not emptied"}
    BY <1>1 DEF OpenSaveFile
  <2>2. SaveTypeOK'
    <3>1. file' \in Seq(Byte) /\ durable' \in 0 .. Len(file')
      BY <1>0, <2>1, Nothing, Zenon
    <3>2. position' \in Nat
      BY <2>1
    <3>4. kept' \in 0 .. Len(saved')
      BY <2>1, Nothing, Zenon
    <3>3. /\ status' \in {"off", "ready", "saving", "closed", "no file", "not emptied"}
          /\ status' = "saving" <=> pending' # <<>>
      BY <2>1
    <3> QED
      BY <3>1, <3>2, <3>3, <3>4, Zenon DEF SaveTypeOK
  <2>3. pending' \in Writes /\ saved' \in Items
    BY <2>1, NoItems, Nothing
  <2> QED
    BY <2>1, <2>2, <2>3 DEF SaveTypes
<1>2. CASE SaveReference
  <2>1. /\ pending' = CounterWrites(Reference) /\ current' = <<Reference>>
        /\ status = "ready" /\ status' = "saving" /\ saved = <<>>
        /\ UNCHANGED <<file, position, durable, saved, kept>>
    BY <1>2 DEF SaveReference
  <2>2. pending' \in Writes /\ pending' # <<>>
    BY <2>1, ReferenceWrites
  <2>3. SaveTypeOK'
    BY <1>0, <2>1, <2>2 DEF SaveTypeOK
  <2>4. /\ (saved \o current)' \in Items /\ Len(current') = 1
        /\ current' \in Seq({Reference} \cup Record)
    BY <2>1, FirstItem
  <2> QED
    BY <1>0, <2>1, <2>2, <2>3, <2>4 DEF SaveTypes
<1>3. CASE \E r \in Record : SaveInstructionData(r)
  <2>1. PICK r \in Record : SaveInstructionData(r)
    BY <1>3
  <2>2. /\ pending' = RecordWrites(r) /\ current' = <<r>>
        /\ status = "ready" /\ status' = "saving" /\ saved # <<>>
        /\ UNCHANGED <<file, position, durable, saved, kept>>
    BY <2>1 DEF SaveInstructionData
  <2>3. pending' \in Writes /\ pending' # <<>>
    <3>1. /\ Len(RecordWrites(r)) = 1 + Extras(r) + Len(Reference) + 2
          /\ Len(Reference) \in Nat /\ RecordWrites(r) \in Writes
      BY RecordFields
    <3>2. Extras(r) \in {0, 1}
      BY DEF Extras
    <3>3. Len(RecordWrites(r)) # 0
      BY <3>1, <3>2
    <3> QED
      BY <2>2, <3>1, <3>3
  <2>4. SaveTypeOK'
    BY <1>0, <2>2, <2>3 DEF SaveTypeOK
  <2>5. /\ (saved \o current)' \in Items /\ Len(current') = 1
        /\ current' \in Seq({Reference} \cup Record)
    BY <1>0, <2>2, NextItem
  <2> QED
    BY <1>0, <2>2, <2>3, <2>4, <2>5 DEF SaveTypes
<1>4. CASE Write
  <2>1. /\ status = "saving" /\ file' = Put(Head(pending))
        /\ position' = position + Len(Head(pending)) /\ pending' = Tail(pending)
        /\ durable' = durable /\ kept' = kept
        /\ \/ pending' = <<>> /\ saved' = saved \o current /\ status' = "ready"
           \/ pending' # <<>> /\ saved' = saved /\ current' = current /\ status' = status
    BY <1>4 DEF Write
  <2>2. pending # <<>>
    BY <1>0, <2>1
  <2>3. /\ Head(pending) \in Seq(Byte) /\ Len(Head(pending)) \in Nat
        /\ pending' \in Writes
    BY <1>0, <2>1, <2>2, FirstWrite
  <2>4. file' = file \o Head(pending)
    BY <1>0, <2>1, <2>3, PutAtTheEnd
  <2>5. file' \in Seq(Byte) /\ Len(file') = Len(file) + Len(Head(pending))
    BY <1>0, <2>3, <2>4, AtTheEnd
  <2>6. position' = Len(file')
    BY <1>0, <2>1, <2>5
  <2>7. saved' \in Items /\ Len(saved') \in Nat /\ Len(saved) <= Len(saved')
    <3>1. saved' \in Items
      BY <1>0, <2>1
    <3>2. Len(saved \o current) = Len(saved) + 1
      <4>1. current \in Seq({Reference} \cup Record) /\ Len(current) = 1
        BY <1>0, <2>1
      <4> QED
        BY <1>0, <4>1, OneMoreItem, Zenon
    <3> QED
      BY <1>0, <2>1, <3>1, <3>2, ItemsAreFinite
  <2>8. SaveTypeOK'
    <3>1. /\ durable' \in 0 .. Len(file') /\ position' \in Nat /\ kept' \in 0 .. Len(saved')
      BY <1>0, <2>1, <2>3, <2>5, <2>6, <2>7
    <3>2. /\ status' = "saving" <=> pending' # <<>>
          /\ status' \in {"off", "ready", "saving", "closed", "no file", "not emptied"}
      BY <2>1
    <3> QED
      BY <2>5, <3>1, <3>2 DEF SaveTypeOK
  <2>9. status' = "saving" => UNCHANGED <<saved, current>>
    BY <2>1
  <2> QED
    BY <2>1, <2>3, <2>6, <2>7, <2>8, <2>9 DEF SaveTypes
<1>5. CASE WriteFails
  <2>1. PICK n \in 0 .. Len(Head(pending)) - 1 :
          file' = Put(SubSeq(Head(pending), 1, n)) /\ position' = position + n
    BY <1>5 DEF WriteFails
  <2>2. /\ status = "saving" /\ durable' = Len(file') /\ kept' = Len(saved)
        /\ pending' = <<>> /\ saved' = saved /\ status' = "closed"
    BY <1>5 DEF WriteFails
  <2>3. Head(pending) \in Seq(Byte) /\ Len(Head(pending)) \in Nat
    BY <1>0, <2>2, FirstWrite
  <2>4. SubSeq(Head(pending), 1, n) \in Seq(Byte)
    BY <2>3, PartOfBytes
  <2>5. file' \in Seq(Byte)
    BY <1>0, <2>1, <2>2, <2>4, PutAtTheEnd, AtTheEnd
  <2>6. SaveTypeOK'
    BY <1>0, <2>1, <2>2, <2>5 DEF SaveTypeOK
  <2> QED
    BY <2>2, <2>6 DEF SaveTypes, Writes
<1>6. CASE FlushSaveFile
  <2>1. SaveTypeOK'
    BY <1>0, <1>6 DEF FlushSaveFile, SaveTypeOK
  <2> QED
    BY <1>0, <1>6, <2>1 DEF SaveTypes, FlushSaveFile
<1>7. CASE CloseSaveFile
  <2>1. SaveTypeOK'
    BY <1>0, <1>7 DEF CloseSaveFile, SaveTypeOK
  <2> QED
    BY <1>0, <1>7, <2>1 DEF SaveTypes, CloseSaveFile
<1>8. CASE PowerCut
  <2>1. PICK n \in durable .. Len(file) : file' = SubSeq(file, 1, n)
    BY <1>8 DEF PowerCut
  <2>2. /\ durable' = Len(file') /\ status' = "off" /\ pending' = <<>>
        /\ UNCHANGED <<position, saved, kept>>
    BY <1>8 DEF PowerCut
  <2>3. file' \in Seq(Byte) /\ Len(file') \in Nat
    <3>1. n \in 0 .. Len(file)
      BY <1>0, PartsOfParts, Zenon
    <3> QED
      BY <1>0, <2>1, <3>1, PartOfBytes, BytesAreCounted, Zenon
  <2>4. SaveTypeOK'
    <3>1. durable' \in 0 .. Len(file') /\ kept' \in 0 .. Len(saved')
      BY <1>0, <2>2, <2>3, BytesAreCounted, Zenon
    <3>2. /\ status' \in {"off", "ready", "saving", "closed", "no file", "not emptied"}
          /\ status' = "saving" <=> pending' # <<>>
      BY <2>2
    <3>3. position' \in Nat
      BY <1>0, <2>2
    <3> QED
      BY <2>3, <3>1, <3>2, <3>3, Zenon DEF SaveTypeOK
  <2> QED
    BY <2>2, <2>4, Nothing DEF SaveTypes
<1>9. CASE UNCHANGED vars
  BY <1>9 DEF vars, SaveTypes, SaveTypeOK
<1> QED
  BY <1>1, <1>2, <1>3, <1>4, <1>5, <1>6, <1>7, <1>8, <1>9 DEF Next

(* SaveTypeOK: a Write puts bytes, what is durable is in the file, what    *)
(* was flushed is among what was saved, and a save in progress always has  *)
(* a Write left to make.                                                   *)
THEOREM TypesHold == Spec => []SaveTypeOK
<1>1. Init => SaveTypes
  BY TypesInit
<1>2. SaveTypes /\ [Next]_vars => SaveTypes'
  BY TypesNext
<1>3. SaveTypes => SaveTypeOK
  BY DEF SaveTypes
<1> QED
  BY <1>1, <1>2, <1>3, PTL DEF Spec

----------------------------------------------------------------------------
(* What the file holds: the first bytes of w, in which the items saved     *)
(* come first, those flushed end where the disk is certain, and the next,  *)
(* if there is one, is not whole.                                          *)
Layout(w, q, at) ==
  /\ w \in Seq(Byte) /\ q \in Items /\ Encoding(w, q, at)
  /\ Begins(file, w)
  /\ Len(saved) <= Len(q) /\ \A i \in 1 .. Len(saved) : q[i] = saved[i]
  /\ at[kept] <= durable
  /\ Len(saved) < Len(q) => Len(file) < at[Len(saved) + 1]

(* The first k of these writes are made, the others are pending.           *)
Halfway(w, a, writes) ==
  \E cut, k :
    /\ Laid(w, cut, writes) /\ cut[0] = a /\ cut[Len(writes)] = Len(w)
    /\ k \in 0 .. Len(writes) - 1 /\ Len(file) = cut[k]
    /\ Len(pending) = Len(writes) - k
    /\ \A i \in 1 .. Len(pending) : pending[i] = writes[k + i]

Session == status \in {"ready", "saving", "closed"}

SavedLayout ==
  Session \/ (status = "off" /\ saved # <<>>) =>
    \E w, q, at :
      /\ Layout(w, q, at)
      /\ Session => at[Len(saved)] <= Len(file)
      /\ status = "ready" => q = saved /\ file = w
      /\ status = "saving" =>
           /\ q = saved \o current
           /\ Halfway(w, at[Len(saved)], ItemWrites(q, Len(q)))

SaveInv == SaveTypes /\ SavedLayout

(* What SaveTypes says, for the steps below.                               *)
LEMMA TypeFacts ==
  ASSUME SaveTypes
  PROVE  /\ file \in Seq(Byte) /\ Len(file) \in Nat
         /\ durable \in Nat /\ durable <= Len(file)
         /\ position \in Nat
         /\ saved \in Items /\ Len(saved) \in Nat
         /\ kept \in Nat /\ kept <= Len(saved)
         /\ pending \in Writes /\ Len(pending) \in Nat
         /\ status = "saving" <=> pending # <<>>
         /\ status \in {"off", "ready", "saving", "closed", "no file", "not emptied"}
         /\ status \in {"ready", "saving"} => position = Len(file)
         /\ status = "saving" =>
              /\ saved \o current \in Items
              /\ current \in Seq({Reference} \cup Record) /\ Len(current) = 1
<1>1. /\ file \in Seq(Byte) /\ durable \in 0 .. Len(file)
      /\ position \in Nat /\ kept \in 0 .. Len(saved)
      /\ status \in {"off", "ready", "saving", "closed", "no file", "not emptied"}
      /\ status = "saving" <=> pending # <<>>
      /\ saved \in Items /\ pending \in Writes
  BY Zenon DEF SaveTypes, SaveTypeOK
<1>2. Len(file) \in Nat
  BY <1>1, BytesAreCounted, Zenon
<1>3. Len(saved) \in Nat
  BY <1>1, ItemsAreFinite, Zenon
<1>4. durable \in Nat /\ durable <= Len(file) /\ kept \in Nat /\ kept <= Len(saved)
  <2>1. \A b \in Nat : \A n \in 0 .. b : n \in Nat /\ n <= b
    OBVIOUS
  <2> QED
    BY <1>1, <1>2, <1>3, <2>1, Zenon
<1>5. Len(pending) \in Nat
  BY <1>1, WritesAreCounted, Zenon
<1> QED
  BY <1>1, <1>2, <1>3, <1>4, <1>5, Zenon DEF SaveTypes

(* A file that is the whole of w, in which the saved items are.            *)
LEMMA NextItemStarts ==
  ASSUME SaveTypes, SavedLayout, status = "ready", NEW item,
         saved \o <<item>> \in Items, NEW writes, writes \in Writes, Len(writes) > 0,
         ItemWrites(saved \o <<item>>, Len(saved \o <<item>>)) = writes,
         pending' = writes, current' = <<item>>, status' = "saving",
         UNCHANGED <<file, durable, saved, kept>>
  PROVE  SavedLayout'
<1>a. PICK q2 : q2 = saved \o <<item>>
  OBVIOUS
<1>b. PICK n : n = Len(saved)
  OBVIOUS
<1>0. /\ saved \in Items /\ n \in Nat /\ kept \in Nat /\ kept <= n /\ file \in Seq(Byte)
      /\ Len(file) \in Nat
  BY <1>b, TypeFacts
<1>1. PICK w, q, at : /\ Layout(w, q, at) /\ at[Len(saved)] <= Len(file)
                      /\ q = saved /\ file = w
  <2>1. Session
    BY DEF Session
  <2> QED
    BY <2>1 DEF SavedLayout
<1>2. /\ Encoding(file, saved, at) /\ at[kept] <= durable /\ at[n] = Len(file)
  BY <1>1, <1>b DEF Layout, Encoding
<1>3. Len(q2) = n + 1 /\ \A i \in 1 .. n : q2[i] = saved[i]
  <2>1. saved \in Seq({Reference} \cup Record) /\ q2 \in Seq({Reference} \cup Record)
    BY <1>0, <1>a DEF Items
  <2>2. <<item>> \in Seq({Reference} \cup Record) /\ Len(<<item>>) = 1
    <3>1. \A a \in Seq({Reference} \cup Record) :
            a \o <<item>> \in Seq({Reference} \cup Record) =>
              (a \o <<item>>)[Len(a) + 1] = item /\ Len(a \o <<item>>) = Len(a) + 1
      OBVIOUS
    <3>2. q2[n + 1] = item /\ Len(q2) = n + 1
      BY <2>1, <3>1, <1>0, <1>a, <1>b
    <3>3. item \in {Reference} \cup Record
      <4>1. \A i \in 1 .. Len(q2) : q2[i] \in {Reference} \cup Record
        BY <2>1
      <4> QED
        BY <1>0, <3>2, <4>1
    <3> QED
      BY <3>3
  <2> QED
    BY <1>0, <1>a, <1>b, <2>2, OneMoreItem
<1>4. PICK w2, at2, cut :
        /\ w2 \in Seq(Byte) /\ Begins(file, w2) /\ Encoding(w2, q2, at2)
        /\ \A i \in 0 .. n : at2[i] = at[i]
        /\ Laid(w2, cut, ItemWrites(q2, Len(q2)))
        /\ cut[0] = Len(file) /\ cut[Len(ItemWrites(q2, Len(q2)))] = Len(w2)
  <2>1. q2 \in Items
    BY <1>a
  <2> QED
    BY <1>0, <1>2, <1>3, <1>b, <2>1, ItemAdded
<1>5. at2[n] = Len(file) /\ at2[kept] = at[kept]
  BY <1>0, <1>2, <1>4
<1>6. Len(file) < at2[n + 1]
  <2>1. n \in 0 .. Len(q2) - 1
    BY <1>0, <1>3
  <2>2. at2[n] < at2[n + 1]
    BY <1>4, <2>1 DEF Encoding
  <2> QED
    BY <1>5, <2>2
<1>7. Layout(w2, q2, at2)'
  <2>1. q2 \in Items /\ n <= Len(q2)
    BY <1>0, <1>3, <1>a
  <2> QED
    BY <1>2, <1>3, <1>4, <1>5, <1>6, <1>b, <2>1 DEF Layout
<1>8. Halfway(w2, at2[n], ItemWrites(q2, Len(q2)))'
  <2>1. ItemWrites(q2, Len(q2)) = writes
    BY <1>a
  <2>2. Len(writes) \in Nat
    BY WritesAreCounted
  <2>3. /\ 0 \in 0 .. Len(writes) - 1 /\ Len(writes) = Len(writes) - 0
        /\ \A i \in 1 .. Len(writes) : writes[i] = writes[0 + i]
    BY <2>2
  <2> QED
    <3>1. /\ Laid(w2, cut, writes) /\ cut[0] = at2[n] /\ cut[Len(writes)] = Len(w2)
          /\ Len(file') = cut[0]
      BY <1>4, <1>5, <2>1
    <3>2. /\ 0 \in 0 .. Len(writes) - 1 /\ Len(pending') = Len(writes) - 0
          /\ \A i \in 1 .. Len(pending') : pending'[i] = writes[0 + i]
      BY <2>3
    <3>3. Halfway(w2, at2[n], writes)'
      BY <3>1, <3>2 DEF Halfway
    <3> QED
      BY <2>1, <3>3, Zenon
<1>9. at2[n] <= Len(file)
  BY <1>0, <1>5
<1>10. /\ ~(status' = "ready") /\ saved' = saved /\ file' = file
       /\ q2 = saved' \o current'
  BY <1>a
<1> QED
  BY <1>7, <1>8, <1>9, <1>10, <1>b DEF SavedLayout

LEMMA BeginsFurther ==
  ASSUME NEW s \in Seq(Byte), NEW w \in Seq(Byte), NEW e \in Seq(Byte),
         Begins(s, w), Follows(w, Len(s), e)
  PROVE  /\ s \o e \in Seq(Byte) /\ Len(s \o e) = Len(s) + Len(e)
         /\ Begins(s \o e, w)
<1> DEFINE t == s \o e
<1>1. /\ t \in Seq(Byte) /\ Len(t) = Len(s) + Len(e)
      /\ \A i \in 1 .. Len(s) : t[i] = s[i]
      /\ \A i \in 1 .. Len(e) : t[Len(s) + i] = e[i]
  BY TwoParts
<1> HIDE DEF t
<1>2. Len(t) <= Len(w)
  BY <1>1 DEF Follows
<1>3. ASSUME NEW i \in 1 .. Len(t) PROVE t[i] = w[i]
  <2>1. CASE i <= Len(s)
    BY <1>1, <2>1 DEF Begins
  <2>2. CASE ~(i <= Len(s))
    <3>1. i - Len(s) \in 1 .. Len(e) /\ Len(s) + (i - Len(s)) = i
      BY <1>1, <2>2
    <3>2. t[Len(s) + (i - Len(s))] = e[i - Len(s)]
      BY <1>1, <3>1
    <3>3. w[Len(s) + (i - Len(s))] = e[i - Len(s)]
      BY <3>1 DEF Follows
    <3> QED
      BY <3>1, <3>2, <3>3
  <2> QED
    BY <2>1, <2>2
<1>4. Begins(t, w)
  BY <1>2, <1>3 DEF Begins
<1> QED
  BY <1>1, <1>4 DEF t

LEMMA BeginsAll ==
  ASSUME NEW s \in Seq(Byte), NEW w \in Seq(Byte), Begins(s, w), Len(s) = Len(w)
  PROVE  s = w
  BY SeqEqual DEF Begins

LEMMA BeginsLess ==
  ASSUME NEW s \in Seq(Byte), NEW w \in Seq(Byte), Begins(s, w), NEW n \in 0 .. Len(s)
  PROVE  Begins(SubSeq(s, 1, n), w)
<1>1. /\ Len(SubSeq(s, 1, n)) = n /\ n <= Len(w) /\ n <= Len(s)
      /\ \A i \in 1 .. n : SubSeq(s, 1, n)[i] = s[i]
  BY PartOfBytes DEF Begins
<1> QED
  BY <1>1 DEF Begins

LEMMA FollowsLess ==
  ASSUME NEW w \in Seq(Byte), NEW a \in Nat, NEW e \in Seq(Byte), Follows(w, a, e),
         NEW n \in 0 .. Len(e)
  PROVE  Follows(w, a, SubSeq(e, 1, n))
<1>1. /\ Len(SubSeq(e, 1, n)) = n /\ n <= Len(e)
      /\ \A i \in 1 .. n : SubSeq(e, 1, n)[i] = e[i]
  BY PartOfBytes
<1> QED
  BY <1>1 DEF Follows

LEMMA HeadAndTail ==
  ASSUME NEW t \in Writes, Len(t) > 0
  PROVE  /\ Head(t) = t[1] /\ Tail(t) \in Writes /\ Len(Tail(t)) = Len(t) - 1
         /\ \A i \in 1 .. Len(t) - 1 : Tail(t)[i] = t[i + 1]
         /\ Tail(t) = <<>> <=> Len(t) = 1
<1> DEFINE W == Seq(Byte) \ {<<>>}
<1>1. t \in Seq(W) /\ t # <<>>
  BY DEF Writes
<1>2. Writes = Seq(W)
  BY DEF Writes
<1> HIDE DEF W
<1>3. /\ Head(t) = t[1] /\ Tail(t) \in Seq(W) /\ Len(Tail(t)) = Len(t) - 1
      /\ \A i \in 1 .. Len(t) - 1 : Tail(t)[i] = t[i + 1]
  BY <1>1
<1>4. Tail(t) = <<>> <=> Len(Tail(t)) = 0
  <2>1. \A u \in Seq(W) : u = <<>> <=> Len(u) = 0
    OBVIOUS
  <2> QED
    BY <1>3, <2>1, Zenon
<1>5. Len(t) - 1 = 0 <=> Len(t) = 1
  BY <1>1
<1> QED
  BY <1>2, <1>3, <1>4, <1>5, Zenon

(* What SavedLayout says while an item is being saved.                     *)
Underway(w, q, at, writes, cut, k) ==
  /\ Layout(w, q, at) /\ at[Len(saved)] <= Len(file)
  /\ q = saved \o current
  /\ writes \in Writes /\ writes = ItemWrites(q, Len(q))
  /\ Laid(w, cut, writes)
  /\ cut[0] = at[Len(saved)] /\ cut[Len(writes)] = Len(w)
  /\ k \in 0 .. Len(writes) - 1 /\ Len(file) = cut[k]
  /\ Len(pending) = Len(writes) - k
  /\ \A i \in 1 .. Len(pending) : pending[i] = writes[k + i]

(* The next Write, while an item is being saved.                           *)
LEMMA WriteFacts ==
  ASSUME SaveTypes, status = "saving", NEW w, NEW q, NEW at, NEW writes, NEW cut, NEW k,
         Underway(w, q, at, writes, cut, k)
  PROVE  /\ Len(q) = Len(saved) + 1 /\ at[Len(saved) + 1] = Len(w) /\ Len(w) \in Nat
         /\ k \in Nat /\ Len(writes) \in Nat /\ k + 1 <= Len(writes)
         /\ Len(pending) > 0 /\ Head(pending) \in Seq(Byte)
         /\ Follows(w, Len(file), Head(pending))
         /\ cut[k + 1] = Len(file) + Len(Head(pending))
         /\ k + 1 < Len(writes) => cut[k + 1] < Len(w)
         /\ cut[k + 1] <= Len(w)
<1> DEFINE m == Len(writes)
<1>a. /\ Layout(w, q, at) /\ q = saved \o current /\ writes \in Writes
      /\ Laid(w, cut, writes) /\ cut[Len(writes)] = Len(w)
      /\ k \in 0 .. Len(writes) - 1 /\ Len(file) = cut[k]
      /\ Len(pending) = Len(writes) - k
      /\ \A i \in 1 .. Len(pending) : pending[i] = writes[k + i]
  BY Zenon DEF Underway
<1>0. m \in Nat /\ k \in Nat /\ k + 1 \in 1 .. m /\ k + 1 \in 0 .. m /\ m \in 0 .. m
  <2>1. m \in Nat
    BY <1>a, WritesAreCounted
  <2> QED
    BY <1>a, <2>1
<1>1. /\ w \in Seq(Byte) /\ at[Len(q)] = Len(w) /\ Len(w) \in Nat
      /\ pending \in Writes /\ Len(pending) \in Nat
  <2>1. w \in Seq(Byte) /\ at[Len(q)] = Len(w)
    BY <1>a DEF Layout, Encoding
  <2> QED
    BY <2>1, TypeFacts, BytesAreCounted, Zenon
<1>2. Len(q) = Len(saved) + 1
  <2>1. /\ saved \in Items /\ current \in Seq({Reference} \cup Record) /\ Len(current) = 1
    BY TypeFacts
  <2> QED
    BY <1>a, <2>1, OneMoreItem
<1>3. Len(pending) > 0
  BY <1>a, <1>0
<1>4. Head(pending) = pending[1] /\ pending[1] = writes[k + 1]
  BY <1>a, <1>0, <1>1, <1>3, HeadAndTail
<1>5. Head(pending) \in Seq(Byte)
  BY <1>1, <1>3, FirstWrite, Nothing
<1>6. /\ Follows(w, cut[k], writes[k + 1]) /\ cut[k + 1] = cut[k] + Len(writes[k + 1])
  BY <1>a DEF Laid
<1>7. k + 1 < m => cut[k + 1] < cut[m]
  BY <1>a, <1>0, CutsGrow
<1>8. cut[k + 1] <= Len(w)
  <2>1. k + 1 = m \/ k + 1 < m
    BY <1>0
  <2>2. cut[k + 1] \in Nat
    BY <1>a, <1>0 DEF Laid
  <2> QED
    BY <1>a, <1>1, <1>7, <2>1, <2>2
<1> QED
  <2>1. k + 1 <= m
    BY <1>0
  <2>2. /\ Follows(w, Len(file), Head(pending))
        /\ cut[k + 1] = Len(file) + Len(Head(pending))
    BY <1>a, <1>4, <1>6, Zenon
  <2> QED
    BY <1>a, <1>0, <1>1, <1>2, <1>3, <1>5, <1>7, <1>8, <2>1, <2>2, Zenon

LEMMA LayoutOpen == ASSUME SaveTypes, SavedLayout, OpenSaveFile PROVE SavedLayout'
<1>1. CASE status' = "ready"
  <2>1. file' = <<>> /\ durable' = 0 /\ saved' = <<>> /\ kept' = 0
    BY <1>1 DEF OpenSaveFile
  <2> DEFINE at == [i \in {0} |-> 0]
  <2>2. /\ <<>> \in Seq(Byte) /\ <<>> \in Items /\ Encoding(<<>>, <<>>, at)
        /\ Begins(<<>>, <<>>) /\ Len(<<>>) = 0
    BY NoItems DEF Begins
  <2>3. at[0] = 0
    OBVIOUS
  <2> HIDE DEF at
  <2>4. Layout(<<>>, <<>>, at)'
    BY <2>1, <2>2, <2>3 DEF Layout
  <2>5. at[Len(saved')] <= Len(file') /\ status' # "saving"
    BY <1>1, <2>1, <2>2, <2>3
  <2> QED
    BY <2>1, <2>4, <2>5 DEF SavedLayout
<1>2. CASE status' # "ready"
  BY <1>2 DEF OpenSaveFile, SavedLayout, Session
<1> QED
  BY <1>1, <1>2

LEMMA LayoutReference == ASSUME SaveTypes, SavedLayout, SaveReference PROVE SavedLayout'
<1>1. /\ status = "ready" /\ saved = <<>> /\ pending' = CounterWrites(Reference)
      /\ current' = <<Reference>> /\ status' = "saving"
      /\ UNCHANGED <<file, position, durable, saved, kept>>
  BY DEF SaveReference
<1> DEFINE q == saved \o <<Reference>>
<1>2. q \in Items /\ Len(q) = 1 /\ q[1] = Reference
  BY <1>1, FirstItem
<1> HIDE DEF q
<1>3. ItemWrites(q, Len(q)) = CounterWrites(Reference)
  BY <1>2 DEF ItemWrites
<1> QED
  BY <1>1, <1>2, <1>3, ReferenceWrites, NextItemStarts DEF q

LEMMA LayoutRecord ==
  ASSUME SaveTypes, SavedLayout, NEW r \in Record, SaveInstructionData(r)
  PROVE  SavedLayout'
<1>1. /\ status = "ready" /\ saved # <<>> /\ pending' = RecordWrites(r)
      /\ current' = <<r>> /\ status' = "saving"
      /\ UNCHANGED <<file, position, durable, saved, kept>>
  BY DEF SaveInstructionData
<1>2. saved \in Items /\ Len(saved) \in Nat /\ Len(saved) # 0
  BY <1>1, TypeFacts, ItemsAreFinite
<1> DEFINE q == saved \o <<r>>
<1>3. q \in Items
  BY <1>1, <1>2, NextItem
<1>4. Len(q) = Len(saved) + 1 /\ q[Len(q)] = r
  <2>1. saved \in Seq({Reference} \cup Record)
    BY <1>2 DEF Items
  <2> QED
    BY <2>1
<1> HIDE DEF q
<1>5. ItemWrites(q, Len(q)) = RecordWrites(r)
  <2>1. Len(q) # 1
    BY <1>2, <1>4
  <2> QED
    BY <1>4, <2>1, Zenon DEF ItemWrites
<1>6. RecordWrites(r) \in Writes /\ Len(RecordWrites(r)) > 0
  <2>1. /\ Len(RecordWrites(r)) = 1 + Extras(r) + Len(Reference) + 2
        /\ Len(Reference) \in Nat /\ RecordWrites(r) \in Writes
    BY RecordFields
  <2>2. Extras(r) \in {0, 1}
    BY DEF Extras
  <2> QED
    BY <2>1, <2>2
<1> QED
  BY <1>1, <1>3, <1>5, <1>6, NextItemStarts DEF q

LEMMA Saving ==
  ASSUME SaveTypes, SavedLayout, status = "saving"
  PROVE  \E w, q, at, writes, cut, k : Underway(w, q, at, writes, cut, k)
<1>1. PICK w, q, at : /\ Layout(w, q, at) /\ at[Len(saved)] <= Len(file)
                      /\ q = saved \o current
                      /\ Halfway(w, at[Len(saved)], ItemWrites(q, Len(q)))
  <2>1. Session
    BY DEF Session
  <2> QED
    BY <2>1 DEF SavedLayout
<1>2. ItemWrites(q, Len(q)) \in Writes
  <2>1. q \in Items /\ Len(q) = Len(saved) + 1 /\ Len(saved) \in Nat
    <3>1. /\ saved \in Items /\ current \in Seq({Reference} \cup Record)
          /\ Len(current) = 1 /\ Len(saved) \in Nat
      BY TypeFacts
    <3> QED
      BY <1>1, <3>1, OneMoreItem DEF Layout
  <2>2. Len(q) \in 1 .. Len(q)
    BY <2>1
  <2> QED
    BY <2>1, <2>2, ItemWritesAreWrites
<1>3. PICK writes : writes = ItemWrites(q, Len(q))
  OBVIOUS
<1>4. PICK cut, k : /\ Laid(w, cut, writes) /\ cut[0] = at[Len(saved)]
                    /\ cut[Len(writes)] = Len(w)
                    /\ k \in 0 .. Len(writes) - 1 /\ Len(file) = cut[k]
                    /\ Len(pending) = Len(writes) - k
                    /\ \A i \in 1 .. Len(pending) : pending[i] = writes[k + i]
  BY <1>1, <1>3 DEF Halfway
<1>5. writes \in Writes
  BY <1>2, <1>3
<1>6. Underway(w, q, at, writes, cut, k)
  BY <1>1, <1>3, <1>4, <1>5 DEF Underway
<1> QED
  BY <1>6, Zenon

LEMMA LayoutWrite == ASSUME SaveTypes, SavedLayout, Write PROVE SavedLayout'
<1>1. /\ status = "saving" /\ file' = Put(Head(pending)) /\ pending' = Tail(pending)
      /\ durable' = durable /\ kept' = kept
      /\ \/ pending' = <<>> /\ saved' = saved \o current /\ status' = "ready"
         \/ pending' # <<>> /\ saved' = saved /\ current' = current /\ status' = status
  BY DEF Write
<1>2. PICK w, q, at, writes, cut, k : Underway(w, q, at, writes, cut, k)
  BY <1>1, Saving, Zenon
<1>3. /\ Layout(w, q, at) /\ at[Len(saved)] <= Len(file)
      /\ q = saved \o current
      /\ writes \in Writes /\ writes = ItemWrites(q, Len(q))
      /\ Laid(w, cut, writes)
      /\ cut[0] = at[Len(saved)] /\ cut[Len(writes)] = Len(w)
      /\ k \in 0 .. Len(writes) - 1 /\ Len(file) = cut[k]
      /\ Len(pending) = Len(writes) - k
      /\ \A i \in 1 .. Len(pending) : pending[i] = writes[k + i]
  BY <1>2, Zenon DEF Underway
<1>4. /\ Len(q) = Len(saved) + 1 /\ at[Len(saved) + 1] = Len(w) /\ Len(w) \in Nat
      /\ k \in Nat /\ Len(writes) \in Nat /\ k + 1 <= Len(writes)
      /\ Len(pending) > 0 /\ Head(pending) \in Seq(Byte)
      /\ Follows(w, Len(file), Head(pending))
      /\ cut[k + 1] = Len(file) + Len(Head(pending))
      /\ k + 1 < Len(writes) => cut[k + 1] < Len(w)
  BY <1>1, <1>2, WriteFacts
<1>5. /\ file \in Seq(Byte) /\ Len(file) \in Nat /\ position = Len(file)
      /\ pending \in Writes /\ saved \in Items /\ Len(saved) \in Nat
      /\ kept \in Nat /\ kept <= Len(saved)
  BY <1>1, TypeFacts
<1>6. w \in Seq(Byte) /\ q \in Items /\ Encoding(w, q, at) /\ Begins(file, w)
  BY <1>3 DEF Layout
<1>7. file' = file \o Head(pending)
  BY <1>1, <1>4, <1>5, PutAtTheEnd
<1>8. file' \in Seq(Byte) /\ Len(file') = cut[k + 1] /\ Begins(file', w)
  BY <1>4, <1>5, <1>6, <1>7, BeginsFurther
<1>9. /\ Len(pending') = Len(pending) - 1 /\ (pending' = <<>> <=> Len(pending) = 1)
      /\ \A i \in 1 .. Len(pending) - 1 : pending'[i] = pending[i + 1]
  BY <1>1, <1>4, <1>5, HeadAndTail
<1>10. CASE pending' = <<>>
  <2>1. saved' = q /\ status' = "ready"
    BY <1>1, <1>3, <1>10
  <2>2. k + 1 = Len(writes)
    <3>1. Len(writes) - k = 1
      BY <1>3, <1>9, <1>10
    <3> QED
      BY <1>4, <3>1
  <2>3. Len(file') = Len(w)
    BY <1>3, <1>8, <2>2
  <2>4. file' = w
    BY <1>6, <1>8, <2>3, BeginsAll
  <2>5. at[Len(saved')] <= Len(file')
    <3>1. Len(saved') = Len(saved) + 1
      BY <1>4, <2>1
    <3> QED
      BY <1>4, <2>3, <3>1
  <2>6. Layout(w, q, at)'
    <3>1. at[kept'] <= durable'
      BY <1>1, <1>3 DEF Layout
    <3>2. Len(saved') <= Len(q) /\ ~(Len(saved') < Len(q))
      <4>1. Len(q) \in Nat
        BY <1>4, <1>5
      <4> QED
        BY <2>1, <4>1
    <3>3. \A i \in 1 .. Len(saved') : q[i] = saved'[i]
      BY <2>1
    <3> QED
      BY <1>6, <1>8, <3>1, <3>2, <3>3 DEF Layout
  <2> QED
    BY <2>1, <2>4, <2>5, <2>6 DEF SavedLayout
<1>11. CASE pending' # <<>>
  <2>1. saved' = saved /\ current' = current /\ status' = "saving"
    BY <1>1, <1>11
  <2>2. k + 1 \in 0 .. Len(writes) - 1 /\ Len(pending') = Len(writes) - (k + 1)
        /\ k + 1 < Len(writes)
    <3>1. Len(writes) - k # 1 /\ Len(writes) - k > 0
      BY <1>3, <1>4, <1>9, <1>11
    <3>2. Len(pending') = (Len(writes) - k) - 1
      BY <1>3, <1>9
    <3> QED
      BY <1>4, <3>1, <3>2
  <2>3. \A i \in 1 .. Len(pending') : pending'[i] = writes[(k + 1) + i]
    <3>1. ASSUME NEW i \in 1 .. Len(pending') PROVE pending'[i] = writes[(k + 1) + i]
      <4>1. /\ i \in 1 .. Len(pending) - 1 /\ i + 1 \in 1 .. Len(pending)
            /\ k + (i + 1) = (k + 1) + i
        BY <1>3, <1>4, <1>9
      <4>2. pending'[i] = pending[i + 1] /\ pending[i + 1] = writes[k + (i + 1)]
        BY <1>3, <1>9, <4>1
      <4> QED
        BY <4>1, <4>2
    <3> QED
      BY <3>1
  <2>4. Halfway(w, at[Len(saved)], writes)'
    <3>1. /\ Laid(w, cut, writes) /\ cut[0] = at[Len(saved')]
          /\ cut[Len(writes)] = Len(w) /\ Len(file') = cut[k + 1]
      BY <1>3, <1>8, <2>1
    <3>2. PICK j : j = k + 1
      OBVIOUS
    <3>3. /\ j \in 0 .. Len(writes) - 1 /\ Len(pending') = Len(writes) - j
          /\ \A i \in 1 .. Len(pending') : pending'[i] = writes[j + i]
          /\ Len(file') = cut[j]
      BY <2>2, <2>3, <3>1, <3>2
    <3> QED
      BY <3>1, <3>3 DEF Halfway
  <2>5. Layout(w, q, at)'
    <3>1. at[kept'] <= durable'
      BY <1>1, <1>3 DEF Layout
    <3>2. /\ Len(saved') <= Len(q) /\ \A i \in 1 .. Len(saved') : q[i] = saved'[i]
      BY <1>3, <2>1 DEF Layout
    <3>3. Len(file') < at[Len(saved') + 1]
      BY <1>4, <1>8, <2>1, <2>2
    <3> QED
      BY <1>6, <1>8, <3>1, <3>2, <3>3 DEF Layout
  <2>6. at[Len(saved')] <= Len(file')
    <3>1. at[Len(saved)] \in Nat
      <4>1. Len(saved) \in 0 .. Len(q)
        BY <1>4, <1>5
      <4> QED
        BY <1>6, <4>1 DEF Encoding
    <3>2. Len(Head(pending)) \in Nat
      BY <1>4, BytesAreCounted
    <3>3. Len(file') = Len(file) + Len(Head(pending))
      BY <1>4, <1>8
    <3>4. at[Len(saved)] <= Len(file)
      BY <1>3
    <3>5. \A x, y, z \in Nat : x <= y => x <= y + z
      OBVIOUS
    <3>6. at[Len(saved)] <= Len(file) + Len(Head(pending))
      BY <1>5, <3>1, <3>2, <3>4, <3>5, Zenon
    <3> QED
      BY <2>1, <3>3, <3>6, Zenon
  <2>7. q = saved' \o current' /\ writes = ItemWrites(q, Len(q))
    BY <1>3, <2>1
  <2> QED
    <3>1. Halfway(w, at[Len(saved)], ItemWrites(q, Len(q)))'
      BY <2>4, <2>7, Zenon
    <3> QED
      BY <2>1, <2>5, <2>6, <2>7, <3>1 DEF SavedLayout
<1> QED
  BY <1>10, <1>11

(* Part of a Write, at most: the item that is being saved is not whole.    *)
LEMMA PartOfWrite ==
  ASSUME SaveTypes, SavedLayout, status = "saving",
         NEW n \in 0 .. Len(Head(pending)) - 1
  PROVE  LET e == SubSeq(Head(pending), 1, n)
         IN  /\ Put(e) = file \o e /\ file \o e \in Seq(Byte)
             /\ \E w, q, at :
                  /\ Layout(w, q, at) /\ at[Len(saved)] <= Len(file \o e)
                  /\ Begins(file \o e, w)
                  /\ Len(file \o e) < at[Len(saved) + 1]
<1> DEFINE e == SubSeq(Head(pending), 1, n)
           f == file \o e
<1>1. PICK w, q, at, writes, cut, k : Underway(w, q, at, writes, cut, k)
  BY Saving, Zenon
<1>2. /\ Len(q) = Len(saved) + 1 /\ at[Len(saved) + 1] = Len(w) /\ Len(w) \in Nat
      /\ Head(pending) \in Seq(Byte) /\ Follows(w, Len(file), Head(pending))
      /\ cut[k + 1] = Len(file) + Len(Head(pending)) /\ cut[k + 1] <= Len(w)
  BY <1>1, WriteFacts
<1>3. /\ file \in Seq(Byte) /\ Len(file) \in Nat /\ position = Len(file)
      /\ saved \in Items /\ Len(saved) \in Nat
  BY TypeFacts
<1>4. /\ Layout(w, q, at) /\ at[Len(saved)] <= Len(file)
      /\ w \in Seq(Byte) /\ Begins(file, w) /\ Encoding(w, q, at)
  BY <1>1 DEF Underway, Layout
<1>5. Len(Head(pending)) \in Nat /\ n \in Nat /\ n \in 0 .. Len(Head(pending))
      /\ n < Len(Head(pending))
  <2>1. Len(Head(pending)) \in Nat
    BY <1>2, BytesAreCounted
  <2>2. \A b \in Nat : \A i \in 0 .. b - 1 : i \in Nat /\ i \in 0 .. b /\ i < b
    OBVIOUS
  <2> QED
    BY <2>1, <2>2, Zenon
<1>6. e \in Seq(Byte) /\ Len(e) = n
  BY <1>2, <1>5, PartOfBytes
<1>7. Follows(w, Len(file), e)
  BY <1>2, <1>3, <1>4, <1>5, FollowsLess
<1> HIDE DEF e
<1>8. Put(e) = f
  BY <1>3, <1>6, PutAtTheEnd
<1>9. f \in Seq(Byte) /\ Len(f) = Len(file) + n /\ Begins(f, w)
  BY <1>3, <1>4, <1>6, <1>7, BeginsFurther
<1> HIDE DEF f
<1>10. Len(f) < Len(w)
  BY <1>2, <1>3, <1>5, <1>9
<1>11. at[Len(saved)] <= Len(f)
  <2>1. at[Len(saved)] \in Nat
    <3>1. Len(saved) \in 0 .. Len(q)
      BY <1>2, <1>3
    <3> QED
      BY <1>4, <3>1 DEF Encoding
  <2> QED
    BY <1>3, <1>4, <1>5, <1>9, <2>1
<1>12. Len(f) < at[Len(saved) + 1]
  BY <1>2, <1>10
<1> QED
  BY <1>4, <1>8, <1>9, <1>11, <1>12 DEF e, f

LEMMA LayoutWriteFails == ASSUME SaveTypes, SavedLayout, WriteFails PROVE SavedLayout'
<1>1. PICK n \in 0 .. Len(Head(pending)) - 1 : file' = Put(SubSeq(Head(pending), 1, n))
  BY DEF WriteFails
<1>2. /\ status = "saving" /\ durable' = Len(file') /\ kept' = Len(saved)
      /\ saved' = saved /\ status' = "closed"
  BY DEF WriteFails
<1>3. PICK w, q, at : /\ Layout(w, q, at) /\ at[Len(saved)] <= Len(file')
                      /\ Begins(file', w) /\ Len(file') < at[Len(saved) + 1]
  BY <1>1, <1>2, PartOfWrite
<1>4. Layout(w, q, at)'
  BY <1>2, <1>3 DEF Layout
<1> QED
  BY <1>2, <1>3, <1>4 DEF SavedLayout

(* Flushed, the file is on the disk with every item saved.                 *)
LEMMA LayoutFlushed ==
  ASSUME SaveTypes, SavedLayout, status = "ready", status' \in {"ready", "closed"},
         durable' = Len(file), kept' = Len(saved), UNCHANGED <<file, saved>>
  PROVE  SavedLayout'
<1>1. PICK w, q, at : /\ Layout(w, q, at) /\ at[Len(saved)] <= Len(file)
                      /\ q = saved /\ file = w
  <2>1. Session
    BY DEF Session
  <2> QED
    BY <2>1 DEF SavedLayout
<1>2. Layout(w, q, at)'
  BY <1>1 DEF Layout
<1>3. status' # "saving"
  OBVIOUS
<1> QED
  BY <1>1, <1>2, <1>3 DEF SavedLayout

LEMMA LayoutPowerCut == ASSUME SaveTypes, SavedLayout, PowerCut PROVE SavedLayout'
<1>1. PICK n \in durable .. Len(file) : file' = SubSeq(file, 1, n)
  BY DEF PowerCut
<1>2. /\ Session /\ status' = "off" /\ durable' = Len(file')
      /\ UNCHANGED <<saved, kept>>
  BY DEF PowerCut, Session
<1>3. PICK w, q, at : Layout(w, q, at)
  BY <1>2 DEF SavedLayout
<1>4. /\ w \in Seq(Byte) /\ q \in Items /\ Encoding(w, q, at) /\ Begins(file, w)
      /\ Len(saved) <= Len(q) /\ \A i \in 1 .. Len(saved) : q[i] = saved[i]
      /\ at[kept] <= durable
      /\ Len(saved) < Len(q) => Len(file) < at[Len(saved) + 1]
  BY <1>3, Zenon DEF Layout
<1>5. /\ file \in Seq(Byte) /\ Len(file) \in Nat /\ durable \in Nat
      /\ saved \in Items /\ Len(saved) \in Nat /\ kept \in Nat /\ kept <= Len(saved)
  BY TypeFacts
<1>6. n \in 0 .. Len(file) /\ n \in Nat /\ durable <= n /\ n <= Len(file)
  <2>1. \A a, b \in Nat : \A i \in a .. b :
          i \in 0 .. b /\ i \in Nat /\ a <= i /\ i <= b
    OBVIOUS
  <2> QED
    BY <1>5, <2>1, Zenon
<1>7. Len(file') = n /\ Begins(file', w)
  BY <1>1, <1>4, <1>5, <1>6, PartOfBytes, BeginsLess
<1>8. Len(q) \in Nat
  BY <1>4, ItemsAreFinite
<1>9. at[kept] <= durable'
  <2>1. at[kept] \in Nat
    <3>1. kept \in 0 .. Len(q)
      BY <1>4, <1>5, <1>8
    <3> QED
      BY <1>4, <3>1 DEF Encoding
  <2> QED
    BY <1>2, <1>4, <1>5, <1>6, <1>7, <2>1
<1>10. ASSUME Len(saved) < Len(q) PROVE Len(file') < at[Len(saved) + 1]
  <2>1. at[Len(saved) + 1] \in Nat
    <3>1. Len(saved) + 1 \in 0 .. Len(q)
      BY <1>5, <1>8, <1>10
    <3> QED
      BY <1>4, <3>1 DEF Encoding
  <2> QED
    BY <1>4, <1>5, <1>6, <1>7, <1>10, <2>1
<1>11. Layout(w, q, at)'
  BY <1>2, <1>4, <1>7, <1>9, <1>10 DEF Layout
<1> QED
  BY <1>2, <1>11 DEF SavedLayout, Session

LEMMA LayoutNext == ASSUME SaveTypes, SavedLayout, [Next]_vars PROVE SavedLayout'
<1>1. CASE OpenSaveFile
  BY <1>1, LayoutOpen
<1>2. CASE SaveReference
  BY <1>2, LayoutReference
<1>3. CASE \E r \in Record : SaveInstructionData(r)
  BY <1>3, LayoutRecord
<1>4. CASE Write
  BY <1>4, LayoutWrite
<1>5. CASE WriteFails
  BY <1>5, LayoutWriteFails
<1>6. CASE FlushSaveFile
  BY <1>6, LayoutFlushed DEF FlushSaveFile
<1>7. CASE CloseSaveFile
  BY <1>7, LayoutFlushed DEF CloseSaveFile
<1>8. CASE PowerCut
  BY <1>8, LayoutPowerCut
<1>9. CASE UNCHANGED vars
  <2>1. /\ UNCHANGED <<file, durable, pending, current, saved, kept, status>>
    BY <1>9 DEF vars
  <2>2. Session' = Session
    BY <2>1 DEF Session
  <2>3. CASE ~(Session \/ (status = "off" /\ saved # <<>>))
    BY <2>1, <2>2, <2>3 DEF SavedLayout
  <2>4. CASE Session \/ (status = "off" /\ saved # <<>>)
    <3>1. PICK w, q, at :
            /\ Layout(w, q, at)
            /\ Session => at[Len(saved)] <= Len(file)
            /\ status = "ready" => q = saved /\ file = w
            /\ status = "saving" =>
                 /\ q = saved \o current
                 /\ Halfway(w, at[Len(saved)], ItemWrites(q, Len(q)))
      BY <2>4 DEF SavedLayout
    <3>2. Layout(w, q, at)'
      BY <2>1, <3>1 DEF Layout
    <3>3. status' = "saving" => Halfway(w, at[Len(saved)], ItemWrites(q, Len(q)))'
      BY <2>1, <3>1 DEF Halfway
    <3> QED
      BY <2>1, <2>2, <3>1, <3>2, <3>3 DEF SavedLayout
  <2> QED
    BY <2>3, <2>4
<1> QED
  BY <1>1, <1>2, <1>3, <1>4, <1>5, <1>6, <1>7, <1>8, <1>9 DEF Next

LEMMA SaveInvHolds == Spec => []SaveInv
<1>1. Init => SaveInv
  BY TypesInit DEF Init, SaveInv, SavedLayout, Session
<1>2. SaveInv /\ [Next]_vars => SaveInv'
  BY TypesNext, LayoutNext DEF SaveInv
<1> QED
  BY <1>1, <1>2, PTL DEF Spec

----------------------------------------------------------------------------
(* What a reader finds of the file, or of the first bytes of it.           *)
LEMMA FoundIsRecoverable ==
  ASSUME NEW q, NEW n \in Nat, n <= Len(saved), Len(saved) \in Nat,
         \A i \in 1 .. Len(saved) : q[i] = saved[i]
  PROVE  Found(q, n) = RecoverableUpTo(n)
<1>1. ASSUME NEW i \in 1 .. n
      PROVE  (IF i = 1 THEN q[1] ELSE Recovered(q[i])) = Recoverable(i)
  <2>1. i \in 1 .. Len(saved) /\ q[i] = saved[i] /\ (i = 1 => q[1] = saved[1])
    OBVIOUS
  <2> QED
    BY <2>1, Zenon DEF Recoverable, Recovered
<1> QED
  BY <1>1, Zenon DEF Found, RecoverableUpTo

LEMMA GreatestPlace ==
  ASSUME NEW N \in Nat, NEW at, \A i \in 0 .. N : at[i] \in Nat,
         NEW d \in Nat, NEW low \in 0 .. N, at[low] <= d
  PROVE  \E n \in low .. N : at[n] <= d /\ (n < N => d < at[n + 1])
<1> SUFFICES ASSUME ~\E n \in low .. N : at[n] <= d /\ (n < N => d < at[n + 1])
             PROVE  FALSE
  OBVIOUS
<1> DEFINE S == {i \in 0 .. N - low : at[low + i] <= d}
<1>1. 0 \in S /\ N - low \in Nat
  OBVIOUS
<1>2. ASSUME NEW i \in 0 .. (N - low) - 1, i \in S PROVE i + 1 \in S
  <2>1. /\ low + i \in low .. N /\ low + i < N /\ (low + i) + 1 = low + (i + 1)
        /\ i + 1 \in 0 .. N - low /\ (low + i) + 1 \in 0 .. N
    OBVIOUS
  <2>2. at[low + i] <= d
    BY <1>2
  <2>3. ~(d < at[(low + i) + 1])
    BY <2>1, <2>2
  <2>4. at[(low + i) + 1] \in Nat
    BY <2>1
  <2> QED
    BY <2>1, <2>3, <2>4
<1>3. N - low \in S
  <2> HIDE DEF S
  <2>1. \A i \in 0 .. N - low : i \in S
    BY <1>1, <1>2, UpTo
  <2> QED
    BY <1>1, <2>1
<1>4. at[N] <= d /\ N \in low .. N
  <2>1. low + (N - low) = N
    OBVIOUS
  <2> QED
    BY <1>3, <2>1
<1> QED
  BY <1>4

(* Some first bytes of the file, and the items in them.                    *)
LEMMA PartDecodes ==
  ASSUME SaveTypes, NEW w, NEW q, NEW at, Layout(w, q, at),
         NEW d \in Nat, durable <= d, d <= Len(file)
  PROVE  \E n \in kept .. Len(saved) :
           /\ Decoded(SubSeq(file, 1, d)) = RecoverableUpTo(n)
           /\ at[n] <= d /\ (n < Len(q) => d < at[n + 1])
<1>1. /\ w \in Seq(Byte) /\ q \in Items /\ Encoding(w, q, at) /\ Begins(file, w)
      /\ Len(saved) <= Len(q) /\ \A i \in 1 .. Len(saved) : q[i] = saved[i]
      /\ at[kept] <= durable
      /\ Len(saved) < Len(q) => Len(file) < at[Len(saved) + 1]
  BY Zenon DEF Layout
<1>2. /\ file \in Seq(Byte) /\ Len(file) \in Nat /\ durable \in Nat
      /\ saved \in Items /\ Len(saved) \in Nat /\ kept \in Nat /\ kept <= Len(saved)
  BY TypeFacts
<1>3. Len(q) \in Nat
  BY <1>1, ItemsAreFinite
<1>4. \A i \in 0 .. Len(q) : at[i] \in Nat
  BY <1>1 DEF Encoding
<1>5. kept \in 0 .. Len(saved) /\ kept \in 0 .. Len(q) /\ Len(saved) \in 0 .. Len(q)
  BY <1>1, <1>2, <1>3
<1>6. at[kept] <= d
  <2>1. at[kept] \in Nat
    BY <1>4, <1>5
  <2> QED
    BY <1>1, <1>2, <2>1
<1>7. PICK n \in kept .. Len(saved) : at[n] <= d /\ (n < Len(saved) => d < at[n + 1])
  <2>1. \A i \in 0 .. Len(saved) : at[i] \in Nat
    BY <1>1, <1>2, <1>3, <1>4
  <2> QED
    BY <1>2, <1>5, <1>6, <2>1, GreatestPlace
<1>8. n < Len(q) => d < at[n + 1]
  <2>1. CASE n < Len(saved)
    BY <1>7, <2>1
  <2>2. CASE ~(n < Len(saved))
    <3>1. n = Len(saved)
      BY <1>2, <1>7, <2>2
    <3>2. ASSUME n < Len(q) PROVE d < at[n + 1]
      <4>1. at[n + 1] \in Nat
        <5>1. n + 1 \in 0 .. Len(q)
          BY <1>2, <1>3, <3>1, <3>2
        <5> QED
          BY <1>4, <5>1
      <4>2. Len(file) < at[n + 1]
        BY <1>1, <3>1, <3>2
      <4> QED
        BY <1>2, <4>1, <4>2
    <3> QED
      BY <3>2
  <2> QED
    BY <2>1, <2>2
<1>9. n \in Nat /\ n <= Len(saved) /\ n \in 0 .. Len(q)
  BY <1>1, <1>2, <1>3, <1>7
<1> DEFINE s == SubSeq(file, 1, d)
<1>10. s \in Seq(Byte) /\ Len(s) = d /\ Begins(s, w)
  <2>1. d \in 0 .. Len(file)
    BY <1>2
  <2> QED
    BY <1>1, <1>2, <2>1, PartOfBytes, BeginsLess
<1> HIDE DEF s
<1>11. Decoded(s) = Found(q, n)
  BY <1>1, <1>7, <1>8, <1>9, <1>10, AnyFileIsDecoded
<1>12. Found(q, n) = RecoverableUpTo(n)
  BY <1>1, <1>2, <1>9, FoundIsRecoverable
<1> QED
  BY <1>7, <1>8, <1>11, <1>12 DEF s

LEMMA WholeFile ==
  ASSUME file \in Seq(Byte)
  PROVE  SubSeq(file, 1, Len(file)) = file
  OBVIOUS

LEMMA InvDecodes == ASSUME SaveInv PROVE FileDecodes
<1> SUFFICES ASSUME Session PROVE Decoded(file) = RecoverableUpTo(Len(saved))
  BY DEF FileDecodes, Session, Decoded
<1>1. PICK w, q, at : Layout(w, q, at) /\ at[Len(saved)] <= Len(file)
  BY DEF SaveInv, SavedLayout
<1>2. /\ w \in Seq(Byte) /\ q \in Items /\ Encoding(w, q, at) /\ Begins(file, w)
      /\ Len(saved) <= Len(q) /\ \A i \in 1 .. Len(saved) : q[i] = saved[i]
      /\ Len(saved) < Len(q) => Len(file) < at[Len(saved) + 1]
  BY <1>1, Zenon DEF Layout
<1>3. file \in Seq(Byte) /\ Len(saved) \in Nat
  BY TypeFacts DEF SaveInv
<1>4. Len(q) \in Nat
  BY <1>2, ItemsAreFinite
<1>5. Len(saved) \in 0 .. Len(q)
  BY <1>2, <1>3, <1>4
<1>6. Decoded(file) = Found(q, Len(saved))
  BY <1>1, <1>2, <1>3, <1>5, AnyFileIsDecoded
<1>7. Len(saved) <= Len(saved)
  BY <1>3
<1>8. Found(q, Len(saved)) = RecoverableUpTo(Len(saved))
  BY <1>2, <1>3, <1>7, FoundIsRecoverable
<1> QED
  BY <1>6, <1>8

(* FileDecodes: whatever fields the records have, and whatever an earlier  *)
(* run left, the file decodes to what was saved and nothing else, at every *)
(* moment and after a Write that failed halfway.                           *)
THEOREM FileIsReadable == Spec => []FileDecodes
  BY SaveInvHolds, InvDecodes, PTL

(* SurvivesPowerCut: a file that was cut off anywhere after what is on the *)
(* disk decodes to the records saved first, all those flushed among them.  *)
THEOREM PowerCutKeepsRecords == Spec => []SurvivesPowerCut
<1>1. SaveInv => SurvivesPowerCut
  <2> SUFFICES ASSUME SaveInv, status = "off", saved # <<>>
               PROVE  \E n \in kept .. Len(saved) : Decoded(file) = RecoverableUpTo(n)
    BY DEF SurvivesPowerCut, Decoded
  <2>1. PICK w, q, at : Layout(w, q, at)
    BY DEF SaveInv, SavedLayout
  <2>2. /\ SaveTypes /\ file \in Seq(Byte) /\ Len(file) \in Nat
        /\ durable <= Len(file) /\ Len(file) <= Len(file)
    <3>1. SaveTypes
      BY DEF SaveInv
    <3> QED
      BY <3>1, TypeFacts
  <2>3. PICK n \in kept .. Len(saved) :
          Decoded(SubSeq(file, 1, Len(file))) = RecoverableUpTo(n)
    BY <2>1, <2>2, PartDecodes
  <2> QED
    BY <2>2, <2>3, WholeFile
<1> QED
  BY <1>1, SaveInvHolds, PTL

----------------------------------------------------------------------------
(* The record log.  Its log is Decoded(file), and flushed is how much of   *)
(* it is in the first durable bytes.                                       *)
OnDisk == Decoded(SubSeq(file, 1, durable))

LEMMA FoundParts ==
  ASSUME NEW q, NEW n \in Nat
  PROVE  /\ Len(Found(q, n)) = n
         /\ \A i \in 0 .. n : SubSeq(Found(q, n), 1, i) = Found(q, i)
<1> DEFINE W == {Found(q, n)[i] : i \in 1 .. n}
<1>1. Found(q, n) \in Seq(W) /\ Len(Found(q, n)) = n
  BY DEF Found
<1>2. ASSUME NEW i \in 0 .. n PROVE SubSeq(Found(q, n), 1, i) = Found(q, i)
  <2>1. Found(q, i) \in Seq(W) /\ Len(Found(q, i)) = i
    BY DEF Found
  <2>2. SubSeq(Found(q, n), 1, i) \in Seq(W) /\ Len(SubSeq(Found(q, n), 1, i)) = i
    BY <1>1
  <2>3. \A j \in 1 .. i : SubSeq(Found(q, n), 1, i)[j] = Found(q, i)[j]
    BY <1>1 DEF Found
  <2> HIDE DEF W
  <2> QED
    BY <2>1, <2>2, <2>3, SeqEqual
<1> QED
  BY <1>1, <1>2

LEMMA FoundSame ==
  ASSUME NEW p, NEW q, NEW n \in Nat, \A i \in 1 .. n : p[i] = q[i]
  PROVE  Found(p, n) = Found(q, n)
<1>1. \A i \in 1 .. n : (IF i = 1 THEN p[1] ELSE Recovered(p[i])) =
                        (IF i = 1 THEN q[1] ELSE Recovered(q[i]))
  OBVIOUS
<1> QED
  BY <1>1, Zenon DEF Found

(* The same, for every n at once.                                          *)
LEMMA PartsOfFound ==
  \A q : \A n \in Nat :
    /\ Len(Found(q, n)) = n
    /\ \A i \in 0 .. n : SubSeq(Found(q, n), 1, i) = Found(q, i)
  BY FoundParts

LEMMA LogIsFound ==
  ASSUME SaveInv, Session
  PROVE  /\ Decoded(file) = Found(saved, Len(saved))
         /\ Len(Decoded(file)) = Len(saved) /\ Len(saved) \in Nat
<1>1. Len(saved) \in Nat /\ Len(saved) <= Len(saved)
  <2>1. Len(saved) \in Nat
    BY TypeFacts DEF SaveInv
  <2> QED
    BY <2>1
<1>2. Decoded(file) = RecoverableUpTo(Len(saved))
  BY InvDecodes DEF FileDecodes, Session, Decoded
<1>3. Found(saved, Len(saved)) = RecoverableUpTo(Len(saved))
  BY <1>1, FoundIsRecoverable
<1> QED
  BY <1>1, <1>2, <1>3, FoundParts

LEMMA LogIsAlwaysFound ==
  SaveInv /\ Session => /\ Decoded(file) = Found(saved, Len(saved))
                        /\ Len(Decoded(file)) = Len(saved) /\ Len(saved) \in Nat
  BY LogIsFound

(* Saving a field changes nothing for a reader, unless it is the last.     *)
LEMMA LogWrite ==
  ASSUME SaveInv, SaveInv', Write
  PROVE  /\ Session /\ Session' /\ status = "saving" /\ status' \in {"ready", "saving"}
         /\ OnDisk' = OnDisk
         /\ \/ Decoded(file') = Decoded(file)
            \/ /\ Len(Decoded(file')) = Len(Decoded(file)) + 1
               /\ SubSeq(Decoded(file'), 1, Len(Decoded(file))) = Decoded(file)
<1>1. /\ status = "saving" /\ file' = Put(Head(pending)) /\ durable' = durable
      /\ \/ pending' = <<>> /\ saved' = saved \o current /\ status' = "ready"
         \/ pending' # <<>> /\ saved' = saved /\ current' = current /\ status' = status
  BY DEF Write
<1>2. Session /\ Session'
  BY <1>1 DEF Session
<1>3. /\ Decoded(file) = Found(saved, Len(saved)) /\ Len(Decoded(file)) = Len(saved)
      /\ Len(saved) \in Nat
  BY <1>2, LogIsFound
<1>4. Decoded(file') = Found(saved', Len(saved'))
  <2>1. (Decoded(file) = Found(saved, Len(saved)))'
    BY <1>2, LogIsAlwaysFound, PTL
  <2> QED
    BY <2>1
<1>5. OnDisk' = OnDisk
  <2>1. /\ file \in Seq(Byte) /\ position = Len(file) /\ durable \in Nat
        /\ durable <= Len(file) /\ pending \in Writes /\ pending # <<>>
        /\ Len(file) \in Nat
    BY <1>1, TypeFacts DEF SaveInv
  <2>2. Head(pending) \in Seq(Byte)
    BY <2>1, FirstWrite
  <2>3. file' = file \o Head(pending)
    BY <1>1, <2>1, <2>2, PutAtTheEnd
  <2>4. \A a, b \in Seq(Byte) : \A d \in 0 .. Len(a) : SubSeq(a \o b, 1, d) = SubSeq(a, 1, d)
    <3> SUFFICES ASSUME NEW a \in Seq(Byte), NEW b \in Seq(Byte), NEW d \in 0 .. Len(a)
                 PROVE  SubSeq(a \o b, 1, d) = SubSeq(a, 1, d)
      OBVIOUS
    <3>1. /\ a \o b \in Seq(Byte) /\ Len(a \o b) = Len(a) + Len(b)
          /\ \A i \in 1 .. Len(a) : (a \o b)[i] = a[i]
      BY TwoParts
    <3>2. d \in 0 .. Len(a \o b)
      BY <3>1
    <3>3. /\ SubSeq(a \o b, 1, d) \in Seq(Byte) /\ Len(SubSeq(a \o b, 1, d)) = d
          /\ \A i \in 1 .. d : SubSeq(a \o b, 1, d)[i] = (a \o b)[i]
      BY <3>1, <3>2, PartOfBytes
    <3>4. /\ SubSeq(a, 1, d) \in Seq(Byte) /\ Len(SubSeq(a, 1, d)) = d
          /\ \A i \in 1 .. d : SubSeq(a, 1, d)[i] = a[i]
      BY PartOfBytes
    <3>5. \A i \in 1 .. d : SubSeq(a \o b, 1, d)[i] = SubSeq(a, 1, d)[i]
      BY <3>1, <3>3, <3>4
    <3> QED
      BY <3>3, <3>4, <3>5, SeqEqual
  <2>5. durable \in 0 .. Len(file)
    BY <2>1
  <2>6. SubSeq(file', 1, durable') = SubSeq(file, 1, durable)
    BY <1>1, <2>1, <2>2, <2>3, <2>4, <2>5, Zenon
  <2> QED
    BY <2>6, Zenon DEF OnDisk
<1>6. CASE saved' = saved
  BY <1>1, <1>2, <1>3, <1>4, <1>5, <1>6
<1>7. CASE saved' # saved
  <2>1. /\ saved \in Items /\ current \in Seq({Reference} \cup Record) /\ Len(current) = 1
    BY <1>1, TypeFacts DEF SaveInv
  <2>2. saved' = saved \o current
    BY <1>1, <1>7
  <2>3. Len(saved') = Len(saved) + 1 /\ \A i \in 1 .. Len(saved) : saved'[i] = saved[i]
    BY <2>1, <2>2, OneMoreItem
  <2>4. Len(saved') \in Nat /\ Len(saved) \in 0 .. Len(saved')
    BY <1>3, <2>3
  <2>5. /\ Len(Decoded(file')) = Len(saved')
        /\ SubSeq(Decoded(file'), 1, Len(saved)) = Found(saved', Len(saved))
    BY <1>4, <2>4, PartsOfFound, Zenon
  <2>6. Found(saved', Len(saved)) = Found(saved, Len(saved))
    BY <1>3, <2>3, FoundSame
  <2> QED
    BY <1>1, <1>2, <1>3, <1>5, <2>3, <2>5, <2>6
<1> QED
  BY <1>6, <1>7

(* What is on the disk once everything is.                                 *)
LEMMA LogFlushed ==
  ASSUME file' \in Seq(Byte), durable' = Len(file')
  PROVE  OnDisk' = Decoded(file')
<1>1. SubSeq(file', 1, Len(file')) = file'
  OBVIOUS
<1> QED
  BY <1>1 DEF OnDisk

LEMMA LogPowerCut ==
  ASSUME SaveInv, SaveInv', PowerCut
  PROVE  \E n \in Len(OnDisk) .. Len(Decoded(file)) :
           /\ Decoded(file') = SubSeq(Decoded(file), 1, n) /\ Len(OnDisk') = n
<1>1. PICK d \in durable .. Len(file) : file' = SubSeq(file, 1, d)
  BY DEF PowerCut
<1>2. Session /\ durable' = Len(file')
  BY DEF PowerCut, Session
<1>3. /\ SaveTypes /\ Len(file) \in Nat /\ durable \in Nat /\ durable <= Len(file)
      /\ Len(saved) \in Nat /\ kept \in Nat /\ kept <= Len(saved)
  BY TypeFacts DEF SaveInv
<1>4. PICK w, q, at : Layout(w, q, at)
  BY <1>2 DEF SaveInv, SavedLayout
<1>5. /\ q \in Items /\ Encoding(w, q, at) /\ Len(saved) <= Len(q)
      /\ \A i \in 1 .. Len(saved) : q[i] = saved[i]
  BY <1>4, Zenon DEF Layout
<1>6. d \in Nat /\ durable <= d /\ d <= Len(file) /\ durable <= durable
  <2>1. \A a, b \in Nat : \A i \in a .. b : i \in Nat /\ a <= i /\ i <= b /\ a <= a
    OBVIOUS
  <2> QED
    BY <1>3, <2>1, Zenon
<1>7. PICK n2 \in kept .. Len(saved) :
        /\ Decoded(SubSeq(file, 1, d)) = RecoverableUpTo(n2)
        /\ at[n2] <= d /\ (n2 < Len(q) => d < at[n2 + 1])
  BY <1>3, <1>4, <1>6, PartDecodes
<1>8. PICK n1 \in kept .. Len(saved) :
        /\ Decoded(SubSeq(file, 1, durable)) = RecoverableUpTo(n1) /\ at[n1] <= durable
  BY <1>3, <1>4, <1>6, PartDecodes
<1>9. /\ n1 \in Nat /\ n1 <= Len(saved) /\ n2 \in Nat /\ n2 <= Len(saved)
      /\ Len(q) \in Nat
  BY <1>3, <1>5, <1>7, <1>8, ItemsAreFinite
<1>10. n1 <= n2
  <2> SUFFICES ASSUME n2 < n1 PROVE FALSE
    BY <1>9
  <2>1. /\ \A i \in 0 .. Len(q) : at[i] \in Nat
        /\ \A i \in 0 .. Len(q) - 1 : at[i] < at[i + 1]
    BY <1>5 DEF Encoding
  <2>2. \A i, j \in 0 .. Len(q) : i <= j => at[i] <= at[j]
    BY <1>9, <2>1, AtGrows
  <2>3. n2 + 1 \in 0 .. Len(q) /\ n1 \in 0 .. Len(q) /\ n2 + 1 <= n1 /\ n2 < Len(q)
    BY <1>5, <1>3, <1>9
  <2>4. at[n2 + 1] <= at[n1] /\ at[n2 + 1] \in Nat /\ at[n1] \in Nat
    BY <2>1, <2>2, <2>3
  <2>5. d < at[n2 + 1] /\ at[n1] <= durable
    BY <1>7, <1>8, <2>3
  <2>6. \A x, y, z, u \in Nat : ~(x < y /\ y <= z /\ z <= u /\ u <= x)
    OBVIOUS
  <2> QED
    BY <1>3, <1>6, <2>4, <2>5, <2>6, Zenon
<1>11. /\ Found(saved, n1) = RecoverableUpTo(n1) /\ Found(saved, n2) = RecoverableUpTo(n2)
  BY <1>3, <1>9, FoundIsRecoverable
<1>12. Len(OnDisk) = n1
  BY <1>8, <1>9, <1>11, FoundParts DEF OnDisk
<1>13. Decoded(file) = Found(saved, Len(saved)) /\ Len(Decoded(file)) = Len(saved)
  BY <1>2, LogIsFound
<1>14. Decoded(file') = Found(saved, n2)
  BY <1>1, <1>7, <1>11
<1>15. Decoded(file') = SubSeq(Decoded(file), 1, n2)
  <2>1. n2 \in 0 .. Len(saved)
    BY <1>3, <1>9
  <2>2. SubSeq(Found(saved, Len(saved)), 1, n2) = Found(saved, n2)
    BY <1>3, <2>1, PartsOfFound, Zenon
  <2>3. SubSeq(Decoded(file), 1, n2) = Found(saved, n2)
    BY <1>13, <2>2
  <2> QED
    BY <1>14, <2>3
<1>16. Len(OnDisk') = n2
  <2>1. file' \in Seq(Byte)
    BY DEF SaveInv, SaveTypes, SaveTypeOK
  <2>2. OnDisk' = Decoded(file')
    BY <1>2, <2>1, LogFlushed
  <2> QED
    BY <1>9, <1>14, <2>2, FoundParts
<1>17. n2 \in n1 .. Len(saved)
  BY <1>3, <1>9, <1>10
<1> QED
  BY <1>12, <1>13, <1>15, <1>16, <1>17

(* One step of the log, seen as values.                                    *)
LEMMA LogSteps ==
  ASSUME SaveInv, SaveInv', [Next]_vars
  PROVE  LET log == Decoded(file)
             flushed == Len(OnDisk)
             open == status \in {"ready", "saving"}
         IN  \/ /\ open /\ open'
                /\ Len(log') = Len(log) + 1 /\ SubSeq(log', 1, Len(log)) = log
                /\ flushed' = flushed
             \/ open /\ open' /\ flushed' = Len(log) /\ log' = log
             \/ open /\ ~open' /\ flushed' = Len(log') /\ log' = log
             \/ /\ ~open'
                /\ \E n \in flushed .. Len(log) : log' = SubSeq(log, 1, n) /\ flushed' = n
             \/ ~open /\ open' /\ log' = <<>> /\ flushed' = 0
             \/ (open <=> open') /\ log' = log /\ flushed' = flushed
<1> DEFINE open == status \in {"ready", "saving"}
<1>0. file' \in Seq(Byte)
  BY DEF SaveInv, SaveTypes, SaveTypeOK
<1>u. (file' = file => Decoded(file') = Decoded(file))
      /\ (file' = file /\ durable' = durable => OnDisk' = OnDisk)
  BY Zenon DEF OnDisk
<1>1. CASE OpenSaveFile
  <2>1. ~open
    BY <1>1 DEF OpenSaveFile
  <2>2. CASE status' = "ready"
    <3>1. file' = <<>> /\ durable' = 0
      BY <1>1, <2>2 DEF OpenSaveFile
    <3>2. Decoded(file') = <<>>
      BY <3>1, EmptyIsDecoded, Zenon
    <3>3. durable' = Len(file')
      BY <3>1
    <3>4. OnDisk' = <<>>
      BY <1>0, <3>2, <3>3, LogFlushed
    <3>5. Len(OnDisk') = 0
      BY <3>4
    <3> QED
      BY <2>1, <2>2, <3>2, <3>5
  <2>3. CASE status' # "ready"
    <3>1. file' = file /\ durable' = durable /\ ~open'
      BY <1>1, <2>3 DEF OpenSaveFile
    <3> QED
      BY <1>u, <2>1, <3>1
  <2> QED
    BY <2>2, <2>3
<1>2. CASE SaveReference \/ \E r \in Record : SaveInstructionData(r)
  <2>1. open /\ open' /\ file' = file /\ durable' = durable
    BY <1>2 DEF SaveReference, SaveInstructionData
  <2> QED
    BY <1>u, <2>1
<1>3. CASE Write
  <2>1. /\ status = "saving" /\ status' \in {"ready", "saving"}
        /\ OnDisk' = OnDisk
        /\ \/ Decoded(file') = Decoded(file)
           \/ /\ Len(Decoded(file')) = Len(Decoded(file)) + 1
              /\ SubSeq(Decoded(file'), 1, Len(Decoded(file))) = Decoded(file)
    BY <1>3, LogWrite
  <2>2. open /\ open'
    BY <2>1
  <2> QED
    BY <2>1, <2>2
<1>4. CASE WriteFails
  <2>1. /\ status = "saving" /\ durable' = Len(file') /\ saved' = saved
        /\ status' = "closed"
    BY <1>4 DEF WriteFails
  <2>2. Session /\ Session'
    BY <2>1 DEF Session
  <2>3. Decoded(file) = Found(saved, Len(saved))
    BY <2>2, LogIsFound
  <2>4. (Decoded(file) = Found(saved, Len(saved)))'
    BY <2>2, LogIsAlwaysFound, PTL
  <2>5. Decoded(file') = Decoded(file)
    BY <2>1, <2>3, <2>4
  <2>6. OnDisk' = Decoded(file')
    BY <1>0, <2>1, LogFlushed
  <2>7. open /\ ~open'
    BY <2>1
  <2> QED
    BY <2>5, <2>6, <2>7
<1>5. CASE FlushSaveFile \/ CloseSaveFile
  <2>1. open /\ file' = file /\ durable' = Len(file')
    BY <1>5 DEF FlushSaveFile, CloseSaveFile
  <2>2. OnDisk' = Decoded(file') /\ Decoded(file') = Decoded(file)
    BY <1>0, <1>u, <2>1, LogFlushed
  <2> QED
    BY <2>1, <2>2
<1>6. CASE PowerCut
  <2>1. ~open'
    BY <1>6 DEF PowerCut
  <2>2. \E n \in Len(OnDisk) .. Len(Decoded(file)) :
          Decoded(file') = SubSeq(Decoded(file), 1, n) /\ Len(OnDisk') = n
    BY <1>6, LogPowerCut
  <2> QED
    BY <2>1, <2>2
<1>7. CASE UNCHANGED vars
  <2>1. file' = file /\ durable' = durable /\ status' = status
    BY <1>7 DEF vars
  <2> QED
    BY <1>u, <2>1
<1> QED
  BY <1>1, <1>2, <1>3, <1>4, <1>5, <1>6, <1>7 DEF Next

(* ImplementsLog: for every record, reference and earlier file, whatever   *)
(* fails and whenever the power goes off, the bytes are a log of whole     *)
(* records that grows one record at a time and loses none that is flushed. *)
THEOREM FileImplementsLog == Spec => ImplementsLog
<1>1. Init => Log!LogInit
  <2> SUFFICES ASSUME Init PROVE Log!LogInit
    OBVIOUS
  <2>1. durable = Len(file) /\ ~(status \in {"ready", "saving"})
    BY DEF Init
  <2>2. file \in Seq(Byte)
    BY SaveAssumption DEF Init
  <2>3. SubSeq(file, 1, durable) = file
    BY <2>1, <2>2, WholeFile
  <2> QED
    BY <2>1, <2>3, Zenon DEF Log!LogInit
<1>2. SaveInv /\ SaveInv' /\ [Next]_vars => [Log!LogNext]_(Log!logVars)
  <2> SUFFICES ASSUME SaveInv, SaveInv', [Next]_vars
               PROVE  [Log!LogNext]_(Log!logVars)
    OBVIOUS
  <2> DEFINE log == Decoded(file)
             flushed == Len(OnDisk)
             open == status \in {"ready", "saving"}
  <2>a. /\ Decode(file, FALSE) = log /\ Decode(file', FALSE) = log'
        /\ Len(Decode(SubSeq(file, 1, durable), FALSE)) = flushed
        /\ Len(Decode(SubSeq(file', 1, durable'), FALSE)) = flushed'
    BY DEF Decoded, OnDisk
  <2>1. \/ /\ open /\ open'
           /\ Len(log') = Len(log) + 1 /\ SubSeq(log', 1, Len(log)) = log
           /\ flushed' = flushed
        \/ open /\ open' /\ flushed' = Len(log) /\ log' = log
        \/ open /\ ~open' /\ flushed' = Len(log') /\ log' = log
        \/ /\ ~open'
           /\ \E n \in flushed .. Len(log) : log' = SubSeq(log, 1, n) /\ flushed' = n
        \/ ~open /\ open' /\ log' = <<>> /\ flushed' = 0
        \/ (open <=> open') /\ log' = log /\ flushed' = flushed
    BY LogSteps
  <2> HIDE DEF log, flushed
  <2>2. CASE /\ open /\ open'
             /\ Len(log') = Len(log) + 1 /\ SubSeq(log', 1, Len(log)) = log
             /\ flushed' = flushed
    <3>1. Log!AddRecord
      BY <2>a, <2>2 DEF Log!AddRecord
    <3> QED
      BY <3>1, Zenon DEF Log!LogNext
  <2>3. CASE open /\ open' /\ flushed' = Len(log) /\ log' = log
    <3>1. Log!FlushLog
      BY <2>a, <2>3 DEF Log!FlushLog
    <3> QED
      BY <3>1, Zenon DEF Log!LogNext
  <2>4. CASE open /\ ~open' /\ flushed' = Len(log') /\ log' = log
    <3>1. Log!CloseLog
      BY <2>a, <2>4 DEF Log!CloseLog
    <3> QED
      BY <3>1, Zenon DEF Log!LogNext
  <2>5. CASE /\ ~open'
             /\ \E n \in flushed .. Len(log) : log' = SubSeq(log, 1, n) /\ flushed' = n
    <3>1. Log!LosePower
      BY <2>a, <2>5 DEF Log!LosePower
    <3> QED
      BY <3>1, Zenon DEF Log!LogNext
  <2>6. CASE ~open /\ open' /\ log' = <<>> /\ flushed' = 0
    <3>1. Log!StartSession
      BY <2>a, <2>6 DEF Log!StartSession
    <3> QED
      BY <3>1, Zenon DEF Log!LogNext
  <2>7. CASE (open <=> open') /\ log' = log /\ flushed' = flushed
    <3>1. open' = open
      BY <2>7
    <3> QED
      BY <2>a, <2>7, <3>1, Zenon DEF Log!logVars
  <2> QED
    BY <2>1, <2>2, <2>3, <2>4, <2>5, <2>6, <2>7
<1>3. Log!LogInit /\ [][Log!LogNext]_(Log!logVars) => ImplementsLog
  BY DEF ImplementsLog, Log!LogSpec
<1> QED
  BY <1>1, <1>2, <1>3, SaveInvHolds, PTL DEF Spec
=============================================================================
