------------------------- MODULE ReceivePathProofs -------------------------
(***************************************************************************)
(* The way of an answer into the application: the bytes of a connection    *)
(* are cut into the messages that were sent, for any lengths of messages,  *)
(* records and buffers; and a pull decodes and filters the messages of an  *)
(* answer without losing one, for any lengths and tags.                    *)
(***************************************************************************)
EXTENDS Framing, PullClient, SequenceTheorems, WellFoundedInduction, TLAPS

-----------------------------------------------------------------------------
(* Runs of bytes. *)

Byte == Nat \X Nat

\* The byte behind x in the stream of the messages S.
Succ(S, x) == IF x[2] < Len(S[x[1]]) THEN <<x[1], x[2] + 1>> ELSE <<x[1] + 1, 1>>

\* The bytes of messages.
BytesOf(S) == {x \in Byte : x[1] \in 1 .. Len(S) /\ x[2] \in 1 .. Len(S[x[1]])}

\* Each byte of s is behind the one before it.
Chained(S, s) == \A j \in 1 .. Len(s) - 1 : s[j + 1] = Succ(S, s[j])

\* The byte behind those of s.
After(S, s) == Succ(S, s[Len(s)])

\* s is the part of the stream that begins with b and ends before e.
Run(S, s, b, e) ==
    /\ s \in Seq(BytesOf(S)) /\ Chained(S, s)
    /\ IF s = <<>> THEN b = e ELSE s[1] = b /\ After(S, s) = e

\* Two runs that follow each other are one.
LEMMA RunConcat ==
    ASSUME NEW S, NEW s, NEW t, NEW b, NEW m, NEW e, Run(S, s, b, m), Run(S, t, m, e)
    PROVE  Run(S, s \o t, b, e)
<1>1. s \in Seq(BytesOf(S)) /\ t \in Seq(BytesOf(S))
  BY DEF Run
<1>2. CASE s = <<>>
  <2>1. s \o t = t /\ b = m
    BY <1>1, <1>2, ConcatEmptySeq DEF Run
  <2> QED BY <2>1
<1>3. CASE t = <<>>
  <2>1. s \o t = s /\ e = m
    BY <1>1, <1>3, ConcatEmptySeq DEF Run
  <2> QED BY <2>1
<1>4. CASE s # <<>> /\ t # <<>>
  <2>1. /\ s \o t \in Seq(BytesOf(S)) /\ Len(s \o t) = Len(s) + Len(t)
        /\ \A i \in 1 .. Len(s) + Len(t) : (s \o t)[i] = IF i <= Len(s) THEN s[i] ELSE t[i - Len(s)]
    BY <1>1, ConcatProperties
  <2>2. Len(s) \in Nat \ {0} /\ Len(t) \in Nat \ {0}
    BY <1>1, <1>4, EmptySeq
  <2>3. /\ s[1] = b /\ Succ(S, s[Len(s)]) = m /\ t[1] = m /\ Succ(S, t[Len(t)]) = e
        /\ \A j \in 1 .. Len(s) - 1 : s[j + 1] = Succ(S, s[j])
        /\ \A j \in 1 .. Len(t) - 1 : t[j + 1] = Succ(S, t[j])
    BY <1>4 DEF Run, After, Chained
  <2> DEFINE u == s \o t
  <2>4. /\ \A i \in 1 .. Len(s) : u[i] = s[i]
        /\ \A i \in 1 .. Len(t) : u[Len(s) + i] = t[i]
    <3>1. ASSUME NEW i \in 1 .. Len(t) PROVE u[Len(s) + i] = t[i]
      <4>1. Len(s) + i \in 1 .. Len(s) + Len(t) /\ ~(Len(s) + i <= Len(s)) /\ Len(s) + i - Len(s) = i
        BY <2>2
      <4> QED BY <2>1, <4>1
    <3>2. ASSUME NEW i \in 1 .. Len(s) PROVE u[i] = s[i]
      BY <2>1, <2>2
    <3> QED BY <3>1, <3>2
  <2> HIDE DEF u
  <2>5. ASSUME NEW j \in 1 .. Len(s) + Len(t) - 1 PROVE u[j + 1] = Succ(S, u[j])
    <3>1. CASE j < Len(s)
      <4>1. j \in 1 .. Len(s) - 1 /\ j \in 1 .. Len(s) /\ j + 1 \in 1 .. Len(s)
        BY <2>2, <3>1
      <4> QED BY <4>1, <2>3, <2>4
    <3>2. CASE j = Len(s)
      <4>1. j \in 1 .. Len(s) /\ 1 \in 1 .. Len(t)
        BY <2>2, <3>2
      <4> QED BY <4>1, <2>3, <2>4, <3>2
    <3>3. CASE j > Len(s)
      <4>1. PICK i \in 1 .. Len(t) - 1 : j = Len(s) + i
        <5>1. j - Len(s) \in 1 .. Len(t) - 1 /\ j = Len(s) + (j - Len(s))
          BY <2>2, <3>3
        <5> QED BY <5>1
      <4>2. i \in 1 .. Len(t) /\ i + 1 \in 1 .. Len(t) /\ j + 1 = Len(s) + (i + 1)
        BY <2>2, <4>1
      <4> QED BY <4>1, <4>2, <2>3, <2>4
    <3> QED BY <2>2, <3>1, <3>2, <3>3
  <2>6. u[1] = b /\ Succ(S, u[Len(s) + Len(t)]) = e
    <3>1. 1 \in 1 .. Len(s) /\ Len(t) \in 1 .. Len(t)
      BY <2>2
    <3> QED BY <3>1, <2>3, <2>4
  <2>7. u # <<>> /\ u \in Seq(BytesOf(S)) /\ Len(u) = Len(s) + Len(t)
    BY <2>1, <2>2, EmptySeq DEF u
  <2>8. Run(S, u, b, e)
    BY <2>5, <2>6, <2>7 DEF Run, Chained, After
  <2> QED BY <2>8 DEF u
<1> QED BY <1>2, <1>3, <1>4

\* A run that is cut is two runs.
LEMMA RunSplit ==
    ASSUME NEW S, NEW s, NEW b, NEW e, Run(S, s, b, e), NEW n \in 0 .. Len(s)
    PROVE  \E m : /\ Run(S, SubSeq(s, 1, n), b, m)
                  /\ Run(S, SubSeq(s, n + 1, Len(s)), m, e)
<1>1. s \in Seq(BytesOf(S)) /\ Len(s) \in Nat /\ \A i \in 1 .. Len(s) : s[i] \in BytesOf(S)
  BY LenProperties, ElementOfSeq DEF Run
<1> DEFINE t == SubSeq(s, 1, n)
           u == SubSeq(s, n + 1, Len(s))
<1>2. t \in Seq(BytesOf(S)) /\ Len(t) = n /\ \A i \in 1 .. n : t[i] = s[i]
  <2>1. \A i \in 1 .. n : s[i] \in BytesOf(S)
    BY <1>1
  <2>2. /\ t \in Seq(BytesOf(S)) /\ Len(t) = IF 1 <= n THEN n - 1 + 1 ELSE 0
        /\ \A i \in 1 .. n - 1 + 1 : t[i] = s[1 + i - 1]
    BY <1>1, <2>1, SubSeqProperties
  <2>3. \A i \in 1 .. n : i \in 1 .. n - 1 + 1 /\ 1 + i - 1 = i
    BY <1>1
  <2> QED BY <1>1, <2>2, <2>3
<1>3. u \in Seq(BytesOf(S)) /\ Len(u) = Len(s) - n /\ \A i \in 1 .. Len(s) - n : u[i] = s[n + i]
  <2>1. n + 1 \in Int /\ Len(s) \in Int /\ \A i \in n + 1 .. Len(s) : s[i] \in BytesOf(S)
    BY <1>1
  <2>2. /\ u \in Seq(BytesOf(S))
        /\ Len(u) = IF n + 1 <= Len(s) THEN Len(s) - (n + 1) + 1 ELSE 0
        /\ \A i \in 1 .. Len(s) - (n + 1) + 1 : u[i] = s[(n + 1) + i - 1]
    BY <2>1, SubSeqProperties
  <2>3. \A i \in 1 .. Len(s) - n : i \in 1 .. Len(s) - (n + 1) + 1 /\ (n + 1) + i - 1 = n + i
    BY <1>1
  <2> QED BY <1>1, <2>2, <2>3
<1> HIDE DEF t, u
<1>4. \A j \in 1 .. Len(s) - 1 : s[j + 1] = Succ(S, s[j])
  BY DEF Run, Chained
<1>5. Chained(S, t)
  BY <1>1, <1>2, <1>4 DEF Chained
<1>6. Chained(S, u)
  <2> SUFFICES ASSUME NEW j \in 1 .. Len(s) - n - 1 PROVE u[j + 1] = Succ(S, u[j])
    BY <1>3 DEF Chained
  <2>1. /\ j \in 1 .. Len(s) - n /\ j + 1 \in 1 .. Len(s) - n
        /\ n + j \in 1 .. Len(s) - 1 /\ n + (j + 1) = (n + j) + 1
    BY <1>1
  <2> QED BY <2>1, <1>3, <1>4
<1>7. CASE n = 0
  <2>1. t = <<>>
    BY <1>2, <1>7, EmptySeq
  <2>2. u = s
    BY <1>1, <1>3, <1>7, SeqEqual
  <2> QED BY <2>1, <2>2, <1>2, <1>5 DEF Run, t, u
<1>8. CASE n = Len(s)
  <2>1. u = <<>>
    BY <1>1, <1>3, <1>8, EmptySeq
  <2>2. t = s
    BY <1>1, <1>2, <1>8, SeqEqual
  <2> QED BY <2>1, <2>2, <1>3, <1>6 DEF Run, t, u
<1>9. CASE n # 0 /\ n # Len(s)
  <2>1. 1 \in 1 .. n /\ n \in 1 .. n /\ n \in 1 .. Len(s) - 1 /\ 1 \in 1 .. Len(s) - n
        /\ Len(s) - n \in 1 .. Len(s) - n /\ n + (Len(s) - n) = Len(s)
    BY <1>1, <1>9
  <2>2. t # <<>> /\ u # <<>> /\ s # <<>>
    BY <2>1, <1>2, <1>3, <1>1, EmptySeq
  <2>3. s[1] = b /\ Succ(S, s[Len(s)]) = e
    BY <2>2 DEF Run, After
  <2>4. t[1] = b /\ After(S, t) = s[n + 1]
    BY <2>1, <2>3, <1>2, <1>4 DEF After
  <2>5. u[1] = s[n + 1] /\ After(S, u) = e
    BY <2>1, <2>3, <1>3 DEF After
  <2>6. Run(S, t, b, s[n + 1]) /\ Run(S, u, s[n + 1], e)
    BY <2>2, <2>4, <2>5, <1>2, <1>3, <1>5, <1>6 DEF Run
  <2> QED BY <2>6 DEF t, u
<1> QED BY <1>7, <1>8, <1>9

\* The records of R are the part of the stream from b to before e; none is empty.
Records(S, R, b, e) ==
    /\ R \in Seq(Seq(BytesOf(S)))
    /\ \A r \in 1 .. Len(R) : R[r] # <<>> /\ Chained(S, R[r])
    /\ \A r \in 1 .. Len(R) - 1 : R[r + 1][1] = After(S, R[r])
    /\ IF R = <<>> THEN b = e ELSE R[1][1] = b /\ After(S, R[Len(R)]) = e

\* The first record, and the others behind it.
LEMMA RecordsTail ==
    ASSUME NEW S, NEW R, NEW b, NEW e, Records(S, R, b, e), R # <<>>
    PROVE  /\ Head(R) # <<>>
           /\ \E m : Run(S, Head(R), b, m) /\ Records(S, Tail(R), m, e)
<1>1. R \in Seq(Seq(BytesOf(S))) /\ Len(R) \in Nat \ {0} /\ Head(R) = R[1]
  BY EmptySeq DEF Records
<1>2. /\ Tail(R) \in Seq(Seq(BytesOf(S))) /\ Len(Tail(R)) = Len(R) - 1
      /\ \A i \in 1 .. Len(Tail(R)) : Tail(R)[i] = R[i + 1]
  BY <1>1, HeadTailProperties
<1>3. R[1] # <<>> /\ Chained(S, R[1]) /\ R[1] \in Seq(BytesOf(S)) /\ R[1][1] = b
  BY <1>1, ElementOfSeq DEF Records
<1> DEFINE m == After(S, R[1])
<1>4. Run(S, Head(R), b, m)
  BY <1>1, <1>3 DEF Run
<1>5. Records(S, Tail(R), m, e)
  <2> DEFINE T == Tail(R)
  <2>1. T \in Seq(Seq(BytesOf(S))) /\ Len(T) = Len(R) - 1 /\ \A i \in 1 .. Len(T) : T[i] = R[i + 1]
    BY <1>2
  <2> HIDE DEF T, m
  <2>2. \A r \in 1 .. Len(T) : T[r] # <<>> /\ Chained(S, T[r])
    <3> SUFFICES ASSUME NEW r \in 1 .. Len(T) PROVE T[r] # <<>> /\ Chained(S, T[r])
      OBVIOUS
    <3>1. r + 1 \in 1 .. Len(R)
      BY <1>1, <2>1
    <3> QED BY <2>1, <3>1 DEF Records
  <2>3. \A r \in 1 .. Len(T) - 1 : T[r + 1][1] = After(S, T[r])
    <3> SUFFICES ASSUME NEW r \in 1 .. Len(T) - 1 PROVE T[r + 1][1] = After(S, T[r])
      OBVIOUS
    <3>1. r + 1 \in 1 .. Len(R) - 1 /\ r \in 1 .. Len(T) /\ r + 1 \in 1 .. Len(T)
      BY <1>1, <2>1
    <3> QED BY <2>1, <3>1 DEF Records
  <2>4. IF T = <<>> THEN m = e ELSE T[1][1] = m /\ After(S, T[Len(T)]) = e
    <3>1. After(S, R[Len(R)]) = e
      BY DEF Records
    <3>2. CASE T = <<>>
      <4>1. Len(R) = 1
        BY <1>1, <2>1, <3>2, EmptySeq
      <4> QED BY <3>1, <3>2, <4>1 DEF m
    <3>3. CASE T # <<>>
      <4>1. Len(T) \in Nat \ {0}
        BY <2>1, <3>3, EmptySeq
      <4>2. 1 \in 1 .. Len(T) /\ Len(T) \in 1 .. Len(T) /\ 1 \in 1 .. Len(R) - 1 /\ Len(T) + 1 = Len(R)
        BY <1>1, <2>1, <4>1
      <4>3. T[1] = R[2] /\ T[Len(T)] = R[Len(R)] /\ R[2][1] = After(S, R[1])
        BY <2>1, <4>2 DEF Records
      <4> QED BY <3>1, <3>3, <4>3 DEF m
    <3> QED BY <3>2, <3>3
  <2>5. Records(S, T, m, e)
    BY <2>1, <2>2, <2>3, <2>4 DEF Records
  <2> QED BY <2>5 DEF T
<1> QED BY <1>1, <1>3, <1>4, <1>5

\* A record is added behind the others.
LEMMA RecordsAppend ==
    ASSUME NEW S, NEW R, NEW s, NEW b, NEW m, NEW e, Records(S, R, b, m), Run(S, s, m, e), s # <<>>
    PROVE  Records(S, Append(R, s), b, e)
<1>1. R \in Seq(Seq(BytesOf(S))) /\ Len(R) \in Nat /\ s \in Seq(BytesOf(S)) /\ Chained(S, s)
  BY LenProperties DEF Records, Run
<1> DEFINE T == Append(R, s)
<1>2. /\ T \in Seq(Seq(BytesOf(S))) /\ Len(T) = Len(R) + 1
      /\ \A i \in 1 .. Len(R) : T[i] = R[i]
      /\ T[Len(R) + 1] = s
  BY <1>1, AppendProperties
<1> HIDE DEF T
<1>3. s[1] = m /\ After(S, s) = e
  BY DEF Run
<1>4. \A r \in 1 .. Len(T) : T[r] # <<>> /\ Chained(S, T[r])
  <2> SUFFICES ASSUME NEW r \in 1 .. Len(T) PROVE T[r] # <<>> /\ Chained(S, T[r])
    OBVIOUS
  <2>1. CASE r = Len(R) + 1
    BY <1>1, <1>2, <2>1
  <2>2. CASE r \in 1 .. Len(R)
    BY <1>2, <2>2 DEF Records
  <2> QED BY <1>1, <1>2, <2>1, <2>2
<1>5. R # <<>> => R[1][1] = b /\ After(S, R[Len(R)]) = m /\ Len(R) >= 1
  BY <1>1, EmptySeq DEF Records
<1>6. R = <<>> => b = m /\ Len(R) = 0
  BY EmptySeq DEF Records
<1>7. \A r \in 1 .. Len(T) - 1 : T[r + 1][1] = After(S, T[r])
  <2> SUFFICES ASSUME NEW r \in 1 .. Len(T) - 1 PROVE T[r + 1][1] = After(S, T[r])
    OBVIOUS
  <2>1. CASE r = Len(R)
    <3>1. R # <<>> /\ r \in 1 .. Len(R)
      BY <1>1, <1>2, <1>6, <2>1
    <3> QED BY <3>1, <1>2, <1>3, <1>5, <2>1
  <2>2. CASE r < Len(R)
    <3>1. r \in 1 .. Len(R) - 1 /\ r \in 1 .. Len(R) /\ r + 1 \in 1 .. Len(R)
      BY <1>1, <1>2, <2>2
    <3> QED BY <3>1, <1>2 DEF Records
  <2> QED BY <1>1, <1>2, <2>1, <2>2
<1>8. T # <<>> /\ After(S, T[Len(T)]) = e
  BY <1>1, <1>2, <1>3, EmptySeq
<1>9. T[1][1] = b
  <2>1. CASE R = <<>>
    BY <2>1, <1>2, <1>3, <1>6
  <2>2. CASE R # <<>>
    <3>1. 1 \in 1 .. Len(R)
      BY <1>1, <1>5, <2>2
    <3> QED BY <3>1, <2>2, <1>2, <1>5
  <2> QED BY <2>1, <2>2
<1> QED BY <1>2, <1>4, <1>7, <1>8, <1>9 DEF Records, T

-----------------------------------------------------------------------------
(* The stream of a connection. *)

\* S is what a broker may have sent.
Sendable(S) ==
    /\ S \in Seq(Seq(Byte))
    /\ \A i \in 1 .. Len(S) : \E n \in Lengths : S[i] = Message(i, n) /\ Len(S[i]) = n

\* With k messages handed on, the buffer, SSL's bytes, the records and the wire
\* hold the rest of the stream, one behind the other.
Stream(S, k, B, P, R, W) ==
    \E m1, m2, m3 :
       /\ Run(S, B, <<k + 1, 1>>, m1) /\ Run(S, P, m1, m2)
       /\ Records(S, R, m2, m3) /\ Run(S, W, m3, <<Len(S) + 1, 1>>)

\* T goes on where S ends.
Extends(T, S) == Len(S) <= Len(T) /\ \A i \in 1 .. Len(S) : T[i] = S[i]

\* The bytes of the messages are the same and follow each other as before.
LEMMA SuccExtends ==
    ASSUME NEW S, NEW T, Sendable(S), Sendable(T), Extends(T, S), NEW x \in BytesOf(S)
    PROVE  x \in BytesOf(T) /\ Succ(T, x) = Succ(S, x)
<1>1. Len(S) \in Nat /\ Len(T) \in Nat
  BY LenProperties DEF Sendable
<1>2. x[1] \in 1 .. Len(S) /\ x[2] \in 1 .. Len(S[x[1]]) /\ x \in Byte
  BY DEF BytesOf
<1>3. x[1] \in 1 .. Len(T) /\ T[x[1]] = S[x[1]]
  BY <1>1, <1>2 DEF Extends
<1> QED BY <1>2, <1>3 DEF BytesOf, Succ

\* A run stays a run.
LEMMA RunExtends ==
    ASSUME NEW S, NEW T, Sendable(S), Sendable(T), Extends(T, S),
           NEW s, NEW b, NEW e, Run(S, s, b, e)
    PROVE  Run(T, s, b, e)
<1>1. s \in Seq(BytesOf(S)) /\ Len(s) \in Nat /\ \A i \in 1 .. Len(s) : s[i] \in BytesOf(S)
  BY LenProperties, ElementOfSeq DEF Run
<1>2. BytesOf(S) \subseteq BytesOf(T) /\ \A x \in BytesOf(S) : Succ(T, x) = Succ(S, x)
  BY SuccExtends
<1>3. s \in Seq(BytesOf(T))
  BY <1>1, <1>2, SeqMonotonic
<1>4. Chained(T, s)
  <2> SUFFICES ASSUME NEW j \in 1 .. Len(s) - 1 PROVE s[j + 1] = Succ(T, s[j])
    BY DEF Chained
  <2>1. j \in 1 .. Len(s)
    BY <1>1
  <2> QED BY <1>1, <1>2, <2>1 DEF Run, Chained
<1>5. s # <<>> => After(T, s) = After(S, s)
  <2> SUFFICES ASSUME s # <<>> PROVE Succ(T, s[Len(s)]) = Succ(S, s[Len(s)])
    BY DEF After
  <2>1. Len(s) \in 1 .. Len(s)
    BY <1>1, EmptySeq
  <2> QED BY <1>1, <1>2, <2>1
<1> QED BY <1>3, <1>4, <1>5 DEF Run

\* And so do records.
LEMMA RecordsExtend ==
    ASSUME NEW S, NEW T, Sendable(S), Sendable(T), Extends(T, S),
           NEW R, NEW b, NEW e, Records(S, R, b, e)
    PROVE  Records(T, R, b, e)
<1>1. /\ R \in Seq(Seq(BytesOf(S))) /\ Len(R) \in Nat
      /\ \A r \in 1 .. Len(R) : R[r] \in Seq(BytesOf(S)) /\ R[r] # <<>> /\ Chained(S, R[r])
  BY LenProperties, ElementOfSeq DEF Records
<1>2. ASSUME NEW r \in 1 .. Len(R)
      PROVE  R[r] \in Seq(BytesOf(T)) /\ Chained(T, R[r]) /\ After(T, R[r]) = After(S, R[r])
  <2>1. Run(S, R[r], R[r][1], After(S, R[r]))
    BY <1>1 DEF Run
  <2>2. Run(T, R[r], R[r][1], After(S, R[r]))
    BY <2>1, RunExtends
  <2> QED BY <1>1, <2>2 DEF Run
<1>3. R \in Seq(Seq(BytesOf(T)))
  <2>1. R \in [1 .. Len(R) -> Seq(BytesOf(T))]
    BY <1>1, <1>2, LenProperties
  <2> QED BY <1>1, <2>1
<1>4. \A r \in 1 .. Len(R) - 1 : R[r + 1][1] = After(T, R[r])
  <2> SUFFICES ASSUME NEW r \in 1 .. Len(R) - 1 PROVE R[r + 1][1] = After(T, R[r])
    OBVIOUS
  <2>1. r \in 1 .. Len(R)
    BY <1>1
  <2> QED BY <1>2, <2>1 DEF Records
<1>5. R # <<>> => After(T, R[Len(R)]) = After(S, R[Len(R)])
  <2> SUFFICES ASSUME R # <<>> PROVE After(T, R[Len(R)]) = After(S, R[Len(R)])
    OBVIOUS
  <2>1. Len(R) \in 1 .. Len(R)
    BY <1>1, EmptySeq
  <2> QED BY <1>2, <2>1
<1> QED BY <1>1, <1>2, <1>3, <1>4, <1>5 DEF Records

\* The messages so far and one more.
LEMMA SendableAppend ==
    ASSUME NEW S, Sendable(S), NEW n \in Lengths
    PROVE  LET T == Append(S, Message(Len(S) + 1, n))
           IN  /\ Sendable(T) /\ Extends(T, S) /\ Len(T) = Len(S) + 1
               /\ T[Len(T)] = Message(Len(S) + 1, n) /\ Len(Message(Len(S) + 1, n)) = n
<1> DEFINE M == Message(Len(S) + 1, n)
           T == Append(S, M)
<1>1. S \in Seq(Seq(Byte)) /\ Len(S) \in Nat /\ n \in Nat
  BY LenProperties, FramingAssumption DEF Sendable
<1>2. M \in [1 .. n -> Byte]
  BY <1>1 DEF Message, Byte
<1>3. M \in Seq(Byte) /\ Len(M) = n
  BY <1>1, <1>2
<1> HIDE DEF M
<1>4. /\ T \in Seq(Seq(Byte)) /\ Len(T) = Len(S) + 1
      /\ \A i \in 1 .. Len(S) : T[i] = S[i]
      /\ T[Len(S) + 1] = M
  BY <1>1, <1>3, AppendProperties
<1> HIDE DEF T
<1>5. ASSUME NEW i \in 1 .. Len(T) PROVE \E l \in Lengths : T[i] = Message(i, l) /\ Len(T[i]) = l
  <2>1. CASE i = Len(S) + 1
    BY <1>3, <1>4, <2>1 DEF M
  <2>2. CASE i \in 1 .. Len(S)
    BY <1>4, <2>2 DEF Sendable
  <2> QED BY <1>1, <1>4, <2>1, <2>2
<1>6. Sendable(T)
  BY <1>4, <1>5 DEF Sendable
<1>7. Extends(T, S)
  BY <1>1, <1>4 DEF Extends
<1> QED BY <1>1, <1>3, <1>4, <1>6, <1>7 DEF T, M

\* What a message of the stream is.
LEMMA MessageIs ==
    ASSUME NEW S, Sendable(S), NEW i \in 1 .. Len(S)
    PROVE  /\ S[i] \in Seq(Byte) /\ Len(S[i]) \in Nat /\ Len(S[i]) > HeadSize
           /\ \A p \in 1 .. Len(S[i]) : S[i][p] = <<i, p>>
<1>1. S[i] \in Seq(Byte) /\ Len(S[i]) \in Nat
  BY ElementOfSeq, LenProperties DEF Sendable
<1>2. PICK n \in Lengths : S[i] = Message(i, n) /\ Len(S[i]) = n
  BY DEF Sendable
<1>3. n > HeadSize
  BY FramingAssumption
<1>4. \A p \in 1 .. n : Message(i, n)[p] = <<i, p>>
  BY DEF Message
<1> QED BY <1>1, <1>2, <1>3, <1>4

\* A message is the part of the stream from its first byte to the next message.
LEMMA MessageRun ==
    ASSUME NEW S, Sendable(S), NEW i \in 1 .. Len(S)
    PROVE  Run(S, S[i], <<i, 1>>, <<i + 1, 1>>)
<1>1. /\ S[i] \in Seq(Byte) /\ Len(S[i]) \in Nat /\ Len(S[i]) >= 1
      /\ \A p \in 1 .. Len(S[i]) : S[i][p] = <<i, p>>
  BY MessageIs, FramingAssumption
<1>2. Len(S) \in Nat
  BY LenProperties DEF Sendable
<1>3. \A p \in 1 .. Len(S[i]) : <<i, p>> \in BytesOf(S)
  BY <1>1, <1>2 DEF BytesOf, Byte
<1>4. S[i] \in Seq(BytesOf(S))
  <2>1. S[i] \in [1 .. Len(S[i]) -> Byte]
    BY <1>1, LenProperties
  <2>2. \A p \in 1 .. Len(S[i]) : S[i][p] \in BytesOf(S)
    BY <1>1, <1>3
  <2>3. S[i] \in [1 .. Len(S[i]) -> BytesOf(S)]
    BY <2>1, <2>2
  <2> QED BY <1>1, <2>3
<1>5. Chained(S, S[i])
  <2> SUFFICES ASSUME NEW j \in 1 .. Len(S[i]) - 1 PROVE S[i][j + 1] = Succ(S, S[i][j])
    BY DEF Chained
  <2>1. S[i][j] = <<i, j>> /\ S[i][j + 1] = <<i, j + 1>> /\ j < Len(S[i])
    BY <1>1
  <2> QED BY <2>1 DEF Succ
<1>6. After(S, S[i]) = <<i + 1, 1>>
  <2>1. S[i][Len(S[i])] = <<i, Len(S[i])>>
    BY <1>1
  <2> QED BY <2>1, <1>1 DEF After, Succ
<1>7. S[i] # <<>> /\ S[i][1] = <<i, 1>>
  BY <1>1, EmptySeq
<1> QED BY <1>4, <1>5, <1>6, <1>7 DEF Run

\* A set of natural numbers has a smallest one.
LEMMA SmallestOf ==
    ASSUME NEW S, S \subseteq Nat, S # {}
    PROVE  \E i \in S : \A j \in S : i <= j
<1> DEFINE R == {ss \in Nat \X Nat : ss[1] < ss[2]}
<1>1. IsWellFoundedOn(R, Nat)
  BY NatLessThanWellFounded DEF OpToRel
<1>2. PICK i \in S : \A j \in S : ~(<<j, i>> \in R)
  BY <1>1, WFMin
<1>3. ASSUME NEW j \in S PROVE i <= j
  <2>1. <<j, i>> \in Nat \X Nat /\ <<j, i>>[1] = j /\ <<j, i>>[2] = i
    OBVIOUS
  <2>2. ~(j < i)
    BY <1>2, <2>1
  <2>3. QED BY <2>2
<1>4. QED BY <1>3

\* A run that begins with a message and is as long as it begins with all of it.
LEMMA RunBeginsWithMessage ==
    ASSUME NEW S, Sendable(S), NEW k \in Nat, NEW s, NEW e, Run(S, s, <<k + 1, 1>>, e), s # <<>>,
           Len(s) >= Len(S[k + 1])
    PROVE  /\ SubSeq(s, 1, Len(S[k + 1])) = S[k + 1]
           /\ Run(S, SubSeq(s, Len(S[k + 1]) + 1, Len(s)), <<k + 2, 1>>, e)
<1>1. /\ s \in Seq(BytesOf(S)) /\ Len(s) \in Nat \ {0} /\ s[1] = <<k + 1, 1>>
      /\ \A j \in 1 .. Len(s) - 1 : s[j + 1] = Succ(S, s[j])
  BY EmptySeq DEF Run, Chained
<1>2. k + 1 \in 1 .. Len(S)
  <2>1. s[1] \in BytesOf(S)
    BY <1>1, ElementOfSeq
  <2> QED BY <1>1, <2>1 DEF BytesOf
<1> DEFINE n == Len(S[k + 1])
<1>3. /\ S[k + 1] \in Seq(Byte) /\ n \in Nat /\ n >= 1
      /\ \A p \in 1 .. n : S[k + 1][p] = <<k + 1, p>>
  BY <1>2, MessageIs, FramingAssumption
<1> DEFINE Bad == {p \in 1 .. n : s[p] # <<k + 1, p>>}
<1>4. Bad = {}
  <2> SUFFICES ASSUME Bad # {} PROVE FALSE
    OBVIOUS
  <2>1. PICK p \in Bad : \A q \in Bad : p <= q
    <3>1. Bad \subseteq Nat
      OBVIOUS
    <3> HIDE DEF Bad
    <3> QED BY <3>1, SmallestOf
  <2>2. p # 1
    BY <1>1, <2>1
  <2>3. p - 1 \in 1 .. n /\ p - 1 \in 1 .. Len(s) - 1 /\ (p - 1) + 1 = p /\ p - 1 < n
    BY <1>1, <1>3, <2>1, <2>2
  <2>4. s[p - 1] = <<k + 1, p - 1>>
    <3>1. ~(p <= p - 1)
      BY <1>3, <2>1
    <3> QED BY <2>1, <2>3, <3>1
  <2>5. s[p] = Succ(S, <<k + 1, p - 1>>)
    BY <1>1, <2>3, <2>4
  <2>6. Succ(S, <<k + 1, p - 1>>) = <<k + 1, p>>
    BY <2>3 DEF Succ
  <2> QED BY <2>1, <2>5, <2>6
<1>5. \A p \in 1 .. n : s[p] = <<k + 1, p>>
  BY <1>4
<1> HIDE DEF n, Bad
<1>6. n \in 0 .. Len(s)
  BY <1>1, <1>3 DEF n
<1>7. PICK m : Run(S, SubSeq(s, 1, n), <<k + 1, 1>>, m) /\ Run(S, SubSeq(s, n + 1, Len(s)), m, e)
  BY <1>6, RunSplit
<1> DEFINE t == SubSeq(s, 1, n)
<1>8. t \in Seq(Byte) /\ Len(t) = n /\ \A i \in 1 .. n : t[i] = s[i]
  <2>1. \A i \in 1 .. n : s[i] \in Byte
    BY <1>1, <1>6, ElementOfSeq DEF BytesOf
  <2>2. /\ t \in Seq(Byte) /\ Len(t) = IF 1 <= n THEN n - 1 + 1 ELSE 0
        /\ \A i \in 1 .. n - 1 + 1 : t[i] = s[1 + i - 1]
    BY <1>3, <2>1, SubSeqProperties
  <2>3. \A i \in 1 .. n : i \in 1 .. n - 1 + 1 /\ 1 + i - 1 = i
    BY <1>3
  <2> QED BY <1>3, <2>2, <2>3
<1> HIDE DEF t
<1>9. t = S[k + 1]
  BY <1>3, <1>5, <1>8, SeqEqual DEF n
<1>10. Run(S, S[k + 1], <<k + 1, 1>>, <<(k + 1) + 1, 1>>)
  BY <1>2, MessageRun
<1>11. m = <<k + 2, 1>>
  <2>1. S[k + 1] # <<>>
    BY <1>3, EmptySeq DEF n
  <2>2. After(S, S[k + 1]) = m /\ After(S, S[k + 1]) = <<(k + 1) + 1, 1>>
    BY <2>1, <1>7, <1>9, <1>10 DEF Run, t
  <2> QED BY <2>2
<1> QED BY <1>7, <1>9, <1>11 DEF n, t

-----------------------------------------------------------------------------
(* The inductive invariant. *)

FramingTypeOK ==
    /\ Sendable(sent) /\ size \in Nat /\ shrinkMax \in Nat
    /\ out \in Seq(Seq(Byte)) /\ buf \in Seq(Byte)

\* What was handed on.
OutOK == Len(out) <= Len(sent) /\ \A i \in 1 .. Len(out) : out[i] = sent[i]

\* Nothing of the stream is missing, doubled or out of place.
StreamOK == Stream(sent, Len(out), buf, pending, socket, wire)

\* The buffer holds its bytes.  It is longer than shrinkMax only for the message at
\* its head, so that the call which could shrink it, at the end of that message,
\* never does.
SizeOK ==
    /\ Len(buf) <= size
    /\ size > shrinkMax => buf # <<>> /\ size = Len(sent[Len(out) + 1])

FramingInv == FramingTypeOK /\ OutOK /\ StreamOK /\ SizeOK

\* The head of the buffer gives the length of the next message.
LEMMA HeadOfBuffer ==
    ASSUME FramingInv, buf # <<>>
    PROVE  /\ GetMsgSize(buf) = Len(sent[Len(out) + 1]) /\ Len(out) + 1 \in 1 .. Len(sent)
           /\ GetMsgSize(buf) \in Nat /\ GetMsgSize(buf) > HeadSize
<1>1. PICK m : Run(sent, buf, <<Len(out) + 1, 1>>, m)
  BY DEF FramingInv, StreamOK, Stream
<1>2. buf[1] = <<Len(out) + 1, 1>> /\ buf[1] \in BytesOf(sent)
  <2>1. buf \in Seq(BytesOf(sent)) /\ buf[1] = <<Len(out) + 1, 1>>
    BY <1>1 DEF Run
  <2>2. 1 \in 1 .. Len(buf)
    BY <2>1, EmptySeq
  <2> QED BY <2>1, <2>2, ElementOfSeq
<1>3. Len(out) + 1 \in 1 .. Len(sent)
  BY <1>2 DEF BytesOf
<1>4. GetMsgSize(buf) = Len(sent[Len(out) + 1])
  BY <1>2 DEF GetMsgSize
<1>5. Sendable(sent)
  BY DEF FramingInv, FramingTypeOK
<1> QED BY <1>3, <1>4, <1>5, MessageIs

\* Nothing was sent.
LEMMA InitFramingInv == Init => FramingInv
<1> SUFFICES ASSUME Init PROVE FramingInv
  OBVIOUS
<1>1. Len(<<>>) = 0 /\ \A S : <<>> \in Seq(S)
  BY EmptySeq
<1>2. Sendable(<<>>)
  BY <1>1 DEF Sendable
<1>3. FramingTypeOK
  BY <1>1, <1>2, FramingAssumption DEF Init, FramingTypeOK
<1>4. OutOK
  BY <1>1 DEF Init, OutOK
<1>5. Run(<<>>, <<>>, <<1, 1>>, <<1, 1>>) /\ Records(<<>>, <<>>, <<1, 1>>, <<1, 1>>)
  BY <1>1 DEF Run, Records, Chained
<1>6. StreamOK
  BY <1>1, <1>5 DEF Init, StreamOK, Stream
<1>7. SizeOK
  BY <1>1, FramingAssumption DEF Init, SizeOK
<1> QED BY <1>3, <1>4, <1>6, <1>7 DEF FramingInv

\* The broker writes another message.
LEMMA BrokerSendsInv ==
    ASSUME FramingInv, NEW n \in Lengths, BrokerSends(n)
    PROVE  FramingInv'
<1> DEFINE T == Append(sent, Message(Len(sent) + 1, n))
<1>1. Sendable(sent) /\ Len(sent) \in Nat /\ Len(out) \in Nat
  BY LenProperties DEF FramingInv, FramingTypeOK, Sendable
<1>2. /\ Sendable(T) /\ Extends(T, sent) /\ Len(T) = Len(sent) + 1
      /\ T[Len(T)] = Message(Len(sent) + 1, n)
  BY <1>1, SendableAppend
<1>3. sent' = T /\ wire' = wire \o T[Len(T)] /\ UNCHANGED <<socket, pending, buf, size, shrinkMax, out>>
  BY DEF BrokerSends, Last, sizes
<1> HIDE DEF T
<1>4. FramingTypeOK'
  BY <1>2, <1>3 DEF FramingInv, FramingTypeOK
<1>5. OutOK'
  BY <1>1, <1>2, <1>3 DEF FramingInv, OutOK, Extends
<1>6. StreamOK'
  <2>1. PICK m1, m2, m3 :
           /\ Run(sent, buf, <<Len(out) + 1, 1>>, m1) /\ Run(sent, pending, m1, m2)
           /\ Records(sent, socket, m2, m3) /\ Run(sent, wire, m3, <<Len(sent) + 1, 1>>)
    BY DEF FramingInv, StreamOK, Stream
  <2>2. /\ Run(T, buf, <<Len(out) + 1, 1>>, m1) /\ Run(T, pending, m1, m2)
        /\ Run(T, wire, m3, <<Len(sent) + 1, 1>>)
    BY <2>1, <1>1, <1>2, RunExtends
  <2>3. Records(T, socket, m2, m3)
    BY <2>1, <1>1, <1>2, RecordsExtend
  <2>4. Run(T, T[Len(T)], <<Len(T), 1>>, <<Len(T) + 1, 1>>)
    <3>1. Len(T) \in 1 .. Len(T)
      BY <1>1, <1>2
    <3> QED BY <3>1, <1>2, MessageRun
  <2>5. Run(T, wire \o T[Len(T)], m3, <<Len(T) + 1, 1>>)
    BY <2>2, <2>4, <1>2, RunConcat
  <2> QED BY <1>3, <2>2, <2>3, <2>5 DEF StreamOK, Stream
<1>7. SizeOK'
  <2>1. buf # <<>> => Len(out) + 1 \in 1 .. Len(sent)
    BY HeadOfBuffer
  <2>2. buf # <<>> => T[Len(out) + 1] = sent[Len(out) + 1]
    BY <2>1, <1>2 DEF Extends
  <2> QED BY <1>3, <2>2 DEF FramingInv, SizeOK
<1> QED BY <1>4, <1>5, <1>6, <1>7 DEF FramingInv

\* A record arrives.
LEMMA RecordArrivesInv ==
    ASSUME FramingInv, NEW n \in 1 .. DefaultSize, RecordArrives(n)
    PROVE  FramingInv'
<1>1. /\ n <= Len(wire)
      /\ socket' = Append(socket, SubSeq(wire, 1, n)) /\ wire' = SubSeq(wire, n + 1, Len(wire))
      /\ UNCHANGED <<sent, pending, buf, size, shrinkMax, out>>
  <2>1. PICK m3 : Run(sent, wire, m3, <<Len(sent) + 1, 1>>)
    BY DEF FramingInv, StreamOK, Stream
  <2>2. Len(wire) \in Nat
    BY <2>1, LenProperties DEF Run
  <2> QED BY <2>2, FramingAssumption DEF RecordArrives, MinOf, sizes
<1>2. FramingTypeOK' /\ OutOK' /\ SizeOK'
  BY <1>1 DEF FramingInv, FramingTypeOK, OutOK, SizeOK
<1>3. StreamOK'
  <2>1. PICK m1, m2, m3 :
           /\ Run(sent, buf, <<Len(out) + 1, 1>>, m1) /\ Run(sent, pending, m1, m2)
           /\ Records(sent, socket, m2, m3) /\ Run(sent, wire, m3, <<Len(sent) + 1, 1>>)
    BY DEF FramingInv, StreamOK, Stream
  <2>2. n \in 0 .. Len(wire) /\ n >= 1
    BY <2>1, <1>1, LenProperties DEF Run
  <2>3. PICK m : /\ Run(sent, SubSeq(wire, 1, n), m3, m)
                 /\ Run(sent, SubSeq(wire, n + 1, Len(wire)), m, <<Len(sent) + 1, 1>>)
    BY <2>1, <2>2, RunSplit
  <2>4. SubSeq(wire, 1, n) # <<>>
    <3>1. \A i \in 1 .. n : wire[i] \in BytesOf(sent)
      BY <2>1, <2>2, ElementOfSeq DEF Run
    <3>2. Len(SubSeq(wire, 1, n)) = n
      BY <2>2, <3>1, SubSeqProperties
    <3> QED BY <2>2, <3>2, EmptySeq
  <2>5. Records(sent, Append(socket, SubSeq(wire, 1, n)), m2, m)
    BY <2>1, <2>3, <2>4, RecordsAppend
  <2> QED BY <1>1, <2>1, <2>3, <2>5 DEF StreamOK, Stream
<1> QED BY <1>2, <1>3 DEF FramingInv

\* The event thread reads what SSL has, as much as the buffer takes.
LEMMA RecvMsgInv == ASSUME FramingInv, RecvMsg PROVE FramingInv'
<1> DEFINE n == MinOf(Len(Available), size - Len(buf))
<1>0. PICK m1, m2, m3 :
         /\ Run(sent, buf, <<Len(out) + 1, 1>>, m1) /\ Run(sent, pending, m1, m2)
         /\ Records(sent, socket, m2, m3) /\ Run(sent, wire, m3, <<Len(sent) + 1, 1>>)
  BY DEF FramingInv, StreamOK, Stream
<1>1. /\ buf' = buf \o SubSeq(Available, 1, n)
      /\ pending' = SubSeq(Available, n + 1, Len(Available))
      /\ socket # <<>> /\ socket' = IF pending # <<>> THEN socket ELSE Tail(socket)
      /\ UNCHANGED <<sent, wire, size, shrinkMax, out>>
  BY DEF RecvMsg, sizes
<1>2. PICK m : Run(sent, Available, m1, m) /\ Records(sent, socket', m, m3)
  <2>1. CASE pending # <<>>
    BY <1>0, <1>1, <2>1 DEF Available
  <2>2. CASE pending = <<>>
    <3>1. m1 = m2
      BY <1>0, <2>2 DEF Run
    <3>2. \E m : Run(sent, Head(socket), m2, m) /\ Records(sent, Tail(socket), m, m3)
      BY <1>0, <1>1, RecordsTail
    <3> QED BY <1>1, <2>2, <3>1, <3>2 DEF Available
  <2> QED BY <2>1, <2>2
<1>3. /\ Available \in Seq(BytesOf(sent)) /\ Len(Available) \in Nat
      /\ buf \in Seq(BytesOf(sent)) /\ Len(buf) \in Nat /\ size \in Nat /\ Len(buf) <= size
  BY <1>0, <1>2, LenProperties DEF Run, FramingInv, FramingTypeOK, SizeOK
<1>4. n \in 0 .. Len(Available) /\ n <= size - Len(buf)
  BY <1>3 DEF MinOf
<1> HIDE DEF n
<1>5. PICK c : /\ Run(sent, SubSeq(Available, 1, n), m1, c)
               /\ Run(sent, SubSeq(Available, n + 1, Len(Available)), c, m)
  BY <1>2, <1>4, RunSplit
<1>6. Run(sent, buf', <<Len(out) + 1, 1>>, c)
  BY <1>0, <1>1, <1>5, RunConcat
<1>7. StreamOK'
  BY <1>0, <1>1, <1>2, <1>5, <1>6 DEF StreamOK, Stream
<1>8. buf' \in Seq(Byte) /\ Len(buf') = Len(buf) + n
  <2>1. buf' \in Seq(BytesOf(sent)) /\ SubSeq(Available, 1, n) \in Seq(BytesOf(sent))
    BY <1>5, <1>6 DEF Run
  <2>2. buf' \in Seq(Byte)
    <3>1. BytesOf(sent) \subseteq Byte
      BY DEF BytesOf
    <3> QED BY <2>1, <3>1, SeqMonotonic
  <2>3. Len(SubSeq(Available, 1, n)) = n
    <3>1. \A i \in 1 .. n : Available[i] \in BytesOf(sent)
      BY <1>3, <1>4, ElementOfSeq
    <3> QED BY <1>4, <3>1, SubSeqProperties
  <2> QED BY <1>1, <1>3, <2>1, <2>2, <2>3, ConcatProperties
<1>9. FramingTypeOK' /\ OutOK'
  BY <1>1, <1>8 DEF FramingInv, FramingTypeOK, OutOK
<1>10. SizeOK'
  <2>1. Len(buf') <= size
    BY <1>3, <1>4, <1>8
  <2>2. buf # <<>> => buf' # <<>>
    BY <1>3, <1>4, <1>8, EmptySeq
  <2> QED BY <1>1, <2>1, <2>2 DEF FramingInv, SizeOK
<1> QED BY <1>7, <1>9, <1>10 DEF FramingInv

\* The buffer grows to the length of the message at its head.
LEMMA ProcessGrowsInv == ASSUME FramingInv, ProcessGrows PROVE FramingInv'
<1>1. /\ Len(buf) > HeadSize /\ GetMsgSize(buf) > size /\ size' = GetMsgSize(buf)
      /\ UNCHANGED <<sent, wire, socket, pending, buf, shrinkMax, out>>
  BY DEF ProcessGrows, Busy, ResizeBuf
<1>2. buf \in Seq(Byte) /\ Len(buf) \in Nat /\ size \in Nat /\ Len(buf) <= size
  BY LenProperties DEF FramingInv, FramingTypeOK, SizeOK
<1>3. buf # <<>>
  BY <1>1, <1>2, EmptySeq, FramingAssumption
<1>4. GetMsgSize(buf) = Len(sent[Len(out) + 1]) /\ GetMsgSize(buf) \in Nat
  BY <1>3, HeadOfBuffer
<1>5. FramingTypeOK' /\ OutOK' /\ StreamOK'
  BY <1>1, <1>4 DEF FramingInv, FramingTypeOK, OutOK, StreamOK
<1>6. SizeOK'
  BY <1>1, <1>2, <1>3, <1>4 DEF SizeOK
<1> QED BY <1>5, <1>6 DEF FramingInv

\* tryShrink leaves the buffer as it is.
LEMMA TryShrinkKeeps ==
    ASSUME FramingInv, buf # <<>>, GetMsgSize(buf) <= size, TryShrink(GetMsgSize(buf))
    PROVE  size' = size /\ shrinkMax' \in Nat /\ size <= shrinkMax'
<1>1. GetMsgSize(buf) = Len(sent[Len(out) + 1]) /\ GetMsgSize(buf) \in Nat
  BY HeadOfBuffer
<1>2. size \in Nat /\ shrinkMax \in Nat /\ (size > shrinkMax => size = GetMsgSize(buf))
  BY <1>1 DEF FramingInv, FramingTypeOK, SizeOK
<1>3. shrinkMax' = IF GetMsgSize(buf) > shrinkMax THEN GetMsgSize(buf) ELSE shrinkMax
  BY DEF TryShrink
<1>4. shrinkMax' \in Nat /\ size <= shrinkMax'
  BY <1>1, <1>2, <1>3
<1>5. size' = size
  BY <1>2, <1>4 DEF TryShrink
<1> QED BY <1>4, <1>5

\* A message is handed on.
LEMMA ProcessTakesInv == ASSUME FramingInv, ProcessTakes PROVE FramingInv'
<1> DEFINE n == GetMsgSize(buf)
           k == Len(out)
<1>1. /\ Len(buf) > HeadSize /\ n <= size /\ Len(buf) >= n /\ TryShrink(n)
      /\ out' = Append(out, SubSeq(buf, 1, n)) /\ buf' = SubSeq(buf, n + 1, Len(buf))
      /\ UNCHANGED <<sent, wire, socket, pending>>
  BY DEF ProcessTakes, Busy, Complete
<1>2. /\ buf \in Seq(Byte) /\ Len(buf) \in Nat /\ size \in Nat /\ Len(buf) <= size
      /\ out \in Seq(Seq(Byte)) /\ k \in Nat /\ Sendable(sent) /\ Len(sent) \in Nat
  BY LenProperties DEF FramingInv, FramingTypeOK, SizeOK, Sendable
<1>3. buf # <<>>
  BY <1>1, <1>2, EmptySeq, FramingAssumption
<1>4. n = Len(sent[k + 1]) /\ n \in Nat /\ n > HeadSize /\ k + 1 \in 1 .. Len(sent)
  BY <1>3, HeadOfBuffer
<1>5. size' = size /\ shrinkMax' \in Nat /\ size <= shrinkMax'
  BY <1>1, <1>3, TryShrinkKeeps
<1> HIDE DEF n, k
<1>6. PICK m1, m2, m3 :
         /\ Run(sent, buf, <<k + 1, 1>>, m1) /\ Run(sent, pending, m1, m2)
         /\ Records(sent, socket, m2, m3) /\ Run(sent, wire, m3, <<Len(sent) + 1, 1>>)
  BY DEF FramingInv, StreamOK, Stream, k
<1>7. SubSeq(buf, 1, n) = sent[k + 1] /\ Run(sent, SubSeq(buf, n + 1, Len(buf)), <<k + 2, 1>>, m1)
  BY <1>1, <1>2, <1>3, <1>4, <1>6, RunBeginsWithMessage
<1>8. sent[k + 1] \in Seq(Byte)
  BY <1>2, <1>4, MessageIs
<1>9. /\ out' \in Seq(Seq(Byte)) /\ Len(out') = k + 1
      /\ \A i \in 1 .. k : out'[i] = out[i]
      /\ out'[k + 1] = sent[k + 1]
  <2>1. out' = Append(out, sent[k + 1])
    BY <1>1, <1>7
  <2>2. /\ Append(out, sent[k + 1]) \in Seq(Seq(Byte))
        /\ Len(Append(out, sent[k + 1])) = Len(out) + 1
        /\ \A i \in 1 .. Len(out) : Append(out, sent[k + 1])[i] = out[i]
        /\ Append(out, sent[k + 1])[Len(out) + 1] = sent[k + 1]
    BY <1>2, <1>8, AppendProperties
  <2> QED BY <2>1, <2>2 DEF k
<1>10. buf' \in Seq(Byte) /\ Len(buf') = Len(buf) - n
  <2>0. n \in Nat /\ n <= Len(buf)
    BY <1>1, <1>2, <1>4
  <2>1. n + 1 \in Int /\ Len(buf) \in Int /\ \A i \in n + 1 .. Len(buf) : buf[i] \in Byte
    BY <1>2, <1>4, ElementOfSeq
  <2>2. /\ buf' \in Seq(Byte)
        /\ Len(buf') = IF n + 1 <= Len(buf) THEN Len(buf) - (n + 1) + 1 ELSE 0
    BY <1>1, <2>1, SubSeqProperties
  <2> QED BY <2>0, <1>2, <2>2
<1>11. FramingTypeOK'
  BY <1>1, <1>2, <1>5, <1>9, <1>10 DEF FramingTypeOK
<1>12. OutOK'
  <2>1. k + 1 <= Len(sent)
    BY <1>2, <1>4
  <2>2. ASSUME NEW i \in 1 .. k + 1 PROVE out'[i] = sent[i]
    <3>1. CASE i = k + 1
      BY <3>1, <1>9
    <3>2. CASE i \in 1 .. k
      BY <3>2, <1>9 DEF FramingInv, OutOK, k
    <3> QED BY <1>2, <3>1, <3>2
  <2> QED BY <1>1, <1>9, <2>1, <2>2 DEF OutOK
<1>13. StreamOK'
  <2>1. (k + 1) + 1 = k + 2
    BY <1>2
  <2> QED BY <1>1, <1>6, <1>7, <1>9, <2>1 DEF StreamOK, Stream
<1>14. SizeOK'
  <2>1. ~(size > shrinkMax')
    BY <1>2, <1>5
  <2>2. Len(buf') <= size
    BY <1>2, <1>4, <1>10
  <2> QED BY <1>5, <2>1, <2>2 DEF SizeOK
<1> QED BY <1>11, <1>12, <1>13, <1>14 DEF FramingInv

\* The message at the head is not complete.
LEMMA ProcessWaitsInv == ASSUME FramingInv, ProcessWaits PROVE FramingInv'
<1>1. /\ Len(buf) > HeadSize /\ GetMsgSize(buf) <= size /\ TryShrink(GetMsgSize(buf))
      /\ UNCHANGED <<sent, wire, socket, pending, buf, out>>
  BY DEF ProcessWaits, Busy
<1>2. /\ buf \in Seq(Byte) /\ Len(buf) \in Nat /\ size \in Nat /\ Len(buf) <= size
  BY LenProperties DEF FramingInv, FramingTypeOK, SizeOK
<1>3. buf # <<>>
  BY <1>1, <1>2, EmptySeq, FramingAssumption
<1>4. size' = size /\ shrinkMax' \in Nat /\ size <= shrinkMax'
  BY <1>1, <1>3, TryShrinkKeeps
<1>5. FramingTypeOK' /\ OutOK' /\ StreamOK'
  BY <1>1, <1>4 DEF FramingInv, FramingTypeOK, OutOK, StreamOK
<1>6. SizeOK'
  BY <1>1, <1>2, <1>4 DEF SizeOK
<1> QED BY <1>5, <1>6 DEF FramingInv

\* Every step of the broker, the network and the event thread.
LEMMA NextFramingInv == FramingInv /\ [Next]_vars => FramingInv'
<1> SUFFICES ASSUME FramingInv, [Next]_vars PROVE FramingInv'
  OBVIOUS
<1>1. CASE ProcessEnds
  BY <1>1 DEF ProcessEnds, FramingInv, FramingTypeOK, OutOK, StreamOK, SizeOK, sizes
<1>2. CASE UNCHANGED vars
  BY <1>2 DEF vars, FramingInv, FramingTypeOK, OutOK, StreamOK, SizeOK, sizes
<1>3. CASE EventThread
  BY <1>1, <1>3, RecvMsgInv, ProcessGrowsInv, ProcessTakesInv, ProcessWaitsInv DEF EventThread
<1>4. CASE Arrivals
  BY <1>4, RecordArrivesInv DEF Arrivals
<1>5. CASE \E n \in Lengths : BrokerSends(n)
  BY <1>5, BrokerSendsInv
<1>6. CASE EventsStop \/ EventsResume
  <2>1. UNCHANGED <<sent, wire, socket, pending, buf, size, shrinkMax, shrinkCnt, out, pc, connected>>
    BY <1>6 DEF EventsStop, EventsResume, sizes
  <2> QED BY <2>1 DEF FramingInv, FramingTypeOK, OutOK, StreamOK, SizeOK
<1> QED BY <1>2, <1>3, <1>4, <1>5, <1>6 DEF Next

\* The client hands on the messages that the broker sent, whole and in order,
\* whatever their lengths and however TLS cuts the stream into records: the buffer
\* that grows with a message and the one that is left behind it never lose a byte.
THEOREM FramingMessagesIntact == Spec => []MessagesIntact
<1>1. FramingInv => MessagesIntact
  <2> SUFFICES ASSUME FramingInv PROVE IsPrefix(out, sent)
    BY DEF MessagesIntact
  <2>1. /\ out \in Seq(Seq(Byte)) /\ sent \in Seq(Seq(Byte)) /\ Len(out) \in Nat /\ Len(sent) \in Nat
        /\ Len(out) <= Len(sent) /\ \A i \in 1 .. Len(out) : out[i] = sent[i]
    BY LenProperties DEF FramingInv, FramingTypeOK, Sendable, OutOK
  <2> DEFINE t == SubSeq(sent, 1, Len(out))
  <2>2. t \in Seq(Seq(Byte)) /\ Len(t) = Len(out) /\ \A i \in 1 .. Len(out) : t[i] = sent[i]
    <3>1. \A i \in 1 .. Len(out) : sent[i] \in Seq(Byte)
      BY <2>1, ElementOfSeq
    <3>2. /\ t \in Seq(Seq(Byte)) /\ Len(t) = IF 1 <= Len(out) THEN Len(out) - 1 + 1 ELSE 0
          /\ \A i \in 1 .. Len(out) - 1 + 1 : t[i] = sent[1 + i - 1]
      BY <2>1, <3>1, SubSeqProperties
    <3>3. \A i \in 1 .. Len(out) : i \in 1 .. Len(out) - 1 + 1 /\ 1 + i - 1 = i
      BY <2>1
    <3> QED BY <2>1, <3>2, <3>3
  <2> HIDE DEF t
  <2>3. t = out
    BY <2>1, <2>2, SeqEqual
  <2>4. SubSeq(out, 1, Len(out)) = out
    BY <2>1, SubSeqFull
  <2> QED BY <2>1, <2>3, <2>4 DEF IsPrefix, t
<1> QED BY InitFramingInv, NextFramingInv, <1>1, PTL DEF Spec
-----------------------------------------------------------------------------
(* The body of an answer. *)

\* The lengths of the messages of a list add up.
LEMMA SumsExist ==
    ASSUME NEW g, NEW n \in Nat, \A i \in 1 .. n : g[i] \in Nat
    PROVE  \E f \in [0 .. n -> Nat] : f[0] = 0 /\ \A i \in 1 .. n : f[i] = f[i - 1] + g[i]
<1> DEFINE Sum(k) == \E f \in [0 .. k -> Nat] : f[0] = 0 /\ \A i \in 1 .. k : f[i] = f[i - 1] + g[i]
           Bad == {k \in 0 .. n : ~Sum(k)}
<1>1. Sum(0)
  <2>1. [i \in 0 .. 0 |-> 0] \in [0 .. 0 -> Nat] /\ [i \in 0 .. 0 |-> 0][0] = 0 /\ 1 .. 0 = {}
    OBVIOUS
  <2> QED BY <2>1
<1>2. Bad = {}
  <2> SUFFICES ASSUME Bad # {} PROVE FALSE
    OBVIOUS
  <2>1. Bad \subseteq Nat
    OBVIOUS
  <2> HIDE DEF Bad
  <2>2. PICK k \in Bad : \A j \in Bad : k <= j
    BY <2>1, SmallestOf
  <2>3. k \in 0 .. n /\ ~Sum(k)
    BY <2>2 DEF Bad
  <2>4. k - 1 \in 0 .. n /\ k - 1 \notin Bad
    <3>1. k # 0
      BY <1>1, <2>3
    <3> QED BY <2>1, <2>2, <2>3, <3>1
  <2>5. Sum(k - 1)
    BY <2>4 DEF Bad
  <2>6. PICK f \in [0 .. k - 1 -> Nat] : f[0] = 0 /\ \A i \in 1 .. k - 1 : f[i] = f[i - 1] + g[i]
    BY <2>5
  <2> DEFINE h == [i \in 0 .. k |-> IF i = k THEN f[k - 1] + g[k] ELSE f[i]]
  <2>7. k - 1 \in 0 .. k - 1 /\ k \in 1 .. n /\ k \in Nat
    BY <2>3, <2>4
  <2>8. h \in [0 .. k -> Nat]
    <3>1. f[k - 1] + g[k] \in Nat
      BY <2>6, <2>7
    <3>2. \A i \in 0 .. k : i # k => f[i] \in Nat
      BY <2>6, <2>7
    <3> QED BY <3>1, <3>2
  <2>9. h[0] = 0 /\ h[k] = f[k - 1] + g[k] /\ \A i \in 0 .. k - 1 : h[i] = f[i]
    BY <2>6, <2>7
  <2> HIDE DEF h
  <2>10. \A i \in 1 .. k : h[i] = h[i - 1] + g[i]
    <3> SUFFICES ASSUME NEW i \in 1 .. k PROVE h[i] = h[i - 1] + g[i]
      OBVIOUS
    <3>1. CASE i = k
      BY <2>7, <2>9, <3>1
    <3>2. CASE i \in 1 .. k - 1
      <4>1. i \in 0 .. k - 1 /\ i - 1 \in 0 .. k - 1
        BY <2>7, <3>2
      <4> QED BY <2>6, <2>9, <3>2, <4>1
    <3> QED BY <2>7, <3>1, <3>2
  <2>11. Sum(k)
    BY <2>8, <2>9, <2>10
  <2> QED BY <2>3, <2>11
<1>3. n \in 0 .. n
  OBVIOUS
<1>4. Sum(n)
  BY <1>2, <1>3
<1> QED BY <1>4

\* LengthOf is the running total of the lengths.
LEMMA LengthOfIs ==
    ASSUME topicLen \in Nat, NEW b \in Seq(Messages)
    PROVE  /\ LengthOf(b) \in [0 .. Len(b) -> Nat] /\ LengthOf(b)[0] = 0
           /\ \A i \in 1 .. Len(b) : /\ SizeOf(b[i]) \in Nat \ {0}
                                     /\ LengthOf(b)[i] = LengthOf(b)[i - 1] + SizeOf(b[i])
<1>1. Len(b) \in Nat /\ \A i \in 1 .. Len(b) : b[i] \in Messages
  BY LenProperties, ElementOfSeq
<1>2. \A i \in 1 .. Len(b) : SizeOf(b[i]) \in Nat \ {0}
  BY <1>1, PullAssumption DEF SizeOf
<1> DEFINE g == [i \in 1 .. Len(b) |-> SizeOf(b[i])]
<1>3. PICK f \in [0 .. Len(b) -> Nat] : f[0] = 0 /\ \A i \in 1 .. Len(b) : f[i] = f[i - 1] + g[i]
  <2>1. \A i \in 1 .. Len(b) : g[i] \in Nat
    BY <1>2
  <2> HIDE DEF g
  <2> QED BY <1>1, <2>1, SumsExist
<1>4. f = [i \in 0 .. Len(b) |-> IF i = 0 THEN 0 ELSE f[i - 1] + SizeOf(b[i])]
  <2>1. ASSUME NEW i \in 0 .. Len(b) PROVE f[i] = IF i = 0 THEN 0 ELSE f[i - 1] + SizeOf(b[i])
    <3>1. CASE i = 0
      BY <1>3, <3>1
    <3>2. CASE i # 0
      <4>1. i \in 1 .. Len(b)
        BY <1>1, <3>2
      <4> QED BY <1>3, <3>2, <4>1
    <3> QED BY <3>1, <3>2
  <2> HIDE DEF g
  <2> QED BY <1>3, <2>1
<1> DEFINE L == LengthOf(b)
<1>5. L = [i \in 0 .. Len(b) |-> IF i = 0 THEN 0 ELSE L[i - 1] + SizeOf(b[i])]
  BY <1>4 DEF LengthOf
<1> HIDE DEF L
<1>6. L[0] = 0 /\ \A i \in 1 .. Len(b) : L[i] = L[i - 1] + SizeOf(b[i])
  BY <1>1, <1>5
<1>7. \A i \in 0 .. Len(b) : L[i] = f[i]
  <2> DEFINE Bad == {i \in 0 .. Len(b) : L[i] # f[i]}
  <2> SUFFICES ASSUME Bad # {} PROVE FALSE
    OBVIOUS
  <2>1. Bad \subseteq Nat
    OBVIOUS
  <2>2. PICK i \in Bad : \A j \in Bad : i <= j
    <3> HIDE DEF Bad
    <3> QED BY <2>1, SmallestOf
  <2>3. i # 0
    BY <1>3, <1>6, <2>2
  <2>4. i \in 1 .. Len(b) /\ i - 1 \in 0 .. Len(b) /\ ~(i <= i - 1)
    BY <1>1, <2>2, <2>3
  <2>5. L[i - 1] = f[i - 1]
    BY <2>2, <2>4
  <2> QED BY <1>3, <1>6, <2>2, <2>4, <2>5
<1>8. L \in [0 .. Len(b) -> Nat]
  BY <1>3, <1>5, <1>7
<1> QED BY <1>2, <1>6, <1>8 DEF L

\* No two messages begin at the same place, and all before the end.
LEMMA LengthOfMonotonic ==
    ASSUME topicLen \in Nat, NEW b \in Seq(Messages), NEW i \in 0 .. Len(b), NEW j \in 0 .. Len(b), i < j
    PROVE  LengthOf(b)[i] < LengthOf(b)[j]
<1> DEFINE L == LengthOf(b)
<1>1. /\ L \in [0 .. Len(b) -> Nat] /\ Len(b) \in Nat
      /\ \A k \in 1 .. Len(b) : SizeOf(b[k]) \in Nat \ {0} /\ L[k] = L[k - 1] + SizeOf(b[k])
  BY LengthOfIs, LenProperties
<1> DEFINE Bad == {k \in i + 1 .. Len(b) : ~(L[i] < L[k])}
<1> HIDE DEF L
<1>2. Bad = {}
  <2> SUFFICES ASSUME Bad # {} PROVE FALSE
    OBVIOUS
  <2>1. Bad \subseteq Nat
    OBVIOUS
  <2>2. PICK k \in Bad : \A m \in Bad : k <= m
    <3> HIDE DEF Bad
    <3> QED BY <2>1, SmallestOf
  <2>3. k \in 1 .. Len(b) /\ k - 1 \in 0 .. Len(b) /\ ~(k <= k - 1) /\ k - 1 >= i
    BY <1>1, <2>2
  <2>4. /\ L[i] \in Nat /\ L[k - 1] \in Nat /\ L[k] \in Nat
        /\ SizeOf(b[k]) \in Nat \ {0} /\ L[k] = L[k - 1] + SizeOf(b[k])
    <3>1. k \in 0 .. Len(b)
      BY <2>3
    <3>2. L[i] \in Nat /\ L[k - 1] \in Nat /\ L[k] \in Nat
      BY <1>1, <2>3, <3>1
    <3> QED BY <1>1, <2>3, <3>2
  <2>5. L[i] <= L[k - 1]
    <3>1. CASE k - 1 = i
      BY <2>4, <3>1
    <3>2. CASE k - 1 # i
      <4>1. k - 1 \in i + 1 .. Len(b)
        BY <1>1, <2>3, <3>2
      <4>2. L[i] < L[k - 1]
        BY <2>2, <2>3, <4>1
      <4> QED BY <4>2, <2>4
    <3> QED BY <3>1, <3>2
  <2>6. L[i] < L[k]
    BY <2>4, <2>5
  <2> QED BY <2>2, <2>6
<1>3. j \in i + 1 .. Len(b)
  BY <1>1
<1> QED BY <1>2, <1>3 DEF L

-----------------------------------------------------------------------------
(* Selections. *)

\* The first n of s are what b has at the places of S, in its order.
PicksFirst(s, n, b, S) ==
    \E f \in [1 .. n -> DOMAIN b] :
       /\ \A i, j \in 1 .. n : i < j => f[i] < f[j]
       /\ S = {f[i] : i \in 1 .. n}
       /\ \A i \in 1 .. n : s[i] = b[f[i]]

\* Another place, behind all of S, and what is there.
LEMMA PicksMore ==
    ASSUME NEW s, NEW n \in Nat, NEW b, NEW S, PicksFirst(s, n, b, S),
           NEW t, \A i \in 1 .. n : t[i] = s[i],
           NEW d \in DOMAIN b, d \in Int, \A i \in S : i \in Int /\ i < d, t[n + 1] = b[d]
    PROVE  PicksFirst(t, n + 1, b, S \cup {d})
<1>1. PICK f \in [1 .. n -> DOMAIN b] :
         /\ \A i, j \in 1 .. n : i < j => f[i] < f[j]
         /\ S = {f[i] : i \in 1 .. n}
         /\ \A i \in 1 .. n : s[i] = b[f[i]]
  BY DEF PicksFirst
<1> DEFINE h == [i \in 1 .. n + 1 |-> IF i = n + 1 THEN d ELSE f[i]]
<1>2. h \in [1 .. n + 1 -> DOMAIN b]
  BY <1>1
<1>3. h[n + 1] = d /\ \A i \in 1 .. n : h[i] = f[i] /\ f[i] \in S
  BY <1>1
<1> HIDE DEF h
<1>4. \A i \in 1 .. n + 1 : i = n + 1 \/ i \in 1 .. n
  OBVIOUS
<1>5. ASSUME NEW i \in 1 .. n + 1, NEW j \in 1 .. n + 1, i < j PROVE h[i] < h[j]
  <2>1. i \in 1 .. n
    BY <1>5
  <2>2. CASE j = n + 1
    BY <1>3, <2>1, <2>2
  <2>3. CASE j \in 1 .. n
    BY <1>1, <1>3, <1>5, <2>1, <2>3
  <2> QED BY <1>4, <2>2, <2>3
<1>6. S \cup {d} = {h[i] : i \in 1 .. n + 1}
  <2>1. ASSUME NEW x \in S PROVE \E i \in 1 .. n + 1 : x = h[i]
    <3>1. PICK i \in 1 .. n : x = f[i]
      BY <1>1
    <3>2. i \in 1 .. n + 1
      OBVIOUS
    <3> QED BY <1>3, <3>1, <3>2
  <2>2. ASSUME NEW i \in 1 .. n + 1 PROVE h[i] \in S \cup {d}
    BY <1>3, <1>4
  <2>3. n + 1 \in 1 .. n + 1
    OBVIOUS
  <2> QED BY <2>1, <2>2, <2>3, <1>3
<1>7. ASSUME NEW i \in 1 .. n + 1 PROVE t[i] = b[h[i]]
  <2>1. CASE i = n + 1
    BY <1>3, <2>1
  <2>2. CASE i \in 1 .. n
    BY <1>1, <1>3, <2>2
  <2> QED BY <1>4, <2>1, <2>2
<1> QED BY <1>2, <1>5, <1>6, <1>7 DEF PicksFirst

\* The same places of the same list.
LEMMA PicksSame ==
    ASSUME NEW s, NEW n \in Nat, NEW b, NEW S, PicksFirst(s, n, b, S),
           NEW t, \A i \in 1 .. n : t[i] = s[i]
    PROVE  PicksFirst(t, n, b, S)
BY DEF PicksFirst

\* Nothing is picked.
LEMMA PicksNone == ASSUME NEW s, NEW b PROVE PicksFirst(s, 0, b, {})
<1>1. 1 .. 0 = {}
  OBVIOUS
<1>2. [i \in 1 .. 0 |-> 0] \in [1 .. 0 -> DOMAIN b]
  BY <1>1
<1> QED BY <1>1, <1>2 DEF PicksFirst

\* Everything is picked.
LEMMA PicksAll == ASSUME NEW M, NEW b \in Seq(M) PROVE PicksFirst(b, Len(b), b, DOMAIN b)
<1>1. DOMAIN b = 1 .. Len(b) /\ Len(b) \in Nat
  BY LenProperties
<1> DEFINE f == [i \in 1 .. Len(b) |-> i]
<1>2. f \in [1 .. Len(b) -> DOMAIN b] /\ \A i \in 1 .. Len(b) : f[i] = i
  BY <1>1
<1> HIDE DEF f
<1>3. DOMAIN b = {f[i] : i \in 1 .. Len(b)}
  BY <1>1, <1>2
<1>4. \A i, j \in 1 .. Len(b) : i < j => f[i] < f[j]
  BY <1>2
<1>5. \A i \in 1 .. Len(b) : b[i] = b[f[i]]
  BY <1>2
<1> QED BY <1>2, <1>3, <1>4, <1>5 DEF PicksFirst

\* What is left when list's element at a place is erased.
LEMMA RemoveAtIs ==
    ASSUME NEW M, NEW s \in Seq(M), NEW i \in 1 .. Len(s)
    PROVE  /\ RemoveAt(s, i) \in Seq(M) /\ Len(RemoveAt(s, i)) = Len(s) - 1
           /\ \A j \in 1 .. i - 1 : RemoveAt(s, i)[j] = s[j]
           /\ \A j \in i .. Len(s) - 1 : RemoveAt(s, i)[j] = s[j + 1]
<1>1. Len(s) \in Nat /\ \A j \in 1 .. Len(s) : s[j] \in M
  BY LenProperties, ElementOfSeq
<1> DEFINE t == SubSeq(s, 1, i - 1)
           u == SubSeq(s, i + 1, Len(s))
<1>2. t \in Seq(M) /\ Len(t) = i - 1 /\ \A j \in 1 .. i - 1 : t[j] = s[j]
  <2>1. \A j \in 1 .. i - 1 : s[j] \in M
    BY <1>1
  <2>2. /\ t \in Seq(M) /\ Len(t) = IF 1 <= i - 1 THEN (i - 1) - 1 + 1 ELSE 0
        /\ \A j \in 1 .. (i - 1) - 1 + 1 : t[j] = s[1 + j - 1]
    BY <1>1, <2>1, SubSeqProperties
  <2>3. \A j \in 1 .. i - 1 : j \in 1 .. (i - 1) - 1 + 1 /\ 1 + j - 1 = j
    BY <1>1
  <2> QED BY <1>1, <2>2, <2>3
<1>3. u \in Seq(M) /\ Len(u) = Len(s) - i /\ \A j \in 1 .. Len(s) - i : u[j] = s[i + j]
  <2>1. i + 1 \in Int /\ Len(s) \in Int /\ \A j \in i + 1 .. Len(s) : s[j] \in M
    BY <1>1
  <2>2. /\ u \in Seq(M) /\ Len(u) = IF i + 1 <= Len(s) THEN Len(s) - (i + 1) + 1 ELSE 0
        /\ \A j \in 1 .. Len(s) - (i + 1) + 1 : u[j] = s[(i + 1) + j - 1]
    BY <2>1, SubSeqProperties
  <2>3. \A j \in 1 .. Len(s) - i : j \in 1 .. Len(s) - (i + 1) + 1 /\ (i + 1) + j - 1 = i + j
    BY <1>1
  <2> QED BY <1>1, <2>2, <2>3
<1>4. RemoveAt(s, i) = t \o u
  BY DEF RemoveAt
<1> HIDE DEF t, u
<1> DEFINE v == t \o u
<1>5. /\ v \in Seq(M) /\ Len(v) = Len(t) + Len(u)
      /\ \A j \in 1 .. Len(t) + Len(u) : v[j] = IF j <= Len(t) THEN t[j] ELSE u[j - Len(t)]
  BY <1>2, <1>3, ConcatProperties
<1> HIDE DEF v
<1>6. ASSUME NEW j \in 1 .. i - 1 PROVE v[j] = s[j]
  <2>1. j \in 1 .. Len(t) + Len(u) /\ j <= Len(t)
    BY <1>1, <1>2, <1>3
  <2> QED BY <2>1, <1>2, <1>5
<1>7. ASSUME NEW j \in i .. Len(s) - 1 PROVE v[j] = s[j + 1]
  <2>1. /\ j \in 1 .. Len(t) + Len(u) /\ ~(j <= Len(t))
        /\ j - Len(t) \in 1 .. Len(s) - i /\ i + (j - Len(t)) = j + 1
    BY <1>1, <1>2, <1>3
  <2> QED BY <2>1, <1>3, <1>5
<1>8. Len(v) = Len(s) - 1
  BY <1>1, <1>2, <1>3, <1>5
<1> QED BY <1>4, <1>5, <1>6, <1>7, <1>8 DEF v

-----------------------------------------------------------------------------
(* The pull: what its locals hold at each step. *)

\* The places among the first d of b whose messages the tags T name, and the others.
Chosen(b, T, d) == {i \in 1 .. d : T = {} \/ b[i].tag \in T}
Dropped(b, T, d) == {i \in 1 .. d : ~(T = {} \/ b[i].tag \in T)}

\* The filter has seen d messages of b: f has those it took, the first n of l are
\* those it passed, and the rest of l is what it has not seen.
FilteredTo(b, T, l, n, f, d) ==
    /\ PicksFirst(f, Len(f), b, Chosen(b, T, d))
    /\ PicksFirst(l, n, b, Dropped(b, T, d))
    /\ Len(l) = n + (Len(b) - d)
    /\ \A j \in 1 .. Len(b) - d : l[n + j] = b[d + j]
    /\ T = {} => d = 0 /\ n = 0

PullTypeOK ==
    /\ topicLen \in Nat
    /\ batch \in Seq(Messages) /\ list \in Seq(Messages) /\ found \in Seq(Messages)
    /\ it \in Nat \ {0} /\ offset \in Nat

Fresh == list = <<>> /\ found = <<>> /\ it = 1 /\ offset = 0

BeforeOK == step \in {"idle", "silent", "find", "sent"} => Fresh

\* What is decoded is the beginning of the answer, and the position is its end.
DecodeOK ==
    step = "decode" =>
       /\ found = <<>> /\ it = 1 /\ Len(list) <= Len(batch)
       /\ \A i \in 1 .. Len(list) : list[i] = batch[i]
       /\ offset = LengthOf(batch)[Len(list)]

FilterOK == step = "filter" => \E d \in 0 .. Len(batch) : FilteredTo(batch, tags, list, it - 1, found, d)

PullInv == PullTypeOK /\ BeforeOK /\ DecodeOK /\ FilterOK /\ FilterExact

\* The start.
LEMMA PullInitInv == PullInit => PullInv
<1> SUFFICES ASSUME PullInit PROVE PullInv
  OBVIOUS
<1>1. <<>> \in Seq(Messages) /\ topicLen \in Nat
  BY PullAssumption, EmptySeq DEF PullInit
<1>2. PullTypeOK
  BY <1>1 DEF PullInit, PullTypeOK
<1>3. BeforeOK /\ DecodeOK /\ FilterOK /\ FilterExact
  BY DEF PullInit, BeforeOK, Fresh, DecodeOK, FilterOK, FilterExact
<1> QED BY <1>2, <1>3 DEF PullInv

\* The end of a pull, however it ends.
LEMMA EndInv ==
    ASSUME PullInv, topicLen' = topicLen, NEW w \in {"idle", "silent", "crashed", "hung"}, NEW how, End(w, how)
    PROVE  PullInv'
<1>1. <<>> \in Seq(Messages) /\ topicLen \in Nat
  BY EmptySeq DEF PullInv, PullTypeOK
<1>2. PullTypeOK'
  BY <1>1 DEF End, PullTypeOK
<1>3. BeforeOK' /\ DecodeOK' /\ FilterOK' /\ FilterExact'
  BY DEF End, BeforeOK, Fresh, DecodeOK, FilterOK, FilterExact
<1> QED BY <1>2, <1>3 DEF PullInv

\* A step before the answer.
LEMMA BeforeInv ==
    ASSUME PullInv, topicLen' = topicLen, UNCHANGED answer,
           step \in {"idle", "silent", "find", "sent"}, step' \in {"idle", "silent", "find", "sent"}
    PROVE  PullInv'
<1>1. PullTypeOK' /\ BeforeOK'
  BY DEF PullInv, PullTypeOK, BeforeOK, Fresh, answer
<1>2. DecodeOK' /\ FilterOK' /\ FilterExact'
  BY DEF DecodeOK, FilterOK, FilterExact
<1> QED BY <1>1, <1>2 DEF PullInv

\* A step that leaves the pull alone.
LEMMA OutsideInv ==
    ASSUME PullInv, UNCHANGED <<topicLen, step, tags, answer>>
    PROVE  PullInv'
<1>1. topicLen' = topicLen /\ step' = step /\ tags' = tags /\ batch' = batch
  BY DEF answer
<1>2. LengthOf(batch)' = LengthOf(batch)
  BY <1>1 DEF LengthOf, SizeOf
<1>3. PullTypeOK' /\ BeforeOK' /\ FilterOK'
  BY DEF PullInv, PullTypeOK, BeforeOK, Fresh, FilterOK, answer
<1>4. DecodeOK'
  BY <1>2 DEF PullInv, DecodeOK, answer
<1>5. FilterExact'
  BY DEF PullInv, FilterExact, Wanted, answer
<1> QED BY <1>3, <1>4, <1>5 DEF PullInv

\* The messages of an answer are taken.
LEMMA FoundInv ==
    ASSUME PullInv, NEW b \in Batches, NEW id, Found(b, id)
    PROVE  PullInv'
<1>1. PICK n \in 1 .. MaxBatch : b \in [1 .. n -> Messages]
  BY DEF Batches
<1>2. b \in Seq(Messages)
  <2>1. n \in Nat
    BY PullAssumption
  <2> QED BY <1>1, <2>1, SeqDef
<1>3. /\ topicLen' = topicLen /\ batch' = b /\ step = "sent" /\ step' = "decode"
      /\ list' = list /\ offset' = offset /\ it' = it /\ found' = found
  BY DEF Found, Answers, outside
<1>4. list = <<>> /\ found = <<>> /\ it = 1 /\ offset = 0 /\ topicLen \in Nat
  BY <1>3 DEF PullInv, PullTypeOK, BeforeOK, Fresh
<1>5. PullTypeOK'
  BY <1>2, <1>3 DEF PullInv, PullTypeOK
<1>6. LengthOf(batch)'[0] = 0
  <2>1. LengthOf(batch)' = LengthOf(b)
    BY <1>3 DEF LengthOf, SizeOf
  <2>2. LengthOf(b)[0] = 0
    BY <1>2, <1>4, LengthOfIs
  <2> QED BY <2>1, <2>2
<1>7. Len(<<>>) = 0 /\ Len(b) \in Nat
  BY <1>2, LenProperties
<1>8. DecodeOK'
  <2>1. /\ found' = <<>> /\ it' = 1 /\ Len(list') = 0 /\ Len(list') <= Len(batch') /\ 1 .. Len(list') = {}
    BY <1>3, <1>4, <1>7
  <2>2. offset' = LengthOf(batch)'[Len(list')]
    BY <1>3, <1>4, <1>6, <2>1
  <2> QED BY <2>1, <2>2 DEF DecodeOK
<1>9. BeforeOK' /\ FilterOK' /\ FilterExact'
  BY <1>3 DEF BeforeOK, FilterOK, FilterExact
<1> QED BY <1>5, <1>8, <1>9 DEF PullInv

\* The message at the position is the one behind those that are decoded.
LEMMA NextMessage ==
    ASSUME PullTypeOK, DecodeOK, step = "decode"
    PROVE  /\ \A i \in DOMAIN batch : BeginsAt(batch, i, offset) <=> i = Len(list) + 1
           /\ offset < LengthOf(batch)[Len(batch)] <=> Len(list) < Len(batch)
<1> DEFINE L == LengthOf(batch)
           n == Len(list)
<1>1. /\ topicLen \in Nat /\ batch \in Seq(Messages) /\ Len(batch) \in Nat /\ DOMAIN batch = 1 .. Len(batch)
      /\ n \in 0 .. Len(batch) /\ offset = L[n]
  BY LenProperties DEF PullTypeOK, DecodeOK
<1>2. L \in [0 .. Len(batch) -> Nat]
  BY <1>1, LengthOfIs
<1>3. n < Len(batch) \/ n = Len(batch)
  BY <1>1
<1>4. \A i, j \in 0 .. Len(batch) : i < j => L[i] < L[j]
  BY <1>1, LengthOfMonotonic
<1> HIDE DEF L, n
<1>5. ASSUME NEW i \in DOMAIN batch PROVE L[i - 1] = offset <=> i = n + 1
  <2>1. i - 1 \in 0 .. Len(batch) /\ i \in Int
    BY <1>1
  <2>2. L[i - 1] \in Nat /\ L[n] \in Nat
    BY <1>1, <1>2, <2>1
  <2>3. CASE i - 1 < n
    BY <1>1, <1>4, <2>1, <2>2, <2>3
  <2>4. CASE n < i - 1
    BY <1>1, <1>4, <2>1, <2>2, <2>4
  <2>5. CASE n = i - 1
    BY <1>1, <2>1, <2>5
  <2> QED BY <1>1, <2>1, <2>3, <2>4, <2>5
<1>6. offset < L[Len(batch)] <=> n < Len(batch)
  <2>1. Len(batch) \in 0 .. Len(batch) /\ L[Len(batch)] \in Nat /\ L[n] \in Nat
    BY <1>1, <1>2
  <2>2. CASE n < Len(batch)
    BY <1>1, <1>4, <2>1, <2>2
  <2>3. CASE n = Len(batch)
    BY <1>1, <2>1, <2>3
  <2> QED BY <1>3, <2>2, <2>3
<1> QED BY <1>5, <1>6 DEF BeginsAt, L, n

\* A message is decoded.
LEMMA DecodeInv == ASSUME PullInv, Decode PROVE PullInv'
<1> DEFINE n == Len(list)
<1>1. PullTypeOK /\ DecodeOK /\ step = "decode"
  BY DEF PullInv, Decode
<1>2. PICK i \in DOMAIN batch :
         BeginsAt(batch, i, offset) /\ list' = Append(list, batch[i]) /\ offset' = offset + DecodedSize(batch[i])
  BY DEF Decode
<1>3. i = n + 1
  BY <1>1, <1>2, NextMessage
<1>4. /\ topicLen' = topicLen /\ batch' = batch /\ step' = step /\ found' = found /\ it' = it
  BY DEF Decode, outside
<1>5. /\ topicLen \in Nat /\ batch \in Seq(Messages) /\ list \in Seq(Messages) /\ DOMAIN batch = 1 .. Len(batch)
      /\ n \in Nat /\ Len(batch) \in Nat /\ batch[i] \in Messages
  BY <1>1, LenProperties, ElementOfSeq DEF PullTypeOK
<1>6. /\ list' \in Seq(Messages) /\ Len(list') = n + 1 /\ list'[n + 1] = batch[i]
      /\ \A j \in 1 .. n : list'[j] = list[j]
  BY <1>2, <1>5, AppendProperties
<1>7. /\ LengthOf(batch)[i] = LengthOf(batch)[i - 1] + SizeOf(batch[i]) /\ SizeOf(batch[i]) \in Nat
      /\ LengthOf(batch)[i - 1] \in Nat
  <2>1. i - 1 \in 0 .. Len(batch)
    BY <1>5
  <2> QED BY <1>5, <2>1, LengthOfIs
<1>8. offset' = LengthOf(batch)[n + 1] /\ offset' \in Nat
  <2>1. offset = LengthOf(batch)[i - 1] /\ offset \in Nat
    BY <1>1, <1>2 DEF BeginsAt, PullTypeOK
  <2>2. DecodedSize(batch[i]) = SizeOf(batch[i])
    BY DEF DecodedSize, SizeOf
  <2> HIDE DEF n
  <2>3. offset' = LengthOf(batch)[i]
    BY <1>2, <1>7, <2>1, <2>2
  <2> QED BY <1>3, <1>7, <2>3
<1>9. LengthOf(batch)' = LengthOf(batch)
  BY <1>4 DEF LengthOf, SizeOf
<1>10. PullTypeOK'
  BY <1>1, <1>4, <1>6, <1>8 DEF PullTypeOK
<1>11. DecodeOK'
  <2>1. found' = <<>> /\ it' = 1 /\ \A j \in 1 .. n : list[j] = batch[j]
    BY <1>1, <1>4 DEF DecodeOK
  <2>2. Len(list') <= Len(batch')
    BY <1>3, <1>4, <1>5, <1>6
  <2>3. \A j \in 1 .. n + 1 : list'[j] = batch[j]
    <3>1. \A j \in 1 .. n + 1 : j = n + 1 \/ j \in 1 .. n
      BY <1>5
    <3> HIDE DEF n
    <3> QED BY <1>3, <1>6, <2>1, <3>1
  <2> HIDE DEF n
  <2> QED BY <1>4, <1>6, <1>8, <1>9, <2>1, <2>2, <2>3 DEF DecodeOK
<1>12. BeforeOK' /\ FilterOK' /\ FilterExact'
  BY <1>1, <1>4 DEF BeforeOK, FilterOK, FilterExact
<1> QED BY <1>10, <1>11, <1>12 DEF PullInv

\* Everything is decoded.
LEMMA DecodeEndsInv == ASSUME PullInv, DecodeEnds PROVE PullInv'
<1>1. PullTypeOK /\ DecodeOK /\ step = "decode" /\ step' = "filter"
  BY DEF PullInv, DecodeEnds
<1>2. UNCHANGED <<topicLen, tags, batch, list, found, it, offset>>
  BY DEF DecodeEnds, outside, request, answer
<1>3. Len(batch) \in Nat /\ Len(list) \in Nat /\ DOMAIN batch = 1 .. Len(batch)
  BY <1>1, LenProperties DEF PullTypeOK
<1>4. /\ Len(list) <= Len(batch) /\ found = <<>> /\ it = 1
      /\ \A i \in 1 .. Len(list) : list[i] = batch[i]
  BY <1>1 DEF DecodeOK
<1>5. Len(list) = Len(batch)
  <2> SUFFICES ASSUME Len(list) < Len(batch) PROVE FALSE
    BY <1>3, <1>4
  <2>1. Len(list) + 1 \in DOMAIN batch
    BY <1>3
  <2>2. offset < LengthOf(batch)[Len(batch)] /\ BeginsAt(batch, Len(list) + 1, offset)
    BY <1>1, <2>1, NextMessage
  <2>3. offset \in Nat /\ LengthOf(batch)[Len(batch)] \in Nat
    <3>1. topicLen \in Nat /\ batch \in Seq(Messages) /\ offset \in Nat /\ Len(batch) \in 0 .. Len(batch)
      BY <1>1, <1>3 DEF PullTypeOK
    <3> QED BY <3>1, LengthOfIs
  <2> QED BY <2>1, <2>2, <2>3 DEF DecodeEnds
<1>6. FilteredTo(batch, tags, list, 0, found, 0)
  <2>1. Chosen(batch, tags, 0) = {} /\ Dropped(batch, tags, 0) = {} /\ Len(found) = 0
    BY <1>4 DEF Chosen, Dropped
  <2>2. PicksFirst(found, 0, batch, {}) /\ PicksFirst(list, 0, batch, {})
    BY PicksNone
  <2>3. Len(list) = 0 + (Len(batch) - 0)
    BY <1>3, <1>5
  <2>4. \A j \in 1 .. Len(batch) - 0 : list[0 + j] = batch[0 + j]
    BY <1>3, <1>4, <1>5
  <2> QED BY <2>1, <2>2, <2>3, <2>4 DEF FilteredTo
<1>7. FilterOK'
  <2>1. 0 \in 0 .. Len(batch) /\ it - 1 = 0
    BY <1>3, <1>4
  <2> QED BY <1>2, <1>6, <2>1 DEF FilterOK
<1>8. PullTypeOK' /\ BeforeOK' /\ DecodeOK' /\ FilterExact'
  BY <1>1, <1>2 DEF PullTypeOK, BeforeOK, DecodeOK, FilterExact
<1> QED BY <1>7, <1>8 DEF PullInv

\* The filter ends: its two lists are the answer.
LEMMA FilteredExact ==
    ASSUME NEW b \in Seq(Messages), NEW T, NEW l \in Seq(Messages), NEW f \in Seq(Messages),
           PicksFirst(f, Len(f), b, Chosen(b, T, Len(b))),
           PicksFirst(l, Len(l), b, Dropped(b, T, Len(b)))
    PROVE  /\ Picks(f, b, {i \in DOMAIN b : T = {} \/ b[i].tag \in T})
           /\ Picks(l, b, {i \in DOMAIN b : ~(T = {} \/ b[i].tag \in T)})
<1>1. DOMAIN b = 1 .. Len(b)
  BY LenProperties
<1>2. /\ Chosen(b, T, Len(b)) = {i \in DOMAIN b : T = {} \/ b[i].tag \in T}
      /\ Dropped(b, T, Len(b)) = {i \in DOMAIN b : ~(T = {} \/ b[i].tag \in T)}
  BY <1>1 DEF Chosen, Dropped
<1> QED BY <1>2 DEF PicksFirst, Picks

\* The state of a pull that returns.
LEMMA ReturnInv ==
    ASSUME PullTypeOK', step' = "return",
           PicksFirst(found', Len(found'), batch', Chosen(batch', tags', Len(batch'))),
           PicksFirst(list', Len(list'), batch', Dropped(batch', tags', Len(batch')))
    PROVE  PullInv'
<1>1. batch' \in Seq(Messages) /\ list' \in Seq(Messages) /\ found' \in Seq(Messages)
  BY DEF PullTypeOK
<1>2. /\ Picks(found', batch', {i \in DOMAIN batch' : tags' = {} \/ batch'[i].tag \in tags'})
      /\ Picks(list', batch', {i \in DOMAIN batch' : ~(tags' = {} \/ batch'[i].tag \in tags')})
  BY <1>1, FilteredExact
<1>3. FilterExact'
  BY <1>2 DEF FilterExact, Wanted
<1>4. BeforeOK' /\ DecodeOK' /\ FilterOK'
  BY DEF BeforeOK, DecodeOK, FilterOK
<1> QED BY <1>3, <1>4 DEF PullInv

\* Without a filter everything is taken.
LEMMA FilterAllInv == ASSUME PullInv, FilterAll PROVE PullInv'
<1>1. /\ step = "filter" /\ tags = {} /\ step' = "return" /\ found' = list /\ list' = <<>> /\ it' = 1
      /\ UNCHANGED <<topicLen, tags, batch, offset>>
  BY DEF FilterAll, outside, request
<1>2. PICK d \in 0 .. Len(batch) : FilteredTo(batch, tags, list, it - 1, found, d)
  BY <1>1 DEF PullInv, FilterOK
<1>3. /\ batch \in Seq(Messages) /\ list \in Seq(Messages) /\ Len(batch) \in Nat
      /\ DOMAIN batch = 1 .. Len(batch) /\ <<>> \in Seq(Messages)
  BY LenProperties, EmptySeq DEF PullInv, PullTypeOK
<1>4. d = 0 /\ it - 1 = 0
  BY <1>1, <1>2 DEF FilteredTo
<1>5. Len(list) = Len(batch) /\ \A j \in 1 .. Len(batch) : list[j] = batch[j]
  <2>1. /\ Len(list) = 0 + (Len(batch) - 0)
        /\ \A j \in 1 .. Len(batch) - 0 : list[0 + j] = batch[0 + j]
    BY <1>2, <1>4 DEF FilteredTo
  <2> QED BY <1>3, <2>1
<1>6. PicksFirst(list, Len(list), batch, DOMAIN batch)
  <2>1. PicksFirst(batch, Len(batch), batch, DOMAIN batch)
    BY <1>3, PicksAll
  <2> QED BY <1>3, <1>5, <2>1, PicksSame
<1>7. Chosen(batch, tags, Len(batch)) = DOMAIN batch /\ Dropped(batch, tags, Len(batch)) = {}
  BY <1>1, <1>3 DEF Chosen, Dropped
<1>8. PicksFirst(<<>>, 0, batch, {}) /\ Len(<<>>) = 0
  BY PicksNone
<1>9. PullTypeOK'
  BY <1>1, <1>3 DEF PullInv, PullTypeOK
<1>10. /\ PicksFirst(found', Len(found'), batch', Chosen(batch', tags', Len(batch')))
       /\ PicksFirst(list', Len(list'), batch', Dropped(batch', tags', Len(batch')))
  BY <1>1, <1>6, <1>7, <1>8
<1> QED BY <1>1, <1>9, <1>10, ReturnInv

\* The list is at its end.
LEMMA FilterEndsInv == ASSUME PullInv, FilterEnds PROVE PullInv'
<1>1. /\ step = "filter" /\ it > Len(list) /\ step' = "return"
      /\ UNCHANGED <<topicLen, tags, batch, offset, list, it, found>>
  BY DEF FilterEnds, outside, request, answer
<1>2. PICK d \in 0 .. Len(batch) : FilteredTo(batch, tags, list, it - 1, found, d)
  BY <1>1 DEF PullInv, FilterOK
<1>3. it \in Nat \ {0} /\ Len(list) \in Nat /\ Len(batch) \in Nat
  BY LenProperties DEF PullInv, PullTypeOK
<1>4. d = Len(batch) /\ it - 1 = Len(list)
  <2>1. Len(list) = (it - 1) + (Len(batch) - d)
    BY <1>2 DEF FilteredTo
  <2> QED BY <1>1, <1>2, <1>3, <2>1
<1>5. /\ PicksFirst(found, Len(found), batch, Chosen(batch, tags, Len(batch)))
      /\ PicksFirst(list, Len(list), batch, Dropped(batch, tags, Len(batch)))
  BY <1>2, <1>4 DEF FilteredTo
<1>6. PullTypeOK'
  BY <1>1 DEF PullInv, PullTypeOK
<1> QED BY <1>1, <1>5, <1>6, ReturnInv

\* What the filter sees next, and that its place is behind the others.
LEMMA FilterNext ==
    ASSUME PullInv, Filtering, NEW d \in 0 .. Len(batch),
           FilteredTo(batch, tags, list, it - 1, found, d)
    PROVE  /\ d + 1 \in DOMAIN batch /\ d + 1 \in 0 .. Len(batch) /\ it \in 1 .. Len(list) /\ it \in Nat
           /\ list[it] = batch[d + 1] /\ list[it] \in Messages
           /\ \A i \in Chosen(batch, tags, d) \cup Dropped(batch, tags, d) : i \in Int /\ i < d + 1
<1>1. /\ it \in Nat \ {0} /\ Len(list) \in Nat /\ Len(batch) \in Nat /\ DOMAIN batch = 1 .. Len(batch)
      /\ list \in Seq(Messages) /\ it <= Len(list)
  BY LenProperties DEF PullInv, PullTypeOK, Filtering
<1>2. /\ Len(list) = (it - 1) + (Len(batch) - d)
      /\ \A j \in 1 .. Len(batch) - d : list[(it - 1) + j] = batch[d + j]
  BY DEF FilteredTo
<1>3. d + 1 \in DOMAIN batch /\ d + 1 \in 0 .. Len(batch) /\ it \in 1 .. Len(list) /\ 1 \in 1 .. Len(batch) - d
  BY <1>1, <1>2
<1>4. list[it] = batch[d + 1]
  <2>1. list[(it - 1) + 1] = batch[d + 1] /\ (it - 1) + 1 = it
    BY <1>1, <1>2, <1>3
  <2> QED BY <2>1
<1>5. list[it] \in Messages
  BY <1>1, <1>3, ElementOfSeq
<1>6. \A i \in Chosen(batch, tags, d) \cup Dropped(batch, tags, d) : i \in Int /\ i < d + 1
  BY <1>1 DEF Chosen, Dropped
<1> QED BY <1>1, <1>3, <1>4, <1>5, <1>6

\* A message with one of the tags is taken.
LEMMA FilterTakesInv == ASSUME PullInv, FilterTakes PROVE PullInv'
<1>1. /\ step = "filter" /\ step' = "filter" /\ tags # {} /\ Filtering /\ list[it].tag \in tags
      /\ found' = Append(found, list[it]) /\ list' = RemoveAt(list, it) /\ it' = it
      /\ UNCHANGED <<topicLen, tags, batch, offset>>
  BY DEF FilterTakes, Filtering, outside, request
<1>2. PICK d \in 0 .. Len(batch) : FilteredTo(batch, tags, list, it - 1, found, d)
  BY <1>1 DEF PullInv, FilterOK
<1>3. /\ d + 1 \in DOMAIN batch /\ d + 1 \in 0 .. Len(batch) /\ it \in 1 .. Len(list) /\ it \in Nat
      /\ list[it] = batch[d + 1] /\ list[it] \in Messages
      /\ \A i \in Chosen(batch, tags, d) \cup Dropped(batch, tags, d) : i \in Int /\ i < d + 1
  BY <1>1, <1>2, FilterNext
<1>4. /\ list \in Seq(Messages) /\ found \in Seq(Messages) /\ it \in Nat \ {0}
      /\ Len(list) \in Nat /\ Len(found) \in Nat /\ Len(batch) \in Nat /\ d \in Nat
  BY LenProperties DEF PullInv, PullTypeOK
<1>5. /\ list' \in Seq(Messages) /\ Len(list') = Len(list) - 1
      /\ \A j \in 1 .. it - 1 : list'[j] = list[j]
      /\ \A j \in it .. Len(list) - 1 : list'[j] = list[j + 1]
  BY <1>1, <1>3, <1>4, RemoveAtIs
<1>6. /\ found' \in Seq(Messages) /\ Len(found') = Len(found) + 1 /\ found'[Len(found) + 1] = batch[d + 1]
      /\ \A j \in 1 .. Len(found) : found'[j] = found[j]
  BY <1>1, <1>3, <1>4, AppendProperties
<1>7. /\ Chosen(batch, tags, d + 1) = Chosen(batch, tags, d) \cup {d + 1}
      /\ Dropped(batch, tags, d + 1) = Dropped(batch, tags, d)
  <2>1. \A i : i \in 1 .. d + 1 <=> i \in 1 .. d \/ i = d + 1
    BY <1>4
  <2>2. batch[d + 1].tag \in tags
    BY <1>1, <1>3
  <2> QED BY <2>1, <2>2 DEF Chosen, Dropped
<1>8. PicksFirst(found', Len(found'), batch, Chosen(batch, tags, d + 1))
  <2>1. PicksFirst(found, Len(found), batch, Chosen(batch, tags, d))
    BY <1>2 DEF FilteredTo
  <2>2. d + 1 \in Int
    BY <1>4
  <2>3. PicksFirst(found', Len(found) + 1, batch, Chosen(batch, tags, d) \cup {d + 1})
    BY <1>3, <1>4, <1>6, <2>1, <2>2, PicksMore
  <2> QED BY <1>6, <1>7, <2>3
<1>9. PicksFirst(list', it - 1, batch, Dropped(batch, tags, d + 1))
  <2>1. PicksFirst(list, it - 1, batch, Dropped(batch, tags, d)) /\ it - 1 \in Nat
    BY <1>2, <1>4 DEF FilteredTo
  <2>2. PicksFirst(list', it - 1, batch, Dropped(batch, tags, d))
    BY <1>5, <2>1, PicksSame
  <2> QED BY <1>7, <2>2
<1>10. /\ Len(list) = (it - 1) + (Len(batch) - d)
       /\ \A j \in 1 .. Len(batch) - d : list[(it - 1) + j] = batch[d + j]
  BY <1>2 DEF FilteredTo
<1>11. Len(list') = (it - 1) + (Len(batch) - (d + 1))
  BY <1>4, <1>5, <1>10
<1>12. ASSUME NEW j \in 1 .. Len(batch) - (d + 1)
       PROVE  list'[(it - 1) + j] = batch[(d + 1) + j]
  <2>1. (it - 1) + j \in it .. Len(list) - 1
    BY <1>4, <1>10
  <2>2. list'[(it - 1) + j] = list[((it - 1) + j) + 1]
    BY <1>5, <2>1
  <2>3. j + 1 \in 1 .. Len(batch) - d /\ (it - 1) + (j + 1) = ((it - 1) + j) + 1 /\ d + (j + 1) = (d + 1) + j
    BY <1>4
  <2>4. list[(it - 1) + (j + 1)] = batch[d + (j + 1)]
    BY <1>10, <2>3
  <2> QED BY <2>2, <2>3, <2>4
<1>13. FilteredTo(batch, tags, list', it - 1, found', d + 1)
  BY <1>1, <1>8, <1>9, <1>11, <1>12 DEF FilteredTo
<1>14. FilterOK'
  BY <1>1, <1>3, <1>13 DEF FilterOK
<1>15. PullTypeOK' /\ BeforeOK' /\ DecodeOK' /\ FilterExact'
  BY <1>1, <1>5, <1>6 DEF PullInv, PullTypeOK, BeforeOK, DecodeOK, FilterExact
<1> QED BY <1>14, <1>15 DEF PullInv

\* A message with another tag is passed.
LEMMA FilterPassesInv == ASSUME PullInv, FilterPasses PROVE PullInv'
<1>1. /\ step = "filter" /\ step' = "filter" /\ tags # {} /\ Filtering /\ list[it].tag \notin tags
      /\ it' = it + 1 /\ UNCHANGED <<topicLen, tags, batch, offset, list, found>>
  BY DEF FilterPasses, Filtering, outside, request
<1>2. PICK d \in 0 .. Len(batch) : FilteredTo(batch, tags, list, it - 1, found, d)
  BY <1>1 DEF PullInv, FilterOK
<1>3. /\ d + 1 \in DOMAIN batch /\ d + 1 \in 0 .. Len(batch) /\ it \in 1 .. Len(list) /\ it \in Nat
      /\ list[it] = batch[d + 1] /\ list[it] \in Messages
      /\ \A i \in Chosen(batch, tags, d) \cup Dropped(batch, tags, d) : i \in Int /\ i < d + 1
  BY <1>1, <1>2, FilterNext
<1>4. it \in Nat \ {0} /\ Len(list) \in Nat /\ Len(batch) \in Nat /\ d \in Nat
  BY LenProperties DEF PullInv, PullTypeOK
<1>5. /\ PicksFirst(found, Len(found), batch, Chosen(batch, tags, d))
      /\ PicksFirst(list, it - 1, batch, Dropped(batch, tags, d))
      /\ Len(list) = (it - 1) + (Len(batch) - d)
      /\ \A j \in 1 .. Len(batch) - d : list[(it - 1) + j] = batch[d + j]
  BY <1>2 DEF FilteredTo
<1>6. /\ Chosen(batch, tags, d + 1) = Chosen(batch, tags, d)
      /\ Dropped(batch, tags, d + 1) = Dropped(batch, tags, d) \cup {d + 1}
  <2>1. \A i : i \in 1 .. d + 1 <=> i \in 1 .. d \/ i = d + 1
    BY <1>4
  <2>2. batch[d + 1].tag \notin tags
    BY <1>1, <1>3
  <2> QED BY <1>1, <2>1, <2>2 DEF Chosen, Dropped
<1>7. it' - 1 = it /\ it - 1 \in Nat /\ (it - 1) + 1 = it /\ d + 1 \in Int
  BY <1>1, <1>4
<1>8. PicksFirst(list, it, batch, Dropped(batch, tags, d + 1))
  <2>1. PicksFirst(list, (it - 1) + 1, batch, Dropped(batch, tags, d) \cup {d + 1})
    <3>1. list[(it - 1) + 1] = batch[d + 1]
      BY <1>3, <1>7
    <3> QED BY <1>3, <1>5, <1>7, <3>1, PicksMore
  <2> QED BY <1>6, <1>7, <2>1
<1>9. Len(list) = it + (Len(batch) - (d + 1))
  BY <1>4, <1>5
<1>10. ASSUME NEW j \in 1 .. Len(batch) - (d + 1) PROVE list[it + j] = batch[(d + 1) + j]
  <2>1. j + 1 \in 1 .. Len(batch) - d /\ (it - 1) + (j + 1) = it + j /\ d + (j + 1) = (d + 1) + j
    BY <1>4
  <2>2. list[(it - 1) + (j + 1)] = batch[d + (j + 1)]
    BY <1>5, <2>1
  <2> QED BY <2>1, <2>2
<1>11. FilteredTo(batch, tags, list, it, found, d + 1)
  BY <1>1, <1>5, <1>6, <1>8, <1>9, <1>10 DEF FilteredTo
<1>12. FilterOK'
  BY <1>1, <1>3, <1>7, <1>11 DEF FilterOK
<1>13. PullTypeOK'
  BY <1>1, <1>4 DEF PullInv, PullTypeOK
<1>14. BeforeOK' /\ DecodeOK' /\ FilterExact'
  BY <1>1 DEF BeforeOK, DecodeOK, FilterExact
<1> QED BY <1>12, <1>13, <1>14 DEF PullInv

\* Every step keeps the invariant.
LEMMA PullNextInv == PullInv /\ [PullNext]_pullVars => PullInv'
<1> SUFFICES ASSUME PullInv, [PullNext]_pullVars PROVE PullInv'
  OBVIOUS
<1>1. ASSUME NEW S \in SUBSET Ids, AliveChanges(S) PROVE PullInv'
  BY <1>1, OutsideInv DEF AliveChanges, request
<1>2. CASE RouteRefreshes
  BY <1>2, OutsideInv DEF RouteRefreshes, request
<1>3. ASSUME NEW how, NEW sub, Pull(how, sub) PROVE PullInv'
  BY <1>3, BeforeInv DEF Pull, outside
<1>4. CASE PullKernelImpl
  <2>1. step = "find" /\ topicLen' = topicLen
    BY <1>4 DEF PullKernelImpl
  <2>2. (step' = "sent" /\ UNCHANGED answer) \/ End("idle", "no broker")
    BY <1>4 DEF PullKernelImpl
  <2>3. CASE step' = "sent" /\ UNCHANGED answer
    BY <2>1, <2>3, BeforeInv
  <2>4. CASE End("idle", "no broker")
    BY <2>1, <2>4, EndInv
  <2> QED BY <2>2, <2>3, <2>4
<1>5. CASE Answered
  <2>1. ASSUME NEW id \in Ids, NotFound(id) PROVE PullInv'
    BY <2>1, EndInv DEF NotFound, outside
  <2>2. ASSUME NEW id \in Ids, NEW b \in Batches, Found(b, id) PROVE PullInv'
    BY <2>2, FoundInv
  <2>3. CASE Refused
    BY <2>3, EndInv DEF Refused, outside
  <2>4. CASE Lost
    <3>1. /\ topicLen' = topicLen
          /\ End("crashed", None) \/ End("idle", "client exception") \/ End("silent", None)
      BY <2>4 DEF Lost, outside
    <3> QED BY <3>1, EndInv
  <2> QED BY <1>5, <2>1, <2>2, <2>3, <2>4 DEF Answered
<1>6. CASE Process
  <2>1. CASE DecodeFails
    BY <2>1, EndInv DEF DecodeFails, outside
  <2>2. CASE Returns
    BY <2>2, EndInv DEF Returns, outside
  <2> QED BY <1>6, <2>1, <2>2, DecodeInv, DecodeEndsInv, FilterAllInv, FilterTakesInv, FilterPassesInv,
             FilterEndsInv DEF Process, Filter
<1>7. CASE ConnectHangs
  BY <1>7, EndInv DEF ConnectHangs, outside
<1>8. CASE UNCHANGED pullVars
  BY <1>8, OutsideInv DEF pullVars, outside, request
<1> QED BY <1>1, <1>2, <1>3, <1>4, <1>5, <1>6, <1>7, <1>8 DEF PullNext, Pulls

\* The application gets exactly the messages of the answer that its tags name, in
\* their order, and exactly the others are deleted: for any lengths of messages and
\* topics and any number of messages in an answer.
THEOREM PullFilterExact == PullSpec => []FilterExact
<1>1. PullInv => FilterExact
  BY DEF PullInv
<1> QED BY PullInitInv, PullNextInv, <1>1, PTL DEF PullSpec
=============================================================================
