----------------------------- MODULE ListLemmas -----------------------------
(* The queues of the program (QLIST, QTAILQ) are sequences without           *)
(* repetition; these lemmas say what inserting and removing does to the set  *)
(* of their elements.                                                        *)
EXTENDS Integers, Sequences, SequencesExt, SequenceTheorems, TLAPS

\* The elements of a list are the values at its positions.
LEMMA Elements ==
    ASSUME NEW S, NEW s \in Seq(S)
    PROVE  /\ Len(s) \in Nat /\ DOMAIN s = 1 .. Len(s)
           /\ \A i \in 1 .. Len(s) : s[i] \in ToSet(s) /\ s[i] \in S
           /\ \A x \in ToSet(s) : \E i \in 1 .. Len(s) : s[i] = x
           /\ ToSet(s) \subseteq S
           /\ IsInjective(s) <=>
                \A i, j \in 1 .. Len(s) : s[i] = s[j] => i = j
<1>1. Len(s) \in Nat /\ DOMAIN s = 1 .. Len(s) /\ \A i \in 1 .. Len(s) : s[i] \in S
  OBVIOUS
<1> QED BY <1>1 DEF ToSet, IsInjective

\* The empty list has no elements.
LEMMA EmptySet ==
    /\ \A S : <<>> \in Seq(S)
    /\ Len(<<>>) = 0
    /\ ToSet(<<>>) = {}
    /\ IsInjective(<<>>)
BY DEF ToSet, IsInjective

\* A list with an element is not empty, and the other way round.
LEMMA NonEmptySet ==
    ASSUME NEW S, NEW s \in Seq(S)
    PROVE  /\ s # <<>> <=> ToSet(s) # {}
           /\ s # <<>> <=> Len(s) > 0
<1>1. Len(s) \in Nat /\ DOMAIN s = 1 .. Len(s) /\ (s # <<>> <=> Len(s) > 0)
  OBVIOUS
<1> QED BY <1>1 DEF ToSet

\* Positions of the longer list t are those of s, with one more for e.
LEMMA InsertedSet ==
    ASSUME NEW S, NEW s \in Seq(S), NEW t \in Seq(S), NEW e \in S,
           NEW k \in 1 .. Len(s) + 1,
           Len(t) = Len(s) + 1, t[k] = e,
           \A i \in 1 .. Len(s) : t[IF i < k THEN i ELSE i + 1] = s[i]
    PROVE  /\ ToSet(t) = ToSet(s) \cup {e}
           /\ IsInjective(s) /\ e \notin ToSet(s) <=> IsInjective(t)
<1> USE Elements
<1> DEFINE p(i) == IF i < k THEN i ELSE i + 1
<1>1. \A i \in 1 .. Len(s) : p(i) \in 1 .. Len(t) /\ p(i) # k /\ t[p(i)] = s[i]
  OBVIOUS
<1>2. \A j \in 1 .. Len(t) : j # k => \E i \in 1 .. Len(s) : p(i) = j
  <2> SUFFICES ASSUME NEW j \in 1 .. Len(t), j # k
               PROVE  \E i \in 1 .. Len(s) : p(i) = j
    OBVIOUS
  <2>1. CASE j < k
    <3>1. j \in 1 .. Len(s) /\ p(j) = j
      BY <2>1
    <3> QED BY <3>1
  <2>2. CASE j > k
    <3>1. j - 1 \in 1 .. Len(s) /\ p(j - 1) = j
      BY <2>2
    <3> QED BY <3>1
  <2> QED BY <2>1, <2>2
<1>3. \A i, j \in 1 .. Len(s) : p(i) = p(j) => i = j
  OBVIOUS
<1> HIDE DEF p
<1>4. ToSet(t) \subseteq ToSet(s) \cup {e}
  <2> SUFFICES ASSUME NEW x \in ToSet(t) PROVE x \in ToSet(s) \cup {e}
    OBVIOUS
  <2>1. PICK j \in 1 .. Len(t) : t[j] = x
    OBVIOUS
  <2>2. CASE j # k
    <3>1. PICK i \in 1 .. Len(s) : p(i) = j
      BY <1>2, <2>2
    <3> QED BY <1>1, <2>1, <3>1
  <2> QED BY <2>1, <2>2
<1>5. e \in ToSet(t)
  OBVIOUS
<1>6. ToSet(s) \subseteq ToSet(t)
  <2> SUFFICES ASSUME NEW x \in ToSet(s) PROVE x \in ToSet(t)
    OBVIOUS
  <2>1. PICK i \in 1 .. Len(s) : s[i] = x
    OBVIOUS
  <2> QED BY <1>1, <2>1
<1>7. ASSUME IsInjective(s), e \notin ToSet(s) PROVE IsInjective(t)
  <2> SUFFICES ASSUME NEW a \in 1 .. Len(t), NEW b \in 1 .. Len(t), t[a] = t[b]
               PROVE  a = b
    OBVIOUS
  <2>1. CASE a # k /\ b # k
    <3>1. PICK i \in 1 .. Len(s) : p(i) = a
      BY <1>2, <2>1
    <3>2. PICK j \in 1 .. Len(s) : p(j) = b
      BY <1>2, <2>1
    <3>3. s[i] = s[j]
      BY <1>1, <3>1, <3>2
    <3> QED BY <1>7, <3>1, <3>2, <3>3
  <2>2. ASSUME NEW c \in 1 .. Len(t), c # k PROVE t[c] # e
    <3>1. PICK i \in 1 .. Len(s) : p(i) = c
      BY <1>2, <2>2
    <3> QED BY <1>1, <1>7, <3>1
  <2> QED BY <2>1, <2>2
<1>8. ASSUME IsInjective(t) PROVE IsInjective(s) /\ e \notin ToSet(s)
  <2>1. \A a, b \in 1 .. Len(t) : t[a] = t[b] => a = b
    BY <1>8
  <2>2. ASSUME NEW i \in 1 .. Len(s), NEW j \in 1 .. Len(s), s[i] = s[j]
        PROVE  i = j
    <3>1. t[p(i)] = t[p(j)] /\ p(i) \in 1 .. Len(t) /\ p(j) \in 1 .. Len(t)
      BY <1>1, <2>2
    <3> QED BY <1>3, <2>1, <3>1
  <2>3. IsInjective(s)
    BY <2>2
  <2>4. ASSUME NEW i \in 1 .. Len(s) PROVE s[i] # e
    <3>1. t[p(i)] = s[i] /\ p(i) # k /\ p(i) \in 1 .. Len(t)
      BY <1>1
    <3>2. k \in 1 .. Len(t)
      OBVIOUS
    <3> QED BY <2>1, <3>1, <3>2
  <2> QED BY <2>3, <2>4
<1> QED BY <1>4, <1>5, <1>6, <1>7, <1>8

\* QTAILQ_INSERT_TAIL adds one element at the end.
LEMMA AppendSet ==
    ASSUME NEW S, NEW s \in Seq(S), NEW e \in S
    PROVE  /\ Append(s, e) \in Seq(S)
           /\ Len(Append(s, e)) = Len(s) + 1
           /\ ToSet(Append(s, e)) = ToSet(s) \cup {e}
           /\ IsInjective(s) /\ e \notin ToSet(s) <=> IsInjective(Append(s, e))
<1> DEFINE t == Append(s, e)
<1>1. /\ t \in Seq(S) /\ Len(t) = Len(s) + 1 /\ Len(s) \in Nat
      /\ Len(s) + 1 \in 1 .. Len(s) + 1
      /\ t[Len(s) + 1] = e
      /\ \A i \in 1 .. Len(s) : t[i] = s[i]
  OBVIOUS
<1> HIDE DEF t
<1> DEFINE k == Len(s) + 1
<1>2. /\ k \in 1 .. Len(s) + 1 /\ t[k] = e
      /\ \A i \in 1 .. Len(s) : t[IF i < k THEN i ELSE i + 1] = s[i]
  BY <1>1
<1> HIDE DEF k
<1>3. /\ ToSet(t) = ToSet(s) \cup {e}
      /\ IsInjective(s) /\ e \notin ToSet(s) <=> IsInjective(t)
  BY <1>1, <1>2, InsertedSet
<1> QED BY <1>1, <1>3 DEF t

\* QLIST_INSERT_HEAD adds one element at the front.
LEMMA ConsSet ==
    ASSUME NEW S, NEW s \in Seq(S), NEW e \in S
    PROVE  /\ <<e>> \o s \in Seq(S)
           /\ Len(<<e>> \o s) = Len(s) + 1
           /\ ToSet(<<e>> \o s) = ToSet(s) \cup {e}
           /\ IsInjective(s) /\ e \notin ToSet(s) <=> IsInjective(<<e>> \o s)
<1> DEFINE t == <<e>> \o s
<1>1. /\ t \in Seq(S) /\ Len(t) = Len(s) + 1 /\ Len(s) \in Nat
      /\ 1 \in 1 .. Len(s) + 1
      /\ t[1] = e
      /\ \A i \in 1 .. Len(s) : t[i + 1] = s[i]
  OBVIOUS
<1> HIDE DEF t
<1>2. \A i \in 1 .. Len(s) : t[IF i < 1 THEN i ELSE i + 1] = s[i]
  BY <1>1
<1>3. /\ ToSet(t) = ToSet(s) \cup {e}
      /\ IsInjective(s) /\ e \notin ToSet(s) <=> IsInjective(t)
  BY <1>1, <1>2, InsertedSet
<1> QED BY <1>1, <1>3 DEF t

\* Taking the first element of a list.
LEMMA TailSet ==
    ASSUME NEW S, NEW s \in Seq(S), s # <<>>
    PROVE  /\ Tail(s) \in Seq(S)
           /\ Len(Tail(s)) = Len(s) - 1
           /\ Head(s) \in ToSet(s) /\ Head(s) \in S
           /\ ToSet(s) = ToSet(Tail(s)) \cup {Head(s)}
           /\ IsInjective(s) => /\ IsInjective(Tail(s))
                                /\ ToSet(Tail(s)) = ToSet(s) \ {Head(s)}
<1> DEFINE t == Tail(s)
<1>1. /\ t \in Seq(S) /\ Len(s) = Len(t) + 1 /\ Len(t) \in Nat
      /\ 1 \in 1 .. Len(t) + 1
      /\ s[1] = Head(s) /\ Head(s) \in S
      /\ \A i \in 1 .. Len(t) : s[i + 1] = t[i]
  OBVIOUS
<1> HIDE DEF t
<1>2. \A i \in 1 .. Len(t) : s[IF i < 1 THEN i ELSE i + 1] = t[i]
  BY <1>1
<1>3. /\ ToSet(s) = ToSet(t) \cup {Head(s)}
      /\ IsInjective(t) /\ Head(s) \notin ToSet(t) <=> IsInjective(s)
  BY <1>1, <1>2, InsertedSet
<1> QED BY <1>1, <1>3 DEF t

\* Popping the stack of callbacks.
LEMMA FrontSet ==
    ASSUME NEW S, NEW s \in Seq(S), s # <<>>, IsInjective(s)
    PROVE  /\ Front(s) \in Seq(S)
           /\ Last(s) \in ToSet(s) /\ Last(s) \in S
           /\ ToSet(Front(s)) = ToSet(s) \ {Last(s)}
           /\ IsInjective(Front(s))
<1> DEFINE k == Len(s)
           t == SubSeq(s, 1, k - 1)
<1>1. k \in 1 .. Len(s) /\ Len(s) = k /\ Front(s) = t /\ s[k] = Last(s)
  BY DEF Front, Last
<1> HIDE DEF k
<1>2. /\ t \in Seq(S) /\ Len(t) = k - 1 /\ Last(s) \in S
      /\ \A i \in 1 .. k - 1 : t[i] = s[i]
  BY <1>1
<1> HIDE DEF t
<1>3. /\ k \in 1 .. Len(t) + 1 /\ Len(s) = Len(t) + 1
      /\ \A i \in 1 .. Len(t) : s[IF i < k THEN i ELSE i + 1] = t[i]
  BY <1>1, <1>2
<1>4. /\ ToSet(s) = ToSet(t) \cup {Last(s)}
      /\ IsInjective(t) /\ Last(s) \notin ToSet(t) <=> IsInjective(s)
  BY <1>1, <1>2, <1>3, InsertedSet
<1> QED BY <1>1, <1>2, <1>4

\* QLIST_REMOVE and QTAILQ_REMOVE take exactly one element off a list.
LEMMA RemoveAtSet ==
    ASSUME NEW S, NEW s \in Seq(S), IsInjective(s), NEW k \in 1 .. Len(s)
    PROVE  /\ RemoveAt(s, k) \in Seq(S)
           /\ Len(RemoveAt(s, k)) = Len(s) - 1
           /\ ToSet(RemoveAt(s, k)) = ToSet(s) \ {s[k]}
           /\ IsInjective(RemoveAt(s, k))
<1> DEFINE a == SubSeq(s, 1, k - 1)
           b == SubSeq(s, k + 1, Len(s))
           u == a \o b
<1>1. /\ a \in Seq(S) /\ Len(a) = k - 1
      /\ \A i \in 1 .. k - 1 : a[i] = s[i]
  OBVIOUS
<1>2. /\ b \in Seq(S) /\ Len(b) = Len(s) - k
      /\ \A i \in 1 .. Len(s) - k : b[i] = s[i + k]
  OBVIOUS
<1> HIDE DEF a, b
<1>3. /\ u \in Seq(S) /\ Len(u) = Len(a) + Len(b)
      /\ \A i \in 1 .. Len(a) + Len(b) :
            u[i] = IF i <= Len(a) THEN a[i] ELSE b[i - Len(a)]
  BY <1>1, <1>2, ConcatProperties
<1> HIDE DEF u
<1>4. Len(s) = Len(u) + 1 /\ k \in 1 .. Len(u) + 1 /\ s[k] \in S
  BY <1>1, <1>2, <1>3
<1>5. ASSUME NEW i \in 1 .. Len(u)
      PROVE  s[IF i < k THEN i ELSE i + 1] = u[i]
  <2>1. CASE i < k
    BY <1>1, <1>2, <1>3, <2>1
  <2>2. CASE i >= k
    <3>1. i - Len(a) \in 1 .. Len(s) - k /\ i - Len(a) + k = i + 1
      BY <1>1, <1>2, <1>3, <2>2
    <3>2. u[i] = b[i - Len(a)]
      BY <1>1, <1>2, <1>3, <2>2
    <3> QED BY <1>2, <2>2, <3>1, <3>2
  <2> QED BY <2>1, <2>2
<1> DEFINE e == s[k]
<1>6. /\ u \in Seq(S) /\ s[k] = e /\ e \in S
      /\ \A i \in 1 .. Len(u) : s[IF i < k THEN i ELSE i + 1] = u[i]
  BY <1>3, <1>4, <1>5
<1> HIDE DEF e
<1>7. /\ Len(s) = Len(u) + 1 /\ k \in 1 .. Len(u) + 1 /\ s \in Seq(S)
      /\ u \in Seq(S) /\ s[k] = e /\ e \in S
      /\ \A i \in 1 .. Len(u) : s[IF i < k THEN i ELSE i + 1] = u[i]
  BY <1>4, <1>6, Zenon
<1>8. /\ ToSet(s) = ToSet(u) \cup {e}
      /\ IsInjective(u) /\ e \notin ToSet(u) <=> IsInjective(s)
  BY ONLY <1>7, InsertedSet
<1>9. RemoveAt(s, k) = u
  BY DEF RemoveAt, u, a, b
<1> QED BY <1>3, <1>4, <1>8, <1>9 DEF e

\* One list moved behind another one.
LEMMA ConcatSet ==
    ASSUME NEW S, NEW s \in Seq(S), NEW t \in Seq(S)
    PROVE  /\ s \o t \in Seq(S)
           /\ ToSet(s \o t) = ToSet(s) \cup ToSet(t)
           /\ IsInjective(s) /\ IsInjective(t) /\ ToSet(s) \cap ToSet(t) = {} =>
                IsInjective(s \o t)
<1> DEFINE u == s \o t
<1>1. /\ u \in Seq(S) /\ Len(u) = Len(s) + Len(t)
      /\ \A i \in 1 .. Len(s) + Len(t) :
            u[i] = IF i <= Len(s) THEN s[i] ELSE t[i - Len(s)]
  BY ConcatProperties
<1> HIDE DEF u
<1>2. Len(s) \in Nat /\ Len(t) \in Nat
  OBVIOUS
<1>3. ASSUME NEW i \in 1 .. Len(u)
      PROVE  \/ i \in 1 .. Len(s) /\ u[i] = s[i]
             \/ i - Len(s) \in 1 .. Len(t) /\ i > Len(s) /\ u[i] = t[i - Len(s)]
  BY <1>1, <1>2
<1>4. ASSUME NEW i \in 1 .. Len(s) PROVE i \in 1 .. Len(u) /\ u[i] = s[i]
  BY <1>1, <1>2
<1>5. ASSUME NEW i \in 1 .. Len(t)
      PROVE  i + Len(s) \in 1 .. Len(u) /\ u[i + Len(s)] = t[i]
  <2>1. i + Len(s) \in 1 .. Len(u) /\ i + Len(s) > Len(s) /\ i + Len(s) - Len(s) = i
    BY <1>1, <1>2
  <2> QED BY <1>1, <1>2, <2>1
<1>6. ToSet(u) \subseteq ToSet(s) \cup ToSet(t)
  BY <1>1, <1>3, Elements
<1>7. ToSet(s) \subseteq ToSet(u)
  BY <1>1, <1>4, Elements
<1>8. ASSUME NEW x \in ToSet(t) PROVE x \in ToSet(u)
  <2>1. PICK i \in 1 .. Len(t) : t[i] = x
    BY Elements
  <2>2. i + Len(s) \in 1 .. Len(u) /\ u[i + Len(s)] = x
    BY <1>5, <2>1
  <2> QED BY <1>1, <2>2, Elements
<1>9. ASSUME IsInjective(s), IsInjective(t), ToSet(s) \cap ToSet(t) = {}
      PROVE  IsInjective(u)
  <2>1. SUFFICES ASSUME NEW i \in 1 .. Len(u), NEW j \in 1 .. Len(u), u[i] = u[j]
                 PROVE  i = j
    BY <1>1, Elements
  <2>2. CASE i <= Len(s) /\ j <= Len(s)
    BY <1>2, <1>3, <1>9, <2>1, <2>2, Elements
  <2>3. CASE i > Len(s) /\ j > Len(s)
    <3>1. i - Len(s) \in 1 .. Len(t) /\ u[i] = t[i - Len(s)]
      BY <1>2, <1>3, <2>3
    <3>2. j - Len(s) \in 1 .. Len(t) /\ u[j] = t[j - Len(s)]
      BY <1>2, <1>3, <2>3
    <3>3. \A a, b \in 1 .. Len(t) : t[a] = t[b] => a = b
      BY <1>9, Elements
    <3>4. i - Len(s) = j - Len(s)
      BY <2>1, <3>1, <3>2, <3>3
    <3> QED BY <1>1, <1>2, <3>4
  <2>4. CASE i <= Len(s) /\ j > Len(s)
    <3>1. i \in 1 .. Len(s) /\ u[i] = s[i]
      BY <1>2, <1>3, <2>4
    <3>2. j - Len(s) \in 1 .. Len(t) /\ u[j] = t[j - Len(s)]
      BY <1>2, <1>3, <2>4
    <3>3. u[i] \in ToSet(s) /\ u[j] \in ToSet(t)
      BY <3>1, <3>2, Elements
    <3> QED BY <1>9, <2>1, <3>3
  <2>5. CASE i > Len(s) /\ j <= Len(s)
    <3>1. j \in 1 .. Len(s) /\ u[j] = s[j]
      BY <1>2, <1>3, <2>5
    <3>2. i - Len(s) \in 1 .. Len(t) /\ u[i] = t[i - Len(s)]
      BY <1>2, <1>3, <2>5
    <3>3. u[j] \in ToSet(s) /\ u[i] \in ToSet(t)
      BY <3>1, <3>2, Elements
    <3> QED BY <1>9, <2>1, <3>3
  <2> QED BY <1>1, <1>2, <2>2, <2>3, <2>4, <2>5
<1> QED BY <1>1, <1>6, <1>7, <1>8, <1>9 DEF u
=============================================================================
