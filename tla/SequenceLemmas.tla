--------------------------- MODULE SequenceLemmas ---------------------------
(***************************************************************************)
(* What pushing and popping do to the set of elements of a queue: the      *)
(* queues of the program are concurrent_queue, io_context strands and TCP  *)
(* streams.                                                                *)
(***************************************************************************)
EXTENDS Naturals, Sequences, SequencesExt, TLAPS

\* The elements of a sequence by their positions.
LEMMA ToSetByIndex ==
  ASSUME NEW S, NEW s \in Seq(S)
  PROVE  ToSet(s) = {s[i] : i \in 1..Len(s)}
<1>1. DOMAIN s = 1..Len(s)
  OBVIOUS
<1>2. QED
  BY <1>1 DEF ToSet

\* Appending (concurrent_queue::push) adds one element.
LEMMA ToSetAppend ==
  ASSUME NEW S, NEW s \in Seq(S), NEW e \in S
  PROVE  ToSet(Append(s, e)) = ToSet(s) \cup {e}
<1>1. Len(Append(s, e)) = Len(s) + 1 /\ Len(s) \in Nat
  OBVIOUS
<1>2. \A i \in 1..Len(s) : Append(s, e)[i] = s[i]
  OBVIOUS
<1>3. Append(s, e)[Len(s) + 1] = e
  OBVIOUS
<1>4. 1..(Len(s) + 1) = 1..Len(s) \cup {Len(s) + 1}
  BY <1>1
<1>5. QED
  BY <1>1, <1>2, <1>3, <1>4 DEF ToSet

\* After a push the queue is not empty.
LEMMA AppendNotEmpty ==
  ASSUME NEW S, NEW s \in Seq(S), NEW e \in S
  PROVE  Append(s, e) # <<>>
<1>1. Len(Append(s, e)) = Len(s) + 1 /\ Len(s) \in Nat
  OBVIOUS
<1>2. QED
  BY <1>1

\* Two messages sent one after the other are both added.
LEMMA ToSetAppendTwo ==
  ASSUME NEW S, NEW s \in Seq(S), NEW a \in S, NEW b \in S
  PROVE  /\ s \o <<a, b>> \in Seq(S)
         /\ ToSet(s \o <<a, b>>) = ToSet(s) \cup {a, b}
<1>1. s \o <<a, b>> = Append(Append(s, a), b)
  OBVIOUS
<1>2. Append(s, a) \in Seq(S) /\ Append(Append(s, a), b) \in Seq(S)
  OBVIOUS
<1>3. ToSet(Append(Append(s, a), b)) = ToSet(s) \cup {a} \cup {b}
  <2>1. ToSet(Append(s, a)) = ToSet(s) \cup {a}
    BY ToSetAppend
  <2>2. PICK t \in Seq(S) : t = Append(s, a)
    BY <1>2
  <2>3. ToSet(Append(t, b)) = ToSet(t) \cup {b}
    BY ToSetAppend
  <2>4. QED
    BY <2>1, <2>2, <2>3
<1>4. QED
  BY <1>1, <1>2, <1>3

\* What arrives of a stream that breaks off is part of what was sent.
LEMMA ToSetPrefix ==
  ASSUME NEW S, NEW s \in Seq(S), NEW n \in 0..Len(s)
  PROVE  /\ SubSeq(s, 1, n) \in Seq(S)
         /\ ToSet(SubSeq(s, 1, n)) \subseteq ToSet(s)
<1>1. /\ SubSeq(s, 1, n) \in Seq(S) /\ Len(SubSeq(s, 1, n)) = n
      /\ \A i \in 1..n : SubSeq(s, 1, n)[i] = s[i]
  OBVIOUS
<1>2. \A i \in 1..n : i \in 1..Len(s)
  OBVIOUS
<1>3. /\ ToSet(s) = {s[i] : i \in 1..Len(s)}
      /\ ToSet(SubSeq(s, 1, n)) = {SubSeq(s, 1, n)[i] : i \in 1..n}
  BY <1>1, ToSetByIndex
<1>4. QED
  BY <1>1, <1>2, <1>3

\* Popping (concurrent_queue::try_pop) removes the head and nothing else.
LEMMA ToSetTail ==
  ASSUME NEW S, NEW s \in Seq(S), s # <<>>
  PROVE  ToSet(s) = {Head(s)} \cup ToSet(Tail(s))
<1>1. Len(Tail(s)) = Len(s) - 1 /\ Len(s) \in Nat /\ Len(s) >= 1
  OBVIOUS
<1>2. \A i \in 1..(Len(s) - 1) : Tail(s)[i] = s[i + 1]
  OBVIOUS
<1>3. Head(s) = s[1]
  OBVIOUS
<1>4. \A i \in 1..Len(s) : i = 1 \/ (i - 1 \in 1..(Len(s) - 1) /\ Tail(s)[i - 1] = s[i])
  BY <1>1, <1>2
<1>5. \A i \in 1..(Len(s) - 1) : i + 1 \in 1..Len(s)
  BY <1>1
<1>5a. /\ ToSet(s) = {s[i] : i \in 1..Len(s)}
       /\ ToSet(Tail(s)) = {Tail(s)[i] : i \in 1..(Len(s) - 1)}
  <2>1. Tail(s) \in Seq(S)
    OBVIOUS
  <2>2. ToSet(Tail(s)) = {Tail(s)[i] : i \in 1..Len(Tail(s))}
    BY <2>1, ToSetByIndex
  <2>3. QED
    BY <1>1, <2>2, ToSetByIndex
<1>6. ASSUME NEW x \in ToSet(s) PROVE x \in {Head(s)} \cup ToSet(Tail(s))
  <2>1. PICK i \in 1..Len(s) : x = s[i]
    BY <1>5a, <1>6
  <2>2. QED
    BY <1>3, <1>4, <1>5a, <2>1
<1>7. ASSUME NEW x \in ToSet(Tail(s)) PROVE x \in ToSet(s)
  BY <1>1, <1>2, <1>5, <1>7 DEF ToSet
<1>8. Head(s) \in ToSet(s)
  BY <1>1, <1>3 DEF ToSet
<1>9. QED
  BY <1>6, <1>7, <1>8

\* In a queue without repetitions the head does not come again.
LEMMA HeadOnce ==
  ASSUME NEW S, NEW s \in Seq(S), s # <<>>,
         \A i, j \in 1..Len(s) : s[i] = s[j] => i = j
  PROVE  /\ Head(s) \notin ToSet(Tail(s))
         /\ \A i, j \in 1..Len(Tail(s)) : Tail(s)[i] = Tail(s)[j] => i = j
<1>1. Len(Tail(s)) = Len(s) - 1 /\ Len(s) \in Nat /\ Len(s) >= 1
  OBVIOUS
<1>2. \A i \in 1..(Len(s) - 1) : Tail(s)[i] = s[i + 1]
  OBVIOUS
<1>3. Head(s) = s[1]
  OBVIOUS
<1>4. \A i \in 1..(Len(s) - 1) : i + 1 \in 1..Len(s) /\ i + 1 # 1
  BY <1>1
<1>5. 1 \in 1..Len(s)
  BY <1>1
<1>6. QED
  BY <1>1, <1>2, <1>3, <1>4, <1>5 DEF ToSet

\* A queue without repetitions keeps none when something new is pushed.
LEMMA AppendOnce ==
  ASSUME NEW S, NEW s \in Seq(S), NEW e \in S, e \notin ToSet(s),
         \A i, j \in 1..Len(s) : s[i] = s[j] => i = j
  PROVE  \A i, j \in 1..Len(Append(s, e)) : Append(s, e)[i] = Append(s, e)[j] => i = j
<1>1. Len(Append(s, e)) = Len(s) + 1 /\ Len(s) \in Nat
  OBVIOUS
<1>2. \A i \in 1..Len(s) : Append(s, e)[i] = s[i] /\ s[i] # e
  BY ToSetByIndex
<1>3. Append(s, e)[Len(s) + 1] = e
  OBVIOUS
<1>4. \A i \in 1..(Len(s) + 1) : i \in 1..Len(s) \/ i = Len(s) + 1
  BY <1>1
<1>5. QED
  BY <1>1, <1>2, <1>3, <1>4

\* An element that comes at most once in a queue.
Once(s, x) == \A a, b \in 1..Len(s) : s[a] = x /\ s[b] = x => a = b

\* It still does when something else is pushed, or when it is pushed and was not there.
LEMMA OnceAppend ==
  ASSUME NEW S, NEW s \in Seq(S), NEW e \in S, NEW x, Once(s, x), e # x \/ x \notin ToSet(s)
  PROVE  Once(Append(s, e), x)
<1>1. /\ Len(Append(s, e)) = Len(s) + 1
      /\ \A i \in 1..Len(s) : Append(s, e)[i] = s[i]
      /\ Append(s, e)[Len(s) + 1] = e
  OBVIOUS
<1>2. e = x => \A i \in 1..Len(s) : s[i] # x
  BY ToSetByIndex
<1>3. QED
  BY <1>1, <1>2 DEF Once

\* It still does when the head is popped, and the popped one does not come again.
LEMMA OnceTail ==
  ASSUME NEW S, NEW s \in Seq(S), NEW x, Once(s, x), s # <<>>
  PROVE  /\ Once(Tail(s), x)
         /\ Head(s) = x => x \notin ToSet(Tail(s))
<1>1. /\ Tail(s) \in Seq(S) /\ Len(Tail(s)) = Len(s) - 1 /\ Len(s) \in Nat \ {0}
      /\ \A i \in 1..(Len(s) - 1) : Tail(s)[i] = s[i + 1]
      /\ Head(s) = s[1]
  OBVIOUS
<1>2. Once(Tail(s), x)
  <2> SUFFICES ASSUME NEW a \in 1..Len(Tail(s)), NEW b \in 1..Len(Tail(s)),
                      Tail(s)[a] = x, Tail(s)[b] = x
               PROVE  a = b
    BY DEF Once
  <2>1. /\ a + 1 \in 1..Len(s) /\ b + 1 \in 1..Len(s)
        /\ s[a + 1] = x /\ s[b + 1] = x
    BY <1>1
  <2>2. QED
    BY <2>1 DEF Once
<1>3. Head(s) = x => x \notin ToSet(Tail(s))
  <2> SUFFICES ASSUME s[1] = x, x \in ToSet(Tail(s)) PROVE FALSE
    BY <1>1
  <2>0. PICK t \in Seq(S) : t = Tail(s) /\ x \in ToSet(t)
    BY <1>1
  <2>1. PICK a \in 1..Len(t) : t[a] = x
    BY ZenonT(30), <2>0, ToSetByIndex
  <2>2. a + 1 \in 1..Len(s) /\ 1 \in 1..Len(s) /\ s[a + 1] = x /\ a + 1 # 1
    BY <1>1, <2>0, <2>1
  <2>3. QED
    BY <2>2 DEF Once
<1>4. QED
  BY <1>2, <1>3

\* And in what arrives of a stream that breaks off.
LEMMA OncePrefix ==
  ASSUME NEW S, NEW s \in Seq(S), NEW x, Once(s, x), NEW n \in 0..Len(s)
  PROVE  Once(SubSeq(s, 1, n), x)
<1>1. /\ Len(SubSeq(s, 1, n)) = n
      /\ \A i \in 1..n : SubSeq(s, 1, n)[i] = s[i] /\ i \in 1..Len(s)
  OBVIOUS
<1>2. QED
  BY <1>1 DEF Once

\* And when two messages are sent of which the second only may be the element.
LEMMA OnceAppendTwo ==
  ASSUME NEW S, NEW s \in Seq(S), NEW a \in S, NEW b \in S, NEW x, Once(s, x),
         a # x, b # x \/ x \notin ToSet(s)
  PROVE  Once(s \o <<a, b>>, x)
<1>1. s \o <<a, b>> = Append(Append(s, a), b)
  OBVIOUS
<1>2. PICK t \in Seq(S) : t = Append(s, a)
  <2>1. Append(s, a) \in Seq(S)
    OBVIOUS
  <2>2. QED
    BY <2>1
<1>3. Once(t, x) /\ ToSet(t) = ToSet(s) \cup {a}
  <2>1. Once(Append(s, a), x)
    BY OnceAppend
  <2>2. ToSet(Append(s, a)) = ToSet(s) \cup {a}
    BY ToSetAppend
  <2>3. QED
    BY <1>2, <2>1, <2>2
<1>4. Once(Append(t, b), x)
  BY <1>3, OnceAppend
<1>5. QED
  BY <1>1, <1>2, <1>4

\* Every a comes before every b in a queue.
Before(s, a, b) == \A i, k \in 1..Len(s) : s[i] = a /\ s[k] = b => i < k

\* It still does when something is pushed that is not an a behind a b.
LEMMA BeforeAppend ==
  ASSUME NEW S, NEW s \in Seq(S), NEW e \in S, NEW a, NEW b, a # b, Before(s, a, b),
         e # a \/ b \notin ToSet(s)
  PROVE  Before(Append(s, e), a, b)
<1>1. /\ Len(Append(s, e)) = Len(s) + 1 /\ Len(s) \in Nat
      /\ \A i \in 1..Len(s) : Append(s, e)[i] = s[i]
      /\ Append(s, e)[Len(s) + 1] = e
  OBVIOUS
<1>2. e = a => \A k \in 1..Len(s) : s[k] # b
  BY ToSetByIndex
<1> SUFFICES ASSUME NEW i \in 1..(Len(s) + 1), NEW k \in 1..(Len(s) + 1),
                    Append(s, e)[i] = a, Append(s, e)[k] = b
             PROVE  i < k
  BY <1>1 DEF Before
<1>3. CASE i \in 1..Len(s) /\ k \in 1..Len(s)
  BY <1>1, <1>3 DEF Before
<1>4. CASE i \in 1..Len(s) /\ k = Len(s) + 1
  BY <1>1, <1>4
<1>5. CASE i = Len(s) + 1
  <2>1. e = a /\ k # Len(s) + 1
    BY <1>1, <1>5
  <2>2. k \in 1..Len(s)
    BY <1>1, <2>1
  <2>3. QED
    BY <1>1, <1>2, <2>1, <2>2
<1>6. QED
  BY <1>1, <1>3, <1>4, <1>5

\* It still does when the head is popped; behind a popped b there is no a.
LEMMA BeforeTail ==
  ASSUME NEW S, NEW s \in Seq(S), NEW a, NEW b, Before(s, a, b), s # <<>>
  PROVE  /\ Before(Tail(s), a, b)
         /\ Head(s) = b => a \notin ToSet(Tail(s))
<1>1. /\ Tail(s) \in Seq(S) /\ Len(Tail(s)) = Len(s) - 1 /\ Len(s) \in Nat \ {0}
      /\ \A i \in 1..(Len(s) - 1) : Tail(s)[i] = s[i + 1] /\ i + 1 \in 1..Len(s)
      /\ Head(s) = s[1] /\ 1 \in 1..Len(s)
  OBVIOUS
<1>2. Before(Tail(s), a, b)
  <2> SUFFICES ASSUME NEW i \in 1..(Len(s) - 1), NEW k \in 1..(Len(s) - 1),
                      Tail(s)[i] = a, Tail(s)[k] = b
               PROVE  i < k
    BY <1>1 DEF Before
  <2>1. i + 1 < k + 1
    BY <1>1 DEF Before
  <2>2. QED
    BY <2>1
<1>3. Head(s) = b => a \notin ToSet(Tail(s))
  <2> SUFFICES ASSUME s[1] = b, a \in ToSet(Tail(s)) PROVE FALSE
    BY <1>1
  <2>1. PICK t \in Seq(S) : t = Tail(s) /\ a \in ToSet(t)
    BY <1>1
  <2>2. PICK i \in 1..Len(t) : t[i] = a
    BY <2>1, ToSetByIndex
  <2>3. i + 1 \in 1..Len(s) /\ s[i + 1] = a
    BY <1>1, <2>1, <2>2
  <2>4. i + 1 < 1
    BY <1>1, <2>3 DEF Before
  <2>5. QED
    BY <2>4
<1>4. QED
  BY <1>2, <1>3

\* And in what arrives of a stream that breaks off.
LEMMA BeforePrefix ==
  ASSUME NEW S, NEW s \in Seq(S), NEW a, NEW b, Before(s, a, b), NEW n \in 0..Len(s)
  PROVE  Before(SubSeq(s, 1, n), a, b)
<1>1. /\ Len(SubSeq(s, 1, n)) = n
      /\ \A i \in 1..n : SubSeq(s, 1, n)[i] = s[i] /\ i \in 1..Len(s)
  OBVIOUS
<1>2. QED
  BY <1>1 DEF Before

\* And when two messages are sent, an a only where there was no b and before any b.
LEMMA BeforeAppendTwo ==
  ASSUME NEW S, NEW s \in Seq(S), NEW d \in S, NEW e \in S, NEW a, NEW b, a # b,
         Before(s, a, b), d # a \/ b \notin ToSet(s), e # a
  PROVE  Before(s \o <<d, e>>, a, b)
<1>1. s \o <<d, e>> = Append(Append(s, d), e)
  OBVIOUS
<1>2. PICK t \in Seq(S) : t = Append(s, d)
  <2>1. Append(s, d) \in Seq(S)
    OBVIOUS
  <2>2. QED
    BY <2>1
<1>3. Before(t, a, b)
  BY <1>2, BeforeAppend
<1>4. Before(Append(t, e), a, b)
  BY <1>3, BeforeAppend
<1>5. QED
  BY <1>1, <1>2, <1>4
=============================================================================
