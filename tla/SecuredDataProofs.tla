------------------------- MODULE SecuredDataProofs --------------------------
(***************************************************************************)
(* That a message has one reading, for texts of every length over every    *)
(* alphabet.  The first underscore ends the counter, because no digit is   *)
(* an underscore, and the last one begins the last signature, because no   *)
(* character of base64 is; what is between is the data, whatever it holds. *)
(***************************************************************************)
EXTENDS SecuredData, TLAPS

\* Where the parts of a message are.
Parts(m, c, d, l) ==
  /\ Len(m) = Len(c) + Len(d) + Len(l) + 2
  /\ \A i \in 1..Len(c) : m[i] = c[i]
  /\ m[Len(c) + 1] = Separator
  /\ \A i \in 1..Len(d) : m[Len(c) + 1 + i] = d[i]
  /\ m[Len(c) + Len(d) + 2] = Separator
  /\ \A i \in 1..Len(l) : m[Len(c) + Len(d) + 2 + i] = l[i]

\* What a concatenation holds, and where.
Joins(u, s, t) ==
  /\ Len(u) = Len(s) + Len(t)
  /\ \A i \in 1..Len(s) : u[i] = s[i]
  /\ \A i \in 1..Len(t) : u[Len(s) + i] = t[i]

\* Used for each of Message's four concatenations.
LEMMA Concatenation ==
  ASSUME NEW S, NEW s \in Seq(S), NEW t \in Seq(S)
  PROVE  s \o t \in Seq(S) /\ Joins(s \o t, s, t)
  BY DEF Joins

\* A message holds its three parts, each after the one before.
LEMMA MessageParts ==
  ASSUME NEW c \in Seq(Digit), NEW d \in Seq(Char), NEW l \in Seq(Base64)
  PROVE  Parts(Message(c, d, l), c, d, l)
<1> DEFINE U == Digit \cup Char \cup Base64 \cup {Separator}
           sep == <<Separator>>
           a == c \o sep
           b == d \o sep
           e == b \o l
           m == a \o e
<1>1. c \in Seq(U) /\ d \in Seq(U) /\ l \in Seq(U)
  OBVIOUS
<1>2. sep \in Seq(U) /\ Len(sep) = 1 /\ sep[1] = Separator
  OBVIOUS
<1>3. Message(c, d, l) = m
  <2>1. c \o <<Separator>> \o (d \o <<Separator>> \o l) = m
    BY Zenon
  <2> QED BY <2>1 DEF Message
<1> HIDE DEF sep, U
<1>4. a \in Seq(U) /\ Joins(a, c, sep)
  BY <1>1, <1>2, Concatenation, Zenon
<1>5. b \in Seq(U) /\ Joins(b, d, sep)
  BY <1>1, <1>2, Concatenation, Zenon
<1> HIDE DEF a, b
<1>6. e \in Seq(U) /\ Joins(e, b, l)
  BY <1>1, <1>5, Concatenation, Zenon
<1> HIDE DEF e
<1>7. Joins(m, a, e)
  BY <1>4, <1>6, Concatenation, Zenon
<1> HIDE DEF m
<1>8. Len(c) \in Nat /\ Len(d) \in Nat /\ Len(l) \in Nat
  OBVIOUS
<1>9. Len(m) = Len(c) + Len(d) + Len(l) + 2
  BY <1>2, <1>4, <1>5, <1>6, <1>7, <1>8 DEF Joins
<1>10. (\A i \in 1..Len(c) : m[i] = c[i]) /\ m[Len(c) + 1] = Separator
  BY <1>2, <1>4, <1>7, <1>8 DEF Joins
<1>11. \A i \in 1..Len(d) : m[Len(c) + 1 + i] = d[i]
  BY <1>2, <1>4, <1>5, <1>6, <1>7, <1>8 DEF Joins
<1>12. m[Len(c) + Len(d) + 2] = Separator
  <2>1. m[Len(a) + Len(b)] = e[Len(b)]
    BY <1>2, <1>4, <1>5, <1>6, <1>7, <1>8 DEF Joins
  <2>2. e[Len(b)] = Separator
    BY <1>2, <1>5, <1>6, <1>8 DEF Joins
  <2> QED BY <2>1, <2>2, <1>2, <1>4, <1>5, <1>8 DEF Joins
<1>13. \A i \in 1..Len(l) : m[Len(c) + Len(d) + 2 + i] = l[i]
  <2> SUFFICES ASSUME NEW i \in 1..Len(l)
               PROVE  m[Len(c) + Len(d) + 2 + i] = l[i]
    OBVIOUS
  <2>1. m[Len(a) + (Len(b) + i)] = e[Len(b) + i]
    BY <1>2, <1>5, <1>6, <1>7, <1>8 DEF Joins
  <2> QED BY <2>1, <1>2, <1>4, <1>5, <1>6, <1>8 DEF Joins
<1> QED BY <1>3, <1>9, <1>10, <1>11, <1>12, <1>13 DEF Parts

\* Where one counter ends there is an underscore, which is no digit of a
\* longer one.
LEMMA CounterNotShorter ==
  ASSUME NEW m,
         NEW c1 \in Seq(Digit), NEW d1 \in Seq(Char), NEW l1 \in Seq(Base64),
         NEW c2 \in Seq(Digit), NEW d2 \in Seq(Char), NEW l2 \in Seq(Base64),
         Parts(m, c1, d1, l1), Parts(m, c2, d2, l2)
  PROVE  Len(c1) >= Len(c2)
<1> SUFFICES ASSUME Len(c1) < Len(c2) PROVE FALSE
  OBVIOUS
<1>1. Len(c1) + 1 \in 1..Len(c2)
  OBVIOUS
<1>2. m[Len(c1) + 1] = Separator /\ m[Len(c1) + 1] = c2[Len(c1) + 1]
  BY <1>1 DEF Parts
<1>3. c2[Len(c1) + 1] \in Digit
  BY <1>1
<1> QED BY <1>2, <1>3, AlphabetAssumption

\* The same from the end, for the last signature.
LEMMA LastNotShorter ==
  ASSUME NEW m,
         NEW c1 \in Seq(Digit), NEW d1 \in Seq(Char), NEW l1 \in Seq(Base64),
         NEW c2 \in Seq(Digit), NEW d2 \in Seq(Char), NEW l2 \in Seq(Base64),
         Parts(m, c1, d1, l1), Parts(m, c2, d2, l2)
  PROVE  Len(l1) >= Len(l2)
<1> SUFFICES ASSUME Len(l1) < Len(l2) PROVE FALSE
  OBVIOUS
<1>1. PICK k \in 1..Len(l2) : k = Len(l2) - Len(l1)
  <2>1. Len(l2) - Len(l1) \in 1..Len(l2)
    OBVIOUS
  <2> QED BY <2>1
<1>2. Len(c1) + Len(d1) + Len(l1) + 2 = Len(c2) + Len(d2) + Len(l2) + 2
  BY DEF Parts
<1>3. Len(c1) + Len(d1) + 2 = Len(c2) + Len(d2) + 2 + k
  BY <1>1, <1>2
<1>4. m[Len(c1) + Len(d1) + 2] = Separator
  BY DEF Parts
<1>5. m[Len(c2) + Len(d2) + 2 + k] = l2[k]
  BY <1>1 DEF Parts
<1>6. l2[k] \in Base64
  BY <1>1
<1> QED BY <1>3, <1>4, <1>5, <1>6, AlphabetAssumption

\* Two sequences of one length that agree everywhere are the same.
LEMMA SameText ==
  ASSUME NEW S, NEW s \in Seq(S), NEW t \in Seq(S), Len(s) = Len(t),
         \A i \in 1..Len(s) : s[i] = t[i]
  PROVE  s = t
  OBVIOUS

\* The parts of a message are where only one reading can find them.
LEMMA OneReadingOfParts ==
  ASSUME NEW m,
         NEW c1 \in Seq(Digit), NEW d1 \in Seq(Char), NEW l1 \in Seq(Base64),
         NEW c2 \in Seq(Digit), NEW d2 \in Seq(Char), NEW l2 \in Seq(Base64),
         Parts(m, c1, d1, l1), Parts(m, c2, d2, l2)
  PROVE  c1 = c2 /\ d1 = d2 /\ l1 = l2
<1>1. /\ Len(c1) \in Nat /\ Len(d1) \in Nat /\ Len(l1) \in Nat
      /\ Len(c2) \in Nat /\ Len(d2) \in Nat /\ Len(l2) \in Nat
  OBVIOUS
<1>2. Len(c1) = Len(c2)
  <2>1. Len(c1) >= Len(c2) /\ Len(c2) >= Len(c1)
    BY CounterNotShorter
  <2> QED BY <2>1, <1>1
<1>3. Len(l1) = Len(l2)
  <2>1. Len(l1) >= Len(l2) /\ Len(l2) >= Len(l1)
    BY LastNotShorter
  <2> QED BY <2>1, <1>1
<1>4. Len(d1) = Len(d2)
  BY <1>1, <1>2, <1>3 DEF Parts
<1>5. c1 = c2
  <2>1. \A i \in 1..Len(c1) : c1[i] = c2[i]
    BY <1>2 DEF Parts
  <2> QED BY <1>2, <2>1, SameText
<1>6. d1 = d2
  <2>1. \A i \in 1..Len(d1) : d1[i] = d2[i]
    BY <1>2, <1>4 DEF Parts
  <2> QED BY <1>4, <2>1, SameText
<1>7. l1 = l2
  <2>1. \A i \in 1..Len(l1) : l1[i] = l2[i]
    BY <1>2, <1>3, <1>4 DEF Parts
  <2> QED BY <1>3, <2>1, SameText
<1> QED BY <1>5, <1>6, <1>7

\* For every alphabet whose digits and base64 characters hold no underscore,
\* and for data of any length with any characters, two signings that make the
\* same message have the same counter, data and last signature.
THEOREM MessageHasOneReading ==
  ASSUME NEW f \in Fields, NEW g \in Fields,
         Message(f.counter, f.data, f.last) = Message(g.counter, g.data, g.last)
  PROVE  f = g
<1> SUFFICES f.counter = g.counter /\ f.data = g.data /\ f.last = g.last
  BY DEF Fields
<1>1. /\ f.counter \in Seq(Digit) /\ f.data \in Seq(Char) /\ f.last \in Seq(Base64)
      /\ g.counter \in Seq(Digit) /\ g.data \in Seq(Char) /\ g.last \in Seq(Base64)
  BY DEF Fields
<1>2. /\ Parts(Message(f.counter, f.data, f.last), f.counter, f.data, f.last)
      /\ Parts(Message(g.counter, g.data, g.last), g.counter, g.data, g.last)
  BY <1>1, MessageParts, Zenon
<1>3. PICK m : m = Message(f.counter, f.data, f.last)
  OBVIOUS
<1>4. PICK c1 \in Seq(Digit), d1 \in Seq(Char), l1 \in Seq(Base64) :
        c1 = f.counter /\ d1 = f.data /\ l1 = f.last
  BY <1>1
<1>5. PICK c2 \in Seq(Digit), d2 \in Seq(Char), l2 \in Seq(Base64) :
        c2 = g.counter /\ d2 = g.data /\ l2 = g.last
  BY <1>1
<1>6. Parts(m, c1, d1, l1) /\ Parts(m, c2, d2, l2)
  BY <1>2, <1>3, <1>4, <1>5, Zenon
<1>7. c1 = c2 /\ d1 = d2 /\ l1 = l2
  BY <1>6, OneReadingOfParts
<1> QED BY <1>4, <1>5, <1>7

-----------------------------------------------------------------------------
\* What is proved of the messages signed so far.
Messages == {Message(f.counter, f.data, f.last) : f \in Fields}
SealedType == sealed \in Seq([fields : Fields, message : Messages])
SealedMessage ==
  \A i \in DOMAIN sealed :
    sealed[i].message = Message(sealed[i].fields.counter, sealed[i].fields.data,
                                sealed[i].fields.last)

\* The texts TLC enumerates are texts.
LEMMA ShortFieldsAreFields == ShortFields \subseteq Fields
<1>1. \A S : Texts(S) \subseteq Seq(S)
  <2> SUFFICES ASSUME NEW S, NEW n \in 1..MaxLen, NEW s \in [1..n -> S]
               PROVE  s \in Seq(S)
    BY DEF Texts
  <2> QED BY BoundAssumption
<1> QED BY <1>1, Zenon DEF ShortFields, Fields

\* Every signing of every message leaves what was signed with one reading:
\* the property that TLC checks on short texts, for texts of every length.
THEOREM OneReadingHolds == Spec => []OneReading
<1> DEFINE Inv == SealedType /\ SealedMessage
<1>1. Init => Inv
  BY DEF Init, SealedType, SealedMessage
<1>2. Inv /\ [Next]_sealed => Inv'
  <2> SUFFICES ASSUME SealedType, SealedMessage, [Next]_sealed
               PROVE  SealedType' /\ SealedMessage'
    BY DEF Inv
  <2>1. CASE UNCHANGED sealed
    BY <2>1 DEF SealedType, SealedMessage
  <2>2. ASSUME NEW f \in ShortFields, Seal(f)
        PROVE  SealedType' /\ SealedMessage'
    <3> DEFINE msg == Message(f.counter, f.data, f.last)
               new == [fields |-> f, message |-> msg]
               T == [fields : Fields, message : Messages]
    <3>1. f \in Fields
      BY ShortFieldsAreFields
    <3>2. msg \in Messages
      BY <3>1, Zenon DEF Messages
    <3>3. sealed \in Seq(T) /\ new \in T
      BY <3>1, <3>2 DEF SealedType
    <3>4. sealed' = Append(sealed, new)
      BY <2>2 DEF Seal
    <3>5. new.fields = f /\ new.message = msg
      OBVIOUS
    <3> HIDE DEF new, T, msg
    <3>6. sealed' \in Seq(T)
      BY <3>3, <3>4
    <3>7. /\ DOMAIN sealed' = 1..Len(sealed) + 1
          /\ \A i \in 1..Len(sealed) : i \in DOMAIN sealed /\ sealed'[i] = sealed[i]
          /\ sealed'[Len(sealed) + 1] = new
          /\ Len(sealed) \in Nat
      BY <3>3, <3>4
    <3>8. SealedMessage'
      <4> SUFFICES ASSUME NEW i \in DOMAIN sealed'
                   PROVE  sealed'[i].message =
                            Message(sealed'[i].fields.counter, sealed'[i].fields.data,
                                    sealed'[i].fields.last)
        BY DEF SealedMessage
      <4>1. CASE i \in 1..Len(sealed)
        BY <4>1, <3>7, Zenon DEF SealedMessage
      <4>2. CASE i = Len(sealed) + 1
        BY <4>2, <3>5, <3>7, Zenon DEF msg
      <4> QED BY <4>1, <4>2, <3>7
    <3> QED BY <3>6, <3>8 DEF SealedType, T
  <2> QED BY <2>1, <2>2 DEF Next
<1>3. Inv => OneReading
  <2> SUFFICES ASSUME SealedType, SealedMessage,
                      NEW i \in DOMAIN sealed, NEW j \in DOMAIN sealed,
                      sealed[i].message = sealed[j].message
               PROVE  sealed[i].fields = sealed[j].fields
    BY DEF Inv, OneReading
  <2>1. sealed[i].fields \in Fields /\ sealed[j].fields \in Fields
    <3> DEFINE T == [fields : Fields, message : Messages]
    <3>1. \A t \in T : t.fields \in Fields
      OBVIOUS
    <3>2. sealed \in Seq(T)
      BY DEF SealedType
    <3> HIDE DEF T
    <3>3. sealed[i] \in T /\ sealed[j] \in T
      BY <3>2
    <3> QED BY <3>1, <3>3
  <2>2. Message(sealed[i].fields.counter, sealed[i].fields.data, sealed[i].fields.last)
          = Message(sealed[j].fields.counter, sealed[j].fields.data, sealed[j].fields.last)
    BY Zenon DEF SealedMessage
  <2> QED BY <2>1, <2>2, MessageHasOneReading, Zenon
<1> QED BY <1>1, <1>2, <1>3, PTL DEF Spec
=============================================================================
