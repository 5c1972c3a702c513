---------------------------- MODULE SecuredData ----------------------------
(***************************************************************************)
(* The message a device signs: the counter, the client's data and the last *)
(* signature, joined by underscores.  A verifier gets it as signed_data    *)
(* and has nothing else to tell it what was signed, while the data is any  *)
(* text the client chooses.  A text is a sequence of characters here.      *)
(***************************************************************************)
EXTENDS Integers, Sequences

CONSTANTS Char,      \* the characters of the client's data
          Digit,     \* those of a counter in decimal, the minus sign included
          Base64,    \* those of the standard base64 alphabet, padding included
          MaxLen,    \* bound on the lengths of the texts that are enumerated
          MaxSealed  \* bound on the number of messages that are compared

Separator == "_"

ASSUME AlphabetAssumption == Separator \notin Digit /\ Separator \notin Base64
ASSUME BoundAssumption == MaxLen \in Nat /\ MaxSealed \in Nat

VARIABLE sealed   \* what was signed, each time with the message it made

\* Mutated form of Message: "%d_%s%s".
MessageUnseparated(counter, data, last) == counter \o <<Separator>> \o (data \o last)

\* "%d_%s_%s" of the counter, the data and the last signature in base64.
Message(counter, data, last) ==
  counter \o <<Separator>> \o (data \o <<Separator>> \o last)

\* What goes into a message.
Fields == [counter : Seq(Digit), data : Seq(Char), last : Seq(Base64)]

\* The texts that are enumerated; none of the three is ever empty.
Texts(S) == UNION {[1..n -> S] : n \in 1..MaxLen}
ShortFields == [counter : Texts(Digit), data : Texts(Char), last : Texts(Base64)]
-----------------------------------------------------------------------------
Init == sealed = << >>

\* Some device signs some message.
Seal(f) ==
  /\ Len(sealed) < MaxSealed
  /\ sealed' = Append(sealed,
       [fields |-> f, message |-> Message(f.counter, f.data, f.last)])

Next == \E f \in ShortFields : Seal(f)

Spec == Init /\ [][Next]_sealed

\* A message can be read in one way only: however the client chooses its data,
\* no two signings with different counters, data or last signatures sign the
\* same text, so that signed_data tells what was signed.
OneReading ==
  \A i, j \in DOMAIN sealed :
    sealed[i].message = sealed[j].message => sealed[i].fields = sealed[j].fields
=============================================================================
