---------------------------- MODULE ClientProofs ----------------------------
(***************************************************************************)
(* Every answer a caller gets is the answer to its own command, for every   *)
(* number of callers and commands and whatever lines the replies hold.      *)
(* Nothing numbers the replies on the channel: the argument is that at most *)
(* one command is on its way through tmux, the stream, the parser and the   *)
(* channel (Pipe), and that nobody writes while one is (Quiet).             *)
(***************************************************************************)
EXTENDS ControlClient, Integers, SequenceTheorems, FiniteSetTheorems, TLAPS

(* tmux's reply to the command written last. *)
Answer == said[Sent + 1]

Junk == {"notice", "exit"}

(* The i-th of the lines that frame an answer, from 0. *)
Token(a, i) ==
    IF i = 0 THEN [kind |-> "begin", num |-> a.of]
    ELSE IF i <= Len(a.lines) THEN Plain(a.lines[i])
    ELSE [kind |-> IF a.err THEN "error" ELSE "end", num |-> a.of]

(* The stream holds nothing of an answer. *)
Clear(w) == \A j \in 1..Len(w) : w[j].kind \in Junk

(* The stream holds an answer of which `o` lines have been read, or to      *)
(* which -o lines are still to go.                                          *)
Holds(w, a, o) ==
    \A j \in 1..Len(w) :
        IF j + o \in 0..(Len(a.lines) + 1)
        THEN w[j] = Token(a, j + o)
        ELSE w[j].kind \in Junk

(* What the parser makes of an answer. *)
Parsing(a) == [of |-> a.of, lines |-> Heard(a.lines), err |-> a.err]

Unanswered ==
    /\ Len(inbox) <= 1 /\ replies = <<>>
    /\ parser = "outside" /\ Clear(wire)

OnItsWay(o) ==
    /\ inbox = <<>> /\ replies = <<>> /\ Answer.of = Sent
    /\ o <= Len(Answer.lines) /\ Holds(wire, Answer, o)
    /\ tmux = "alive" => Len(wire) + o > Len(Answer.lines)
    /\ parser = IF o < 0 THEN "outside" ELSE "inside"
    /\ o >= 0 => block = Sent /\ body = HeardUpTo(Answer.lines)[o]

Delivered ==
    /\ inbox = <<>> /\ Answer.of = Sent /\ replies = <<Parsing(Answer)>>

Pipe ==
    IF parser = "ended" THEN replies = <<>> \/ Delivered
    ELSE \/ Unanswered
         \/ \E o \in Int : OnItsWay(o)
         \/ Delivered /\ parser = "outside" /\ Clear(wire)

(* No answer is on its way, nor will come. *)
Quiet ==
    /\ replies = <<>>
    /\ parser # "ended" => parser = "outside" /\ Clear(wire) /\ inbox = <<>>

(* What tmux has not answered are the last commands written, in order. *)
InOrder ==
    /\ Len(inbox) <= Sent + 1
    /\ \A i \in 1..Len(inbox) : inbox[i] = Sent - Len(inbox) + i

Queue == {q \in Callers : pc[q] \in {"lock", "check", "write"}}

Waiting == \E c \in Callers : pc[c] = "next"

Callings ==
    /\ dial # "up" => \A c \in Callers : pc[c] = "idle"
    /\ dial = "up" /\ ~desynced /\ ~Waiting => Quiet
    /\ \A c \in Callers :
          /\ pc[c] = "write" => ~desynced
          /\ pc[c] = "next" => asked[c] = Sent
          /\ (pc[c] = "idle" /\ got[c].how = "answer") =>
                /\ asked[c] + Len(inbox) <= Sent
                /\ got[c].reply = Parsing(said[asked[c] + 1])

ClientInv ==
    /\ CTypeOK /\ Pipe /\ InOrder /\ Callings
    /\ IsFiniteSet(Queue) /\ Sent + Cardinality(Queue) <= MaxSent
    /\ \A c \in Callers : asked[c] <= Sent

-----------------------------------------------------------------------------
(* What is heard of a reply *)

LEMMA Smallest ==
  ASSUME NEW S, S \subseteq Nat, S # {}
  PROVE  \E n \in S : \A m \in S : n <= m
<1>1. PICK n \in S : \A m \in S : <<m, n>> \notin OpToRel(<, Nat)
  BY NatLessThanWellFounded, WFMin
<1>2. ASSUME NEW m \in S PROVE n <= m
  <2>1. m \in Nat /\ n \in Nat /\ <<m, n>> \in Nat \X Nat
    OBVIOUS
  <2> QED BY <1>1, <2>1 DEF OpToRel
<1> QED BY <1>2

(* One line more of a reply is added to what was heard before, or is not.   *)
HeardNext(f, lines, i) ==
    IF lines[i] = "notice" THEN f[i - 1] ELSE Append(f[i - 1], lines[i])

HeardBy(f, lines, n) ==
    f = [i \in 0..n |-> IF i = 0 THEN <<>> ELSE HeardNext(f, lines, i)]

LEMMA HeardExists ==
  ASSUME NEW lines, NEW n \in Nat
  PROVE  \E f : HeardBy(f, lines, n)
<1> DEFINE Bad == {k \in Nat : ~\E f : HeardBy(f, lines, k)}
<1> SUFFICES ASSUME Bad # {} PROVE FALSE
  OBVIOUS
<1>1. PICK k \in Bad : \A m \in Bad : k <= m
  <2>1. Bad \subseteq Nat
    OBVIOUS
  <2> HIDE DEF Bad
  <2> QED BY <2>1, Smallest
<1>2. k # 0
  <2>1. HeardBy([i \in 0..0 |-> <<>>], lines, 0)
    BY DEF HeardBy
  <2> QED BY <1>1, <2>1
<1>3. k \in Nat /\ k - 1 \in Nat /\ k - 1 < k
  BY <1>2
<1>4. PICK f : HeardBy(f, lines, k - 1)
  <2>1. k - 1 \notin Bad
    BY <1>1, <1>3
  <2> QED BY <1>3, <2>1
<1> DEFINE g == [i \in 0..k |-> IF i = k THEN HeardNext(f, lines, k) ELSE f[i]]
<1>5. HeardBy(g, lines, k)
  <2>1. ASSUME NEW i \in 0..k PROVE g[i] = IF i = 0 THEN <<>> ELSE HeardNext(g, lines, i)
    <3>1. CASE i = k
      <4>1. k - 1 \in 0..k /\ k - 1 # k /\ k \in 0..k
        BY <1>3
      <4>2. g[k - 1] = f[k - 1] /\ g[k] = HeardNext(f, lines, k)
        BY <4>1
      <4> QED BY <1>2, <3>1, <4>2 DEF HeardNext
    <3>2. CASE i # k
      <4>1. i \in 0..(k - 1) /\ g[i] = f[i]
        BY <1>3, <3>2
      <4>2. f[i] = IF i = 0 THEN <<>> ELSE HeardNext(f, lines, i)
        BY <1>4, <4>1 DEF HeardBy
      <4>3. CASE i = 0
        BY <4>1, <4>2, <4>3
      <4>4. CASE i # 0
        <5>1. i - 1 \in 0..k /\ i - 1 # k
          BY <1>3, <4>1, <4>4
        <5>2. g[i - 1] = f[i - 1]
          BY <5>1
        <5> QED BY <4>1, <4>2, <4>4, <5>2 DEF HeardNext
      <4> QED BY <4>3, <4>4
    <3> QED BY <3>1, <3>2
  <2> QED BY <2>1 DEF HeardBy
<1> HIDE DEF g
<1> QED BY <1>1, <1>5

LEMMA HeardStep ==
  ASSUME NEW lines \in Seq(Lines)
  PROVE  /\ HeardUpTo(lines)[0] = <<>>
         /\ \A i \in 1..Len(lines) :
               HeardUpTo(lines)[i] = HeardNext(HeardUpTo(lines), lines, i)
<1>1. Len(lines) \in Nat
  BY LenProperties
<1>2. HeardBy(HeardUpTo(lines), lines, Len(lines))
  <2>1. \E f : HeardBy(f, lines, Len(lines))
    BY <1>1, HeardExists
  <2> QED BY <2>1 DEF HeardUpTo, HeardBy, HeardNext
<1> QED BY <1>1, <1>2 DEF HeardBy

-----------------------------------------------------------------------------
(* What the stream holds as it grows and is read *)

LEMMA PrintedTypes ==
  /\ \A kind \in Lines \cup {"exit"} : Plain(kind) \in Printed
  /\ \A k \in {"begin", "end", "error"}, n \in Numbers : [kind |-> k, num |-> n] \in Printed
  BY ClientAssumption DEF Plain, Printed, Numbers

LEMMA FramedTokens ==
  ASSUME NEW a \in Reply
  PROVE  /\ Framed(a.of, a.lines, a.err) \in Seq(Printed)
         /\ Len(Framed(a.of, a.lines, a.err)) = Len(a.lines) + 2
         /\ \A i \in 1..(Len(a.lines) + 2) :
               Framed(a.of, a.lines, a.err)[i] = Token(a, i - 1)
<1> DEFINE first == <<[kind |-> "begin", num |-> a.of]>>
           inner == [i \in DOMAIN a.lines |-> Plain(a.lines[i])]
           final == <<[kind |-> IF a.err THEN "error" ELSE "end", num |-> a.of]>>
<1>a. a.of \in Numbers /\ a.lines \in Seq(Lines) /\ a.err \in BOOLEAN
  BY DEF Reply
<1>1. first \in Seq(Printed) /\ Len(first) = 1 /\ first[1] = Token(a, 0)
  BY <1>a, PrintedTypes DEF Token
<1>2. final \in Seq(Printed) /\ Len(final) = 1 /\ final[1] = Token(a, Len(a.lines) + 1)
  <2>1. Len(a.lines) \in Nat
    BY <1>a, LenProperties
  <2>2. (IF a.err THEN "error" ELSE "end") \in {"begin", "end", "error"}
    OBVIOUS
  <2>3. final \in Seq(Printed) /\ Len(final) = 1
    BY <1>a, <2>2, PrintedTypes
  <2>4. final[1] = [kind |-> IF a.err THEN "error" ELSE "end", num |-> a.of]
    OBVIOUS
  <2> QED BY <2>1, <2>3, <2>4 DEF Token
<1>3. /\ inner \in Seq(Printed) /\ Len(inner) = Len(a.lines)
      /\ \A i \in 1..Len(a.lines) : inner[i] = Token(a, i)
  <2>1. Len(a.lines) \in Nat /\ DOMAIN a.lines = 1..Len(a.lines)
        /\ \A i \in 1..Len(a.lines) : a.lines[i] \in Lines
    BY <1>a, LenProperties, ElementOfSeq
  <2>2. \A i \in 1..Len(a.lines) : Plain(a.lines[i]) \in Printed
    BY <2>1, PrintedTypes
  <2>3. inner \in [1..Len(a.lines) -> Printed]
    BY <2>1, <2>2
  <2>4. inner \in Seq(Printed) /\ Len(inner) = Len(a.lines)
    BY <2>1, <2>3
  <2> QED BY <2>1, <2>4 DEF Token
<1> HIDE DEF first, inner, final
<1>4. PICK n \in Nat : n = Len(a.lines)
  BY <1>a, LenProperties
<1>5. /\ first \o inner \in Seq(Printed) /\ Len(first \o inner) = n + 1
      /\ \A i \in 1..(n + 1) : (first \o inner)[i] = Token(a, i - 1)
  <2>1. /\ first \o inner \in Seq(Printed) /\ Len(first \o inner) = 1 + n
        /\ \A i \in 1..1 : (first \o inner)[i] = first[i]
        /\ \A i \in 1..n : (first \o inner)[1 + i] = inner[i]
    <3>1. PICK one \in Nat : one = 1
      OBVIOUS
    <3>2. Len(first) = one /\ Len(inner) = n
      BY <1>1, <1>3, <1>4, <3>1
    <3>3. /\ first \o inner \in Seq(Printed) /\ Len(first \o inner) = one + n
          /\ \A i \in 1..(one + n) :
                (first \o inner)[i] = IF i <= one THEN first[i] ELSE inner[i - one]
      <4>1. first \in Seq(Printed) /\ inner \in Seq(Printed)
        BY <1>1, <1>3
      <4> QED BY <3>2, <4>1, ConcatProperties
    <3>4. ASSUME NEW i \in 1..n PROVE (first \o inner)[1 + i] = inner[i]
      <4>1. 1 + i \in 1..(one + n) /\ ~(1 + i <= one) /\ (1 + i) - one = i
        BY <3>1
      <4> QED BY <3>3, <4>1
    <3> QED BY <3>1, <3>3, <3>4, SMTT(30)
  <2>2. ASSUME NEW i \in 1..(n + 1) PROVE (first \o inner)[i] = Token(a, i - 1)
    <3>1. CASE i = 1
      BY <1>1, <2>1, <3>1
    <3>2. CASE i # 1
      <4>1. i - 1 \in 1..n /\ 1 + (i - 1) = i
        BY <3>2
      <4>2. (first \o inner)[1 + (i - 1)] = inner[i - 1]
        BY <2>1, <4>1
      <4> QED BY <1>3, <1>4, <4>1, <4>2
    <3> QED BY <3>1, <3>2
  <2> QED BY <2>1, <2>2
<1>6. /\ (first \o inner) \o final \in Seq(Printed)
      /\ Len((first \o inner) \o final) = n + 2
      /\ \A i \in 1..(n + 2) : ((first \o inner) \o final)[i] = Token(a, i - 1)
  <2> DEFINE head == first \o inner
  <2>a. /\ head \in Seq(Printed) /\ Len(head) = n + 1 /\ n + 1 \in Nat
        /\ \A i \in 1..(n + 1) : head[i] = Token(a, i - 1)
    BY <1>5
  <2> HIDE DEF head
  <2>1. /\ head \o final \in Seq(Printed) /\ Len(head \o final) = (n + 1) + 1
        /\ \A i \in 1..(n + 1) : (head \o final)[i] = head[i]
        /\ \A i \in 1..1 : (head \o final)[(n + 1) + i] = final[i]
    <3>1. PICK m \in Nat, one \in Nat : m = n + 1 /\ one = 1
      OBVIOUS
    <3>2. Len(head) = m /\ Len(final) = one
      BY <1>2, <2>a, <3>1
    <3>3. /\ head \o final \in Seq(Printed) /\ Len(head \o final) = m + one
          /\ \A i \in 1..(m + one) :
                (head \o final)[i] = IF i <= m THEN head[i] ELSE final[i - m]
      BY <1>2, <2>a, <3>2, ConcatProperties
    <3>4. (head \o final)[m + 1] = final[1]
      <4>1. m + 1 \in 1..(m + one) /\ ~(m + 1 <= m) /\ (m + 1) - m = 1
        BY <3>1
      <4> QED BY <3>3, <4>1
    <3> QED BY <3>1, <3>3, <3>4
  <2>2. ASSUME NEW i \in 1..(n + 2) PROVE (head \o final)[i] = Token(a, i - 1)
    <3>1. CASE i = n + 2
      <4>1. (head \o final)[(n + 1) + 1] = final[1]
        BY <2>1
      <4>2. (n + 1) + 1 = i /\ n + 1 = i - 1
        BY <3>1
      <4> QED BY <1>2, <1>4, <4>1, <4>2
    <3>2. CASE i # n + 2
      <4>1. i \in 1..(n + 1)
        BY <3>2
      <4> QED BY <2>a, <2>1, <4>1
    <3> QED BY <3>1, <3>2
  <2>3. (n + 1) + 1 = n + 2
    OBVIOUS
  <2> QED BY <2>1, <2>2, <2>3 DEF head
<1> QED BY <1>4, <1>6 DEF Framed, first, inner, final

LEMMA AnswerPrinted ==
  ASSUME NEW w \in Seq(Printed), NEW a \in Reply
  PROVE  /\ w \o Framed(a.of, a.lines, a.err) \in Seq(Printed)
         /\ Len(w \o Framed(a.of, a.lines, a.err)) - Len(w) - 1 = Len(a.lines) + 1
         /\ Clear(w) => Holds(w \o Framed(a.of, a.lines, a.err), a, 0 - Len(w) - 1)
<1> DEFINE f == Framed(a.of, a.lines, a.err)
<1>1. /\ f \in Seq(Printed) /\ Len(f) = Len(a.lines) + 2
      /\ \A i \in 1..(Len(a.lines) + 2) : f[i] = Token(a, i - 1)
  BY FramedTokens
<1>2. PICK n \in Nat, m \in Nat : n = Len(a.lines) /\ m = Len(w)
  BY LenProperties DEF Reply
<1> HIDE DEF f
<1>3. /\ w \o f \in Seq(Printed) /\ Len(w \o f) = m + (n + 2)
      /\ \A j \in 1..m : (w \o f)[j] = w[j]
      /\ \A j \in 1..(n + 2) : (w \o f)[m + j] = f[j]
  <2>1. PICK k \in Nat : k = n + 2
    OBVIOUS
  <2>2. Len(f) = k /\ Len(w) = m
    BY <1>1, <1>2, <2>1
  <2>3. /\ w \o f \in Seq(Printed) /\ Len(w \o f) = m + k
        /\ \A j \in 1..(m + k) : (w \o f)[j] = IF j <= m THEN w[j] ELSE f[j - m]
    BY <1>1, <2>2, ConcatProperties
  <2>4. ASSUME NEW j \in 1..k PROVE (w \o f)[m + j] = f[j]
    <3>1. m + j \in 1..(m + k) /\ ~(m + j <= m) /\ (m + j) - m = j
      OBVIOUS
    <3> QED BY <2>3, <3>1
  <2> QED BY <2>1, <2>3, <2>4, SMTT(30)
<1>4. ASSUME Clear(w) PROVE Holds(w \o f, a, 0 - m - 1)
  <2> SUFFICES ASSUME NEW j \in 1..(m + (n + 2))
               PROVE  IF j + (0 - m - 1) \in 0..(n + 1)
                      THEN (w \o f)[j] = Token(a, j + (0 - m - 1))
                      ELSE (w \o f)[j].kind \in Junk
    BY <1>2, <1>3 DEF Holds
  <2>1. CASE j <= m
    <3>1. j \in 1..m /\ j + (0 - m - 1) \notin 0..(n + 1)
      BY <2>1
    <3> QED BY <1>2, <1>3, <1>4, <3>1 DEF Clear
  <2>2. CASE ~(j <= m)
    <3>1. PICK i \in 1..(n + 2) : m + i = j /\ j + (0 - m - 1) = i - 1
      <4>1. j - m \in 1..(n + 2) /\ m + (j - m) = j /\ j + (0 - m - 1) = (j - m) - 1
        BY <2>2
      <4> QED BY <4>1
    <3>2. (w \o f)[j] = Token(a, i - 1)
      BY <1>1, <1>2, <1>3, <3>1
    <3>3. j + (0 - m - 1) \in 0..(n + 1)
      BY <3>1
    <3> QED BY <3>1, <3>2, <3>3
  <2> QED BY <2>1, <2>2
<1>5. (m + (n + 2)) - m - 1 = n + 1
  OBVIOUS
<1> QED BY <1>2, <1>3, <1>4, <1>5 DEF f

LEMMA JunkPrinted ==
  ASSUME NEW w \in Seq(Printed), NEW k \in Junk
  PROVE  /\ Append(w, Plain(k)) \in Seq(Printed)
         /\ Clear(w) => Clear(Append(w, Plain(k)))
         /\ \A a \in Reply, o \in Int : (Holds(w, a, o) /\ Len(w) + o > Len(a.lines)) =>
               /\ Holds(Append(w, Plain(k)), a, o)
               /\ Len(Append(w, Plain(k))) + o > Len(a.lines)
<1>1. Plain(k) \in Printed /\ Plain(k).kind = k
  BY PrintedTypes DEF Junk, Plain, Lines
<1>2. /\ Append(w, Plain(k)) \in Seq(Printed) /\ Len(w) \in Nat
      /\ Len(Append(w, Plain(k))) = Len(w) + 1
      /\ \A j \in 1..Len(w) : Append(w, Plain(k))[j] = w[j]
      /\ Append(w, Plain(k))[Len(w) + 1] = Plain(k)
  BY <1>1, AppendProperties, LenProperties
<1>3. Clear(w) => Clear(Append(w, Plain(k)))
  BY <1>1, <1>2 DEF Clear
<1>4. ASSUME NEW a \in Reply, NEW o \in Int, Holds(w, a, o), Len(w) + o > Len(a.lines)
      PROVE  /\ Holds(Append(w, Plain(k)), a, o)
             /\ Len(Append(w, Plain(k))) + o > Len(a.lines)
  <2>1. Len(a.lines) \in Nat
    BY LenProperties DEF Reply
  <2>2. ASSUME NEW j \in 1..(Len(w) + 1)
        PROVE  IF j + o \in 0..(Len(a.lines) + 1)
               THEN Append(w, Plain(k))[j] = Token(a, j + o)
               ELSE Append(w, Plain(k))[j].kind \in Junk
    <3>1. CASE j = Len(w) + 1
      BY <1>1, <1>2, <1>4, <2>1, <3>1
    <3>2. CASE j # Len(w) + 1
      <4>1. j \in 1..Len(w)
        BY <1>2, <3>2
      <4> QED BY <1>2, <1>4, <4>1 DEF Holds
    <3> QED BY <3>1, <3>2
  <2> QED BY <1>2, <1>4, <2>1, <2>2 DEF Holds
<1> QED BY <1>2, <1>3, <1>4


LEMMA Cut ==
  ASSUME NEW w \in Seq(Printed), NEW n \in 0..Len(w)
  PROVE  /\ SubSeq(w, 1, n) \in Seq(Printed)
         /\ Clear(w) => Clear(SubSeq(w, 1, n))
         /\ \A a, o : Holds(w, a, o) => Holds(SubSeq(w, 1, n), a, o)
<1>1. PICK m \in Nat : m = Len(w) /\ n \in Nat /\ n <= m
  BY LenProperties
<1>2. /\ SubSeq(w, 1, n) \in Seq(Printed) /\ Len(SubSeq(w, 1, n)) = n
      /\ \A i \in 1..n : SubSeq(w, 1, n)[i] = w[i] /\ i \in 1..m
  BY <1>1, SubSeqProperties
<1> QED BY <1>1, <1>2 DEF Clear, Holds

LEMMA Popped ==
  ASSUME NEW w \in Seq(Printed), w # <<>>
  PROVE  /\ Tail(w) \in Seq(Printed) /\ Head(w) \in Printed
         /\ Clear(w) => Head(w).kind \in Junk /\ Clear(Tail(w))
         /\ \A a \in Reply, o \in Int : Holds(w, a, o) =>
               /\ Holds(Tail(w), a, o + 1)
               /\ IF o + 1 \in 0..(Len(a.lines) + 1)
                  THEN Head(w) = Token(a, o + 1)
                  ELSE Head(w).kind \in Junk
               /\ Len(w) + o > Len(a.lines) => Len(Tail(w)) + (o + 1) > Len(a.lines)
               /\ o = Len(a.lines) => Clear(Tail(w))
<1>1. PICK m \in Nat : m + 1 = Len(w)
  <2>1. PICK k \in Nat : k = Len(w) /\ k # 0
    BY LenProperties, EmptySeq
  <2>2. k - 1 \in Nat /\ (k - 1) + 1 = k
    BY <2>1
  <2> QED BY <2>1, <2>2
<1>2. /\ Tail(w) \in Seq(Printed) /\ Head(w) = w[1] /\ Len(Tail(w)) = m
      /\ \A i \in 1..m : Tail(w)[i] = w[i + 1]
  BY <1>1, HeadTailProperties
<1>3. /\ 1 \in 1..(m + 1) /\ w[1] \in Printed
      /\ \A i \in 1..m : i + 1 \in 1..(m + 1)
  <2>1. 1 \in 1..(m + 1) /\ \A i \in 1..m : i + 1 \in 1..(m + 1)
    OBVIOUS
  <2>2. w[1] \in Printed
    BY <1>1, <2>1, ElementOfSeq
  <2> QED BY <2>1, <2>2
<1>4. Clear(w) => Head(w).kind \in Junk /\ Clear(Tail(w))
  BY <1>1, <1>2, <1>3 DEF Clear
<1>5. ASSUME NEW a \in Reply, NEW o \in Int, Holds(w, a, o)
      PROVE  /\ Holds(Tail(w), a, o + 1)
             /\ IF o + 1 \in 0..(Len(a.lines) + 1)
                THEN Head(w) = Token(a, o + 1)
                ELSE Head(w).kind \in Junk
             /\ Len(w) + o > Len(a.lines) => Len(Tail(w)) + (o + 1) > Len(a.lines)
             /\ o = Len(a.lines) => Clear(Tail(w))
  <2>1. PICK n \in Nat : n = Len(a.lines)
    BY LenProperties DEF Reply
  <2>2. \A j \in 1..(m + 1) : IF j + o \in 0..(n + 1) THEN w[j] = Token(a, j + o)
                              ELSE w[j].kind \in Junk
    BY <1>1, <1>5, <2>1 DEF Holds
  <2>3. IF o + 1 \in 0..(n + 1) THEN Head(w) = Token(a, o + 1) ELSE Head(w).kind \in Junk
    <3>1. 1 + o = o + 1
      OBVIOUS
    <3> QED BY <1>2, <1>3, <2>2, <3>1
  <2>4. ASSUME NEW j \in 1..m
        PROVE  IF j + (o + 1) \in 0..(n + 1) THEN Tail(w)[j] = Token(a, j + (o + 1))
               ELSE Tail(w)[j].kind \in Junk
    <3>1. PICK i \in 1..(m + 1) : i = j + 1
      BY <1>3
    <3>2. i + o = j + (o + 1) /\ Tail(w)[j] = w[i]
      BY <1>2, <3>1
    <3> QED BY <2>2, <3>2
  <2>5. m + 1 + o > n => m + (o + 1) > n
    OBVIOUS
  <2>6. o = n => \A j \in 1..m : Tail(w)[j].kind \in Junk
    <3> SUFFICES ASSUME o = n, NEW j \in 1..m PROVE Tail(w)[j].kind \in Junk
      OBVIOUS
    <3>1. j + (o + 1) \notin 0..(n + 1)
      OBVIOUS
    <3> QED BY <2>4, <3>1
  <2> QED BY <1>1, <1>2, <2>1, <2>3, <2>4, <2>5, <2>6 DEF Holds, Clear
<1> QED BY <1>2, <1>3, <1>4, <1>5


LEMMA TokenKinds ==
  ASSUME NEW a \in Reply, NEW i \in 0..(Len(a.lines) + 1)
  PROVE  /\ i = 0 => Token(a, i).kind = "begin" /\ Token(a, i).num = a.of
         /\ i \in 1..Len(a.lines) => /\ Token(a, i).kind = a.lines[i]
                                     /\ a.lines[i] \in Lines
         /\ i = Len(a.lines) + 1 =>
               /\ Token(a, i).kind = (IF a.err THEN "error" ELSE "end")
               /\ Token(a, i).num = a.of
<1>1. PICK n \in Nat : n = Len(a.lines) /\ a.lines \in Seq(Lines)
  BY LenProperties DEF Reply
<1>2. CASE i = 0
  BY <1>1, <1>2 DEF Token
<1>3. CASE i \in 1..n
  <2>1. i # 0 /\ i <= n /\ i # n + 1 /\ a.lines[i] \in Lines
    BY <1>1, <1>3, ElementOfSeq
  <2> QED BY <1>1, <2>1 DEF Token, Plain
<1>4. CASE i = n + 1
  <2>1. i # 0 /\ ~(i <= n)
    BY <1>4
  <2> QED BY <1>1, <2>1 DEF Token
<1> QED BY <1>1, <1>2, <1>3, <1>4

-----------------------------------------------------------------------------
(* Steps *)

LEMMA Basics ==
  ASSUME CTypeOK
  PROVE  /\ Sent \in Nat /\ MaxSent \in Nat /\ Sent <= MaxSent /\ Sent + 1 = Len(said)
         /\ Sent \in Numbers /\ Answer \in Reply
         /\ Answer.lines \in Seq(Lines) /\ Len(Answer.lines) \in Nat
         /\ Len(inbox) \in Nat /\ Len(wire) \in Nat /\ Len(replies) \in Nat
<1>1. PICK n \in Nat : n + 1 = Len(said) /\ n <= MaxSent /\ MaxSent \in Nat
  <2>1. PICK k \in 1..(MaxSent + 1) : k = Len(said) /\ MaxSent \in Nat
    BY ClientAssumption DEF CTypeOK
  <2>2. k - 1 \in Nat /\ (k - 1) + 1 = k /\ k - 1 <= MaxSent
    BY <2>1
  <2> QED BY <2>1, <2>2
<1>2. n = Sent
  BY <1>1 DEF Sent
<1>3. n + 1 \in 1..Len(said)
  BY <1>1
<1>4. said[n + 1] \in Reply
  BY <1>3, ElementOfSeq DEF CTypeOK
<1> QED BY <1>1, <1>2, <1>4, LenProperties DEF CTypeOK, Answer, Numbers, Reply

(* The line the parser looks at inside a block is of the answer to the last *)
(* command, and closes the block only where that ends.                      *)
LEMMA Inside ==
  ASSUME ClientInv, parser = "inside"
  PROVE  /\ replies = <<>>
         /\ \E o \in 0..Len(Answer.lines) :
               /\ OnItsWay(o)
               /\ wire # <<>> /\ o = Len(Answer.lines) =>
                     /\ Closes(Head(wire)) /\ (Head(wire).kind = "error") = Answer.err
               /\ wire # <<>> /\ o # Len(Answer.lines) =>
                     /\ ~Closes(Head(wire))
                     /\ o + 1 \in 1..Len(Answer.lines)
                     /\ Head(wire).kind = Answer.lines[o + 1] /\ Head(wire).kind \in Lines
<1>a. /\ CTypeOK /\ Answer \in Reply /\ wire \in Seq(Printed) /\ Answer.err \in BOOLEAN
      /\ Answer.of \in Numbers
  BY Basics DEF ClientInv, CTypeOK, Reply
<1>1. PICK o \in Int : OnItsWay(o)
  BY DEF ClientInv, Pipe, Unanswered
<1>2. PICK n \in Nat : n = Len(Answer.lines)
  BY <1>a, Basics
<1>3. o \in 0..n /\ replies = <<>> /\ block = Sent /\ Answer.of = Sent
  BY <1>1, <1>2 DEF OnItsWay
<1>4. ASSUME wire # <<>> PROVE o + 1 \in 0..(n + 1) /\ Head(wire) = Token(Answer, o + 1)
  <2>1. o + 1 \in 0..(n + 1)
    BY <1>3
  <2>2. Holds(wire, Answer, o)
    BY <1>1 DEF OnItsWay
  <2> QED BY <1>a, <1>2, <1>4, <2>1, <2>2, Popped
<1>5. ASSUME wire # <<>>, o = n
      PROVE  Closes(Head(wire)) /\ (Head(wire).kind = "error") = Answer.err
  BY <1>a, <1>2, <1>3, <1>4, <1>5, TokenKinds DEF Closes
<1>6. ASSUME wire # <<>>, o # n
      PROVE  /\ ~Closes(Head(wire))
             /\ o + 1 \in 1..n
             /\ Head(wire).kind = Answer.lines[o + 1] /\ Head(wire).kind \in Lines
  <2>1. o + 1 \in 1..n
    BY <1>3, <1>6
  <2> QED BY <1>a, <1>2, <1>4, <1>6, <2>1, TokenKinds DEF Closes, Lines
<1> QED BY <1>1, <1>2, <1>3, <1>5, <1>6

LEMMA AnswerStep ==
  ASSUME ClientInv, TmuxAnswers
  PROVE  \E a \in Reply :
            /\ Head(inbox) \in Numbers
            /\ a.of = Head(inbox) /\ a.of + Len(inbox) = Sent + 1
            /\ a.of + 1 \in 1..Len(said)
            /\ wire' = wire \o Framed(a.of, a.lines, a.err)
            /\ said' = [said EXCEPT ![a.of + 1] = a]
            /\ Len(said') = Len(said) /\ said' \in Seq(Reply)
            /\ \A i \in 1..Len(said) : said'[i] = IF i = a.of + 1 THEN a ELSE said[i]
            /\ inbox' = Tail(inbox) /\ inbox' \in Seq(Numbers)
            /\ Len(inbox') = Len(inbox) - 1
            /\ \A i \in 1..Len(inbox') : inbox'[i] = inbox[i + 1]
<1>a. CTypeOK /\ InOrder /\ inbox \in Seq(Numbers) /\ said \in Seq(Reply) /\ inbox # <<>>
  BY DEF ClientInv, CTypeOK, TmuxAnswers
<1>1. PICK lines \in Bodies, err \in BOOLEAN :
         /\ wire' = wire \o Framed(Head(inbox), lines, err)
         /\ said' = [said EXCEPT ![Head(inbox) + 1] =
                         [of |-> Head(inbox), lines |-> lines, err |-> err]]
  BY DEF TmuxAnswers
<1> DEFINE a == [of |-> Head(inbox), lines |-> lines, err |-> err]
<1>2. PICK m \in Nat : m = Len(inbox) /\ m # 0
  BY <1>a, LenProperties, EmptySeq
<1>3. Head(inbox) = inbox[1] /\ 1 \in 1..m /\ inbox[1] \in Numbers
  BY <1>a, <1>2, HeadTailProperties, ElementOfSeq
<1>4. a \in Reply /\ a.of = Head(inbox) /\ a.lines = lines /\ a.err = err
  BY <1>3, ClientAssumption DEF Reply
<1>5. PICK n \in Nat : n = Sent /\ n + 1 = Len(said)
  BY <1>a, Basics
<1>6. a.of = n - m + 1 /\ m <= n + 1
  BY <1>a, <1>2, <1>3, <1>4, <1>5 DEF InOrder
<1>7. PICK k \in Nat : k = a.of /\ k + m = n + 1 /\ k + 1 \in 1..(n + 1)
  <2>1. a.of \in Nat
    BY <1>3, <1>4 DEF Numbers
  <2>2. a.of + m = n + 1 /\ a.of + 1 \in 1..(n + 1)
    BY <1>2, <1>6, <2>1
  <2> QED BY <2>1, <2>2
<1> HIDE DEF a
<1>8. said' = [said EXCEPT ![k + 1] = a]
  BY <1>1, <1>4, <1>7 DEF a
<1>9. /\ said' \in Seq(Reply) /\ Len(said') = Len(said)
      /\ \A i \in 1..Len(said) : said'[i] = IF i = k + 1 THEN a ELSE said[i]
  BY <1>a, <1>4, <1>5, <1>7, <1>8, ExceptSeq
<1>10. /\ inbox' = Tail(inbox) /\ inbox' \in Seq(Numbers) /\ Len(inbox') = m - 1
       /\ \A i \in 1..(m - 1) : inbox'[i] = inbox[i + 1]
  BY <1>a, <1>2, HeadTailProperties DEF TmuxAnswers
<1> QED BY <1>1, <1>2, <1>3, <1>4, <1>5, <1>7, <1>8, <1>9, <1>10


(* The callers on their way to a write. *)
LEMMA QueueShrinks ==
  ASSUME ClientInv, NEW c \in Queue
  PROVE  /\ IsFiniteSet(Queue \ {c})
         /\ Sent + 1 + Cardinality(Queue \ {c}) <= MaxSent
         /\ Sent + Cardinality(Queue \ {c}) <= MaxSent /\ Sent + 1 <= MaxSent
<1>1. IsFiniteSet(Queue) /\ Sent + Cardinality(Queue) <= MaxSent
  BY DEF ClientInv
<1>2. /\ IsFiniteSet(Queue \ {c})
      /\ Cardinality(Queue \ {c}) = Cardinality(Queue) - 1
  BY <1>1, FS_RemoveElement
<1>3. PICK k \in Nat, j \in Nat, n \in Nat, m \in Nat :
         /\ k = Cardinality(Queue) /\ j = Cardinality(Queue \ {c})
         /\ n = Sent /\ m = MaxSent
  BY <1>1, <1>2, FS_CardinalityType, Basics DEF ClientInv
<1> QED BY <1>1, <1>2, <1>3

LEMMA WriteStep ==
  ASSUME ClientInv, NEW c \in Callers, Write(c), tmux = "alive"
  PROVE  /\ Quiet /\ mu = c /\ ~desynced /\ c \in Queue
         /\ said' = Append(said, NotSaid) /\ said' \in Seq(Reply)
         /\ Len(said') = Len(said) + 1
         /\ Sent' = Sent + 1 /\ Sent + 1 \in Numbers
         /\ \A i \in 1..Len(said) : said'[i] = said[i]
         /\ inbox' = Append(inbox, Sent + 1) /\ inbox' \in Seq(Numbers)
         /\ Len(inbox') = Len(inbox) + 1
         /\ \A i \in 1..Len(inbox) : inbox'[i] = inbox[i]
         /\ inbox'[Len(inbox) + 1] = Sent + 1
<1>a. /\ CTypeOK /\ inbox \in Seq(Numbers) /\ said \in Seq(Reply)
      /\ pc \in [Callers -> {"idle", "lock", "check", "write", "next"}]
  BY DEF ClientInv, CTypeOK
<1>1. /\ pc[c] = "write" /\ mu = c /\ ~desynced /\ c \in Queue
      /\ dial = "up" /\ ~Waiting
  BY <1>a DEF Write, ClientInv, Callings, CTypeOK, Queue, Waiting
<1>2. Quiet
  BY <1>1 DEF ClientInv, Callings
<1>3. PICK n \in Nat : n = Sent /\ n + 1 = Len(said) /\ n + 1 <= MaxSent /\ MaxSent \in Nat
  BY <1>a, <1>1, Basics, QueueShrinks
<1>4. NotSaid \in Reply /\ n + 1 \in Numbers
  <2>1. 0 \in Numbers /\ n + 1 \in Numbers
    BY <1>3 DEF Numbers
  <2>2. <<>> \in Seq(Lines)
    OBVIOUS
  <2> QED BY <2>1, <2>2 DEF NotSaid, Reply
<1>5. said' = Append(said, NotSaid) /\ inbox' = Append(inbox, n + 1)
  BY <1>3 DEF Write
<1>6. /\ said' \in Seq(Reply) /\ Len(said') = Len(said) + 1
      /\ \A i \in 1..Len(said) : said'[i] = said[i]
  BY <1>a, <1>4, <1>5, AppendProperties
<1>7. /\ inbox' \in Seq(Numbers) /\ Len(inbox') = Len(inbox) + 1
      /\ \A i \in 1..Len(inbox) : inbox'[i] = inbox[i]
      /\ inbox'[Len(inbox) + 1] = n + 1
  BY <1>a, <1>4, <1>5, AppendProperties
<1>8. Sent' = Sent + 1
  <2>1. Len(said') = (n + 1) + 1
    BY <1>3, <1>6
  <2>2. Sent' = ((n + 1) + 1) - 1
    BY <2>1 DEF Sent
  <2> QED BY <1>3, <2>2
<1> QED BY <1>1, <1>2, <1>3, <1>4, <1>5, <1>6, <1>7, <1>8


(* The type of what the callers' own steps change. *)
CallerTypes ==
    /\ mu \in Callers \cup {NoCaller}
    /\ pc \in [Callers -> {"idle", "lock", "check", "write", "next"}]
    /\ \A c \in Callers : pc[c] \in {"check", "write", "next"} => mu = c
    /\ asked \in [Callers -> Numbers]
    /\ got \in [Callers -> [how : {"answer"} \cup Failures, reply : Reply]]

LEMMA ReturnTypes ==
  ASSUME CallerTypes, NEW c \in Callers, pc[c] \in {"check", "write", "next"},
         NEW how \in {"answer"} \cup Failures, NEW reply \in Reply,
         Returns(c, how, reply)
  PROVE  CallerTypes'
  BY ClientAssumption DEF CallerTypes, Returns

LEMMA CallerTypesStep ==
  ASSUME ClientInv, [CNext]_cvars
  PROVE  CallerTypes'
<1>a. CallerTypes /\ CTypeOK
  BY DEF ClientInv, CTypeOK, CallerTypes
<1>b. NotSaid \in Reply
  <2>1. <<>> \in Seq(Lines) /\ 0 \in Numbers
    BY ClientAssumption DEF Numbers
  <2> QED BY <2>1 DEF NotSaid, Reply
<1>1. CASE UNCHANGED callervars
  BY <1>a, <1>1 DEF CallerTypes, callervars
<1>2. ASSUME NEW c \in Callers, Call(c) \/ Lock(c) PROVE CallerTypes'
  BY <1>2, <1>a, ClientAssumption DEF CallerTypes, Call, Lock
<1>3. ASSUME NEW c \in Callers, Check(c) PROVE CallerTypes'
  <2>1. CASE desynced
    BY <1>3, <1>a, <1>b, <2>1, ReturnTypes DEF Check, Failures
  <2>2. CASE ~desynced
    BY <1>3, <1>a, <2>2 DEF Check, CallerTypes
  <2> QED BY <2>1, <2>2
<1>4. ASSUME NEW c \in Callers, Write(c) PROVE CallerTypes'
  <2>1. CASE tmux = "alive"
    BY <1>4, <1>a, <2>1, WriteStep DEF Write, CallerTypes
  <2>2. CASE tmux # "alive"
    BY <1>4, <1>a, <1>b, <2>2, ReturnTypes DEF Write, Failures
  <2> QED BY <2>1, <2>2
<1>5. ASSUME NEW c \in Callers, NextReply(c) PROVE CallerTypes'
  <2>1. Head(replies) \in Reply
    BY <1>5, <1>a, HeadTailProperties DEF NextReply, CTypeOK
  <2> QED BY <1>5, <1>a, <2>1, ReturnTypes DEF NextReply
<1>6. ASSUME NEW c \in Callers, NextClosed(c) \/ NextTimeout(c) PROVE CallerTypes'
  BY <1>6, <1>a, <1>b, ReturnTypes DEF NextClosed, NextTimeout, Failures
<1> QED BY <1>1, <1>2, <1>3, <1>4, <1>5, <1>6
        DEF CNext, Tmux, TmuxAnswers, TmuxChatters, TmuxDies, TmuxExits, Parse, ParseOutside,
            ParseEnd, ParseInside, ParseEOF, Parsed, DialUp, DialFails, Close, Reap, Run, Next1,
            cvars, callervars

(* ... and of everything else. *)
StreamTypes ==
    /\ dial \in {"attaching", "up", "failed"}
    /\ stdin \in {"open", "closed", "reaped"}
    /\ tmux \in {"alive", "gone"}
    /\ inbox \in Seq(Numbers)
    /\ wire \in Seq(Printed)
    /\ chatter \in 0..MaxChatter
    /\ said \in Seq(Reply) /\ Len(said) \in 1..(MaxSent + 1)
    /\ parser \in {"outside", "inside", "ended"}
    /\ block \in Numbers
    /\ body \in Seq(Lines)
    /\ replies \in Seq(Reply) /\ Len(replies) <= 1
    /\ desynced \in BOOLEAN

LEMMA StreamTypesStep ==
  ASSUME ClientInv, [CNext]_cvars
  PROVE  StreamTypes'
<1>a. StreamTypes /\ CTypeOK
  BY DEF ClientInv, CTypeOK, StreamTypes
<1>b. MaxChatter \in Nat /\ MaxSent \in Nat
  BY ClientAssumption
<1>1. CASE TmuxAnswers
  <2>1. wire' \in Seq(Printed)
    <3>1. PICK a \in Reply : wire' = wire \o Framed(a.of, a.lines, a.err)
      BY <1>1, AnswerStep
    <3>2. wire \in Seq(Printed)
      BY <1>a DEF StreamTypes
    <3> QED BY <3>1, <3>2, AnswerPrinted
  <2>2. said' \in Seq(Reply) /\ Len(said') = Len(said) /\ inbox' \in Seq(Numbers)
    BY <1>1, AnswerStep
  <2> QED BY <1>1, <1>a, <2>1, <2>2 DEF TmuxAnswers, StreamTypes, parservars
<1>2. CASE TmuxChatters
  <2>1. wire' \in Seq(Printed)
    BY <1>2, <1>a, JunkPrinted DEF TmuxChatters, StreamTypes, Junk
  <2>2. chatter' \in 0..MaxChatter
    BY <1>2, <1>a, <1>b DEF TmuxChatters, StreamTypes
  <2> QED BY <1>2, <1>a, <2>1, <2>2 DEF TmuxChatters, StreamTypes, parservars
<1>3. CASE TmuxDies \/ TmuxExits
  <2>1. wire' \in Seq(Printed)
    BY <1>3, <1>a, JunkPrinted, Cut DEF TmuxDies, TmuxExits, StreamTypes, Junk
  <2>2. <<>> \in Seq(Numbers)
    OBVIOUS
  <2> QED BY <1>3, <1>a, <2>1, <2>2 DEF TmuxDies, TmuxExits, StreamTypes, parservars
<1>4. CASE ParseOutside
  <2>1. Tail(wire) \in Seq(Printed) /\ Head(wire).num \in Numbers
    <3>1. Tail(wire) \in Seq(Printed) /\ Head(wire) \in Printed
      BY <1>4, <1>a, Popped DEF ParseOutside, StreamTypes
    <3>2. 0 \in Numbers
      BY <1>b DEF Numbers
    <3> QED BY <3>1, <3>2 DEF Printed
  <2>2. <<>> \in Seq(Lines)
    OBVIOUS
  <2> QED BY <1>4, <1>a, <2>1, <2>2 DEF ParseOutside, Parsed, StreamTypes
<1>5. CASE ParseEnd
  <2>1. Tail(wire) \in Seq(Printed) /\ replies = <<>>
    BY <1>5, <1>a, Popped, Inside DEF ParseEnd, StreamTypes
  <2> DEFINE rep == [of |-> block, lines |-> body, err |-> Head(wire).kind = "error"]
  <2>2. rep \in Reply
    BY <1>a DEF StreamTypes, Reply
  <2>3. replies' = Append(<<>>, rep)
    BY <1>5, <2>1 DEF ParseEnd
  <2> HIDE DEF rep
  <2>4. replies' = <<rep>>
    BY <2>3
  <2>5. replies' \in Seq(Reply) /\ Len(replies') = 1
    BY <2>2, <2>4
  <2> QED BY <1>5, <1>a, <2>1, <2>5 DEF ParseEnd, Parsed, StreamTypes
<1>6. CASE ParseInside
  <2>1. Tail(wire) \in Seq(Printed) /\ Head(wire).kind \in Lines
    BY <1>6, <1>a, Popped, Inside DEF ParseInside, StreamTypes
  <2>2. Append(body, Head(wire).kind) \in Seq(Lines)
    BY <1>a, <2>1, AppendProperties DEF StreamTypes
  <2> QED BY <1>6, <1>a, <2>1, <2>2 DEF ParseInside, Parsed, StreamTypes
<1>7. CASE ParseEOF \/ DialFails \/ Close \/ Reap \/ UNCHANGED cvars
  BY <1>7, <1>a DEF ParseEOF, DialFails, Close, Reap, cvars, StreamTypes, tmuxvars, parservars
<1>8. CASE DialUp
  <2>1. Tail(replies) \in Seq(Reply) /\ Len(Tail(replies)) <= 1
    BY <1>8, <1>a, HeadTailProperties, LenProperties DEF DialUp, StreamTypes
  <2> QED BY <1>8, <1>a, <2>1 DEF DialUp, StreamTypes, tmuxvars, parservars
<1>9. ASSUME NEW c \in Callers, \/ Call(c) \/ Lock(c) \/ Check(c) \/ NextClosed(c) \/ NextTimeout(c)
      PROVE  StreamTypes'
  BY <1>9, <1>a DEF Call, Lock, Check, NextClosed, NextTimeout, StreamTypes, tmuxvars, parservars
<1>10. ASSUME NEW c \in Callers, Write(c) PROVE StreamTypes'
  <2>1. CASE tmux = "alive"
    <3>1. said' \in Seq(Reply) /\ Len(said') \in 1..(MaxSent + 1) /\ inbox' \in Seq(Numbers)
      <4>1. Len(said') = Len(said) + 1 /\ Sent + 1 \in Numbers /\ Sent + 1 = Len(said)
        BY <1>10, <1>a, <2>1, WriteStep, Basics
      <4>2. Len(said') \in 1..(MaxSent + 1)
        BY <1>b, <4>1 DEF Numbers
      <4> QED BY <1>10, <2>1, <4>2, WriteStep
    <3> QED BY <1>10, <1>a, <2>1, <3>1 DEF Write, StreamTypes, parservars
  <2>2. CASE tmux # "alive"
    BY <1>10, <1>a, <2>2 DEF Write, StreamTypes, tmuxvars, parservars
  <2> QED BY <2>1, <2>2
<1>11. ASSUME NEW c \in Callers, NextReply(c) PROVE StreamTypes'
  <2>1. Tail(replies) \in Seq(Reply) /\ Len(Tail(replies)) <= 1
    BY <1>11, <1>a, HeadTailProperties, LenProperties DEF NextReply, StreamTypes
  <2> QED BY <1>11, <1>a, <2>1 DEF NextReply, StreamTypes, tmuxvars, parservars
<1> QED BY <1>1, <1>2, <1>3, <1>4, <1>5, <1>6, <1>7, <1>8, <1>9, <1>10, <1>11
        DEF CNext, Tmux, Parse, Run, Next1


LEMMA PipeStep ==
  ASSUME ClientInv, [CNext]_cvars
  PROVE  Pipe'
<1>a. /\ CTypeOK /\ Pipe /\ Answer \in Reply /\ wire \in Seq(Printed) /\ inbox \in Seq(Numbers)
      /\ parser \in {"outside", "inside", "ended"} /\ tmux \in {"alive", "gone"}
      /\ replies \in Seq(Reply)
  BY Basics DEF ClientInv, CTypeOK
<1>b. PICK n \in Nat, m \in Nat, k \in Nat :
         n = Len(Answer.lines) /\ m = Len(wire) /\ k = Sent
  BY <1>a, Basics
<1>c. said' = said => Answer' = Answer /\ Sent' = Sent
  BY DEF Answer, Sent
<1>1. CASE UNCHANGED <<said, inbox, wire, tmux, parser, block, body, replies>>
  BY <1>a, <1>1, <1>c DEF Pipe, Unanswered, OnItsWay, Delivered
<1>2. CASE TmuxAnswers
  <2>1. PICK a \in Reply :
            /\ a.of + Len(inbox) = Sent + 1 /\ a.of \in Numbers
            /\ wire' = wire \o Framed(a.of, a.lines, a.err)
            /\ Len(said') = Len(said) /\ a.of + 1 \in 1..Len(said)
            /\ said'[a.of + 1] = a
            /\ inbox' \in Seq(Numbers) /\ Len(inbox') = Len(inbox) - 1
    BY <1>2, AnswerStep
  <2>2. inbox # <<>> /\ UNCHANGED <<parser, replies, tmux>>
    BY <1>2 DEF TmuxAnswers, parservars
  <2>3. CASE parser = "ended"
    BY <1>a, <2>2, <2>3 DEF Pipe, Delivered
  <2>4. CASE parser # "ended"
    <3>1. Unanswered
      BY <1>a, <2>2, <2>4 DEF Pipe, OnItsWay, Delivered
    <3>2. Len(inbox) = 1
      <4>1. PICK i \in Nat : i = Len(inbox) /\ i # 0
        BY <1>a, <2>2, LenProperties, EmptySeq
      <4> QED BY <3>1, <4>1 DEF Unanswered
    <3>3. a.of = k /\ Sent' = k
      <4>1. PICK i \in Nat : i = a.of
        BY <2>1, ClientAssumption DEF Numbers
      <4>2. i + 1 = k + 1
        BY <1>b, <2>1, <3>2, <4>1
      <4> QED BY <1>b, <2>1, <4>1, <4>2 DEF Sent
    <3>4. Answer' = a
      BY <2>1, <3>3 DEF Answer
    <3>5. inbox' = <<>>
      <4>1. Len(inbox') = 0
        BY <2>1, <3>2
      <4> QED BY <2>1, <4>1, EmptySeq
    <3>6. /\ Holds(wire', a, 0 - m - 1)
          /\ Len(wire') - m - 1 = Len(a.lines) + 1
          /\ wire' \in Seq(Printed)
      BY <1>a, <1>b, <2>1, <3>1, AnswerPrinted DEF Unanswered
    <3>7. PICK l \in Nat, ll \in Nat : l = Len(a.lines) /\ ll = Len(wire')
      BY <3>6, LenProperties DEF Reply
    <3>8. 0 - m - 1 <= l /\ ll + (0 - m - 1) > l /\ 0 - m - 1 \in Int /\ 0 - m - 1 < 0
          /\ ~(0 - m - 1 >= 0)
      BY <3>6, <3>7
    <3>9. OnItsWay(0 - m - 1)'
      BY <2>2, <3>1, <3>3, <3>4, <3>5, <3>6, <3>7, <3>8 DEF OnItsWay, Unanswered
    <3> QED BY <2>2, <2>4, <3>8, <3>9 DEF Pipe
  <2> QED BY <2>3, <2>4
<1>3. CASE TmuxChatters \/ TmuxExits
  <2>1. PICK kind \in Junk : wire' = Append(wire, Plain(kind))
    BY <1>3 DEF TmuxChatters, TmuxExits, Junk
  <2>2. /\ UNCHANGED <<said, parser, block, body, replies>> /\ tmux = "alive"
        /\ inbox' \in {inbox, <<>>}
    BY <1>3 DEF TmuxChatters, TmuxExits, parservars
  <2>3. CASE parser = "ended"
    BY <1>a, <1>c, <2>2, <2>3 DEF Pipe, Delivered
  <2>4. CASE Unanswered /\ parser # "ended"
    <3>1. Clear(wire')
      BY <1>a, <2>1, <2>4, JunkPrinted DEF Unanswered
    <3>2. Len(inbox') <= 1
      BY <2>2, <2>4 DEF Unanswered
    <3> QED BY <2>2, <2>4, <3>1, <3>2 DEF Pipe, Unanswered
  <2>5. ASSUME NEW o \in Int, OnItsWay(o), parser # "ended" PROVE Pipe'
    <3>1. Holds(wire', Answer, o) /\ Len(wire') + o > Len(Answer.lines)
      BY <1>a, <2>1, <2>2, <2>5, JunkPrinted DEF OnItsWay
    <3>2. OnItsWay(o)'
      BY <1>c, <2>2, <2>5, <3>1 DEF OnItsWay
    <3> QED BY <2>2, <2>5, <3>2 DEF Pipe
  <2>6. CASE Delivered /\ parser = "outside" /\ Clear(wire)
    <3>1. Clear(wire')
      BY <1>a, <2>1, <2>6, JunkPrinted
    <3> QED BY <1>c, <2>2, <2>6, <3>1 DEF Pipe, Delivered
  <2> QED BY <1>a, <2>3, <2>4, <2>5, <2>6 DEF Pipe
<1>4. CASE TmuxDies
  <2>1. PICK i \in 0..Len(wire) : wire' = SubSeq(wire, 1, i)
    BY <1>4 DEF TmuxDies
  <2>2. /\ UNCHANGED <<said, parser, block, body, replies>> /\ tmux' = "gone"
        /\ inbox' = <<>> /\ Len(inbox') <= 1
    BY <1>4 DEF TmuxDies, parservars
  <2>3. /\ Clear(wire) => Clear(wire')
        /\ \A o : Holds(wire, Answer, o) => Holds(wire', Answer, o)
    BY <1>a, <2>1, Cut
  <2>4. ASSUME NEW o \in Int, OnItsWay(o), parser # "ended" PROVE Pipe'
    <3>1. OnItsWay(o)'
      BY <1>c, <2>2, <2>3, <2>4 DEF OnItsWay
    <3> QED BY <2>2, <2>4, <3>1 DEF Pipe
  <2> QED BY <1>a, <1>c, <2>2, <2>3, <2>4 DEF Pipe, Unanswered, Delivered
<1>5. CASE ParseOutside
  <2>1. /\ UNCHANGED <<said, inbox, tmux, replies>> /\ wire' = Tail(wire) /\ wire # <<>>
        /\ parser = "outside"
    BY <1>5 DEF ParseOutside, Parsed
  <2>2. CASE Clear(wire)
    <3>1. Head(wire).kind \in Junk /\ Clear(wire')
      BY <1>a, <2>1, <2>2, Popped
    <3>2. parser' \in {"outside", "ended"}
      BY <1>5, <3>1 DEF ParseOutside, Parsed, Junk
    <3>3. Unanswered \/ Delivered \/ replies = <<>>
      BY <1>a, <2>1 DEF Pipe, OnItsWay
    <3>4. parser' = "ended" => Pipe'
      BY <1>c, <2>1, <3>3 DEF Pipe, Unanswered, Delivered
    <3>5. ASSUME NEW o \in Int, OnItsWay(o) PROVE Len(inbox) <= 1 /\ replies = <<>>
      BY <3>5 DEF OnItsWay
    <3>6. parser' = "outside" => Pipe'
      BY <1>a, <1>c, <2>1, <3>1, <3>3, <3>5 DEF Pipe, Unanswered, Delivered
    <3> QED BY <3>2, <3>4, <3>6
  <2>3. ASSUME NEW o \in Int, OnItsWay(o) PROVE Pipe'
    <3>1. /\ o < 0 /\ Holds(wire, Answer, o) /\ o + 1 \in Int
          /\ replies = <<>> /\ inbox = <<>> /\ Answer.of = k
      BY <1>b, <2>1, <2>3 DEF OnItsWay
    <3>2. /\ Holds(wire', Answer, o + 1)
          /\ IF o + 1 \in 0..(n + 1) THEN Head(wire) = Token(Answer, o + 1)
             ELSE Head(wire).kind \in Junk
          /\ tmux = "alive" => Len(wire') + (o + 1) > n
      BY <1>a, <1>b, <2>1, <2>3, <3>1, Popped DEF OnItsWay
    <3>3. CASE o + 1 = 0
      <4>1. Head(wire).kind = "begin" /\ Head(wire).num = k
        BY <1>a, <1>b, <3>1, <3>2, <3>3, TokenKinds
      <4>2. parser' = "inside" /\ block' = k /\ body' = <<>>
        BY <1>5, <4>1 DEF ParseOutside, Parsed
      <4>3. HeardUpTo(Answer.lines)[0] = <<>>
        BY <1>a, HeardStep DEF Reply
      <4>4. OnItsWay(0)'
        BY <1>b, <1>c, <2>1, <3>1, <3>2, <3>3, <4>2, <4>3 DEF OnItsWay
      <4> QED BY <4>2, <4>4 DEF Pipe
    <3>4. CASE o + 1 # 0
      <4>1. o + 1 < 0 /\ ~(o + 1 >= 0) /\ o + 1 <= n /\ o + 1 \notin 0..(n + 1)
        BY <3>1, <3>4
      <4>2. parser' \in {"outside", "ended"}
        BY <1>5, <3>2, <4>1 DEF ParseOutside, Parsed, Junk
      <4>3. parser' = "outside" => OnItsWay(o + 1)'
        BY <1>b, <1>c, <2>1, <3>1, <3>2, <4>1 DEF OnItsWay
      <4> QED BY <2>1, <3>1, <4>2, <4>3 DEF Pipe
    <3> QED BY <3>3, <3>4
  <2> QED BY <1>a, <2>1, <2>2, <2>3 DEF Pipe, Unanswered
<1>6. CASE ParseEnd
  <2>1. PICK o \in 0..n : OnItsWay(o) /\ o = n
    BY <1>6, <1>b, Inside DEF ParseEnd
  <2>2. (Head(wire).kind = "error") = Answer.err
    BY <1>6, <1>b, Inside DEF ParseEnd
  <2>3. Clear(wire')
    BY <1>6, <1>a, <1>b, <2>1, Popped DEF ParseEnd, Parsed, OnItsWay
  <2>4. block = Answer.of /\ body = Heard(Answer.lines) /\ replies = <<>> /\ inbox = <<>>
    BY <1>b, <2>1 DEF OnItsWay, Heard
  <2>5. replies' = <<Parsing(Answer)>>
    <3>1. Parsing(Answer) = [of |-> block, lines |-> body, err |-> Head(wire).kind = "error"]
      BY <2>2, <2>4 DEF Parsing
    <3>2. replies' = Append(<<>>, Parsing(Answer))
      BY <1>6, <2>4, <3>1 DEF ParseEnd
    <3> QED BY <3>2
  <2> QED BY <1>6, <1>c, <2>1, <2>3, <2>4, <2>5 DEF ParseEnd, Parsed, Pipe, Delivered, OnItsWay
<1>7. CASE ParseInside
  <2>1. PICK o \in 0..n : /\ OnItsWay(o) /\ o # n /\ o + 1 \in 1..n
                          /\ Head(wire).kind = Answer.lines[o + 1]
    BY <1>7, <1>b, Inside DEF ParseInside
  <2>2. /\ replies = <<>> /\ inbox = <<>> /\ Answer.of = k /\ block = k
        /\ body = HeardUpTo(Answer.lines)[o] /\ Holds(wire, Answer, o)
        /\ UNCHANGED <<said, inbox, tmux, replies, block>> /\ wire' = Tail(wire)
        /\ wire # <<>>
    BY <1>7, <1>b, <2>1 DEF OnItsWay, ParseInside, Parsed
  <2>3. CASE Head(wire).kind = "overlong"
    BY <1>7, <2>2, <2>3 DEF ParseInside, Parsed, Pipe
  <2>4. CASE Head(wire).kind # "overlong"
    <3>1. parser' = "inside" /\ body' = HeardUpTo(Answer.lines)[o + 1]
      <4>1. HeardUpTo(Answer.lines)[o + 1] =
               HeardNext(HeardUpTo(Answer.lines), Answer.lines, o + 1)
        BY <1>a, <1>b, <2>1, HeardStep DEF Reply
      <4>2. (o + 1) - 1 = o
        BY <2>1
      <4> QED BY <1>7, <2>1, <2>2, <2>4, <4>1, <4>2 DEF ParseInside, Parsed, HeardNext
    <3>2. /\ Holds(wire', Answer, o + 1)
          /\ tmux = "alive" => Len(wire') + (o + 1) > n
      BY <1>a, <1>b, <2>1, <2>2, Popped DEF OnItsWay
    <3>3. o + 1 <= n /\ o + 1 >= 0 /\ ~(o + 1 < 0) /\ o + 1 \in Int
      BY <2>1
    <3>4. OnItsWay(o + 1)'
      BY <1>b, <1>c, <2>2, <3>1, <3>2, <3>3 DEF OnItsWay
    <3> QED BY <3>1, <3>3, <3>4 DEF Pipe
  <2> QED BY <2>3, <2>4
<1>8. CASE ParseEOF
  BY <1>8, <1>a, <1>c DEF ParseEOF, tmuxvars, Pipe, Unanswered, OnItsWay, Delivered
<1>9. CASE DialUp \/ \E c \in Callers : NextReply(c)
  <2>1. /\ replies # <<>> /\ replies' = Tail(replies)
        /\ UNCHANGED <<said, inbox, wire, tmux, parser, block, body>>
    BY <1>9 DEF DialUp, NextReply, tmuxvars, parservars
  <2>2. Delivered /\ (parser # "ended" => parser = "outside" /\ Clear(wire))
    BY <1>a, <2>1 DEF Pipe, Unanswered, OnItsWay
  <2>3. replies' = <<>>
    BY <2>1, <2>2 DEF Delivered
  <2> QED BY <2>1, <2>2, <2>3 DEF Pipe, Delivered, Unanswered
<1>10. ASSUME NEW c \in Callers, Write(c) PROVE Pipe'
  <2>1. CASE tmux = "alive"
    <3>1. Quiet /\ Len(inbox') = Len(inbox) + 1
      BY <1>10, <2>1, WriteStep
    <3>2. UNCHANGED <<wire, parser, replies>>
      BY <1>10, <2>1 DEF Write, parservars
    <3>3. parser # "ended" => Len(inbox') = 1
      BY <3>1 DEF Quiet
    <3> QED BY <3>1, <3>2, <3>3 DEF Pipe, Quiet, Unanswered
  <2>2. CASE tmux # "alive"
    BY <1>10, <1>1, <2>2 DEF Write, tmuxvars, parservars
  <2> QED BY <2>1, <2>2
<1> QED BY <1>1, <1>2, <1>3, <1>4, <1>5, <1>6, <1>7, <1>8, <1>9, <1>10
        DEF CNext, Tmux, Parse, DialFails, Close, Reap, Call, Lock, Check, NextClosed, NextTimeout,
            Run, Next1, cvars, tmuxvars, parservars


LEMMA InOrderStep ==
  ASSUME ClientInv, [CNext]_cvars
  PROVE  InOrder'
<1>a. CTypeOK /\ InOrder
  BY DEF ClientInv
<1>b. PICK n \in Nat, m \in Nat : n = Sent /\ m = Len(inbox) /\ n + 1 = Len(said)
  BY <1>a, Basics, LenProperties DEF CTypeOK
<1>c. m <= n + 1 /\ \A i \in 1..m : inbox[i] = n - m + i
  BY <1>a, <1>b DEF InOrder
<1>d. Len(said') = Len(said) => Sent' = Sent
  BY DEF Sent
<1>1. CASE UNCHANGED <<inbox, said>>
  BY <1>a, <1>1 DEF InOrder, Sent
<1>2. CASE TmuxAnswers
  <2>1. /\ Len(said') = Len(said) /\ Len(inbox') = m - 1
        /\ \A i \in 1..(m - 1) : inbox'[i] = inbox[i + 1]
    BY <1>2, <1>b, AnswerStep
  <2>2. Sent' = n /\ m - 1 <= n + 1
    BY <1>b, <1>c, <1>d, <2>1
  <2>3. ASSUME NEW i \in 1..(m - 1) PROVE inbox'[i] = n - (m - 1) + i
    <3>1. i + 1 \in 1..m /\ n - m + (i + 1) = n - (m - 1) + i
      OBVIOUS
    <3> QED BY <1>c, <2>1, <3>1
  <2> QED BY <2>1, <2>2, <2>3 DEF InOrder
<1>3. CASE TmuxDies \/ TmuxExits
  <2>1. inbox' = <<>> /\ Len(inbox') = 0 /\ Sent' = n
    BY <1>3, <1>b, <1>d DEF TmuxDies, TmuxExits
  <2> QED BY <2>1 DEF InOrder
<1>4. ASSUME NEW c \in Callers, Write(c) PROVE InOrder'
  <2>1. CASE tmux = "alive"
    <3>1. /\ Sent' = n + 1 /\ Len(inbox') = m + 1
          /\ \A i \in 1..m : inbox'[i] = inbox[i]
          /\ inbox'[m + 1] = n + 1
      BY <1>4, <1>b, <2>1, WriteStep
    <3>2. ASSUME NEW i \in 1..(m + 1) PROVE inbox'[i] = (n + 1) - (m + 1) + i
      <4>1. CASE i = m + 1
        BY <3>1, <4>1
      <4>2. CASE i # m + 1
        <5>1. i \in 1..m /\ (n + 1) - (m + 1) + i = n - m + i
          BY <4>2
        <5> QED BY <1>c, <3>1, <5>1
      <4> QED BY <4>1, <4>2
    <3>3. m + 1 <= (n + 1) + 1
      BY <1>c
    <3> QED BY <3>1, <3>2, <3>3 DEF InOrder
  <2>2. CASE tmux # "alive"
    BY <1>4, <1>1, <2>2 DEF Write, tmuxvars
  <2> QED BY <2>1, <2>2
<1> QED BY <1>1, <1>2, <1>3, <1>4
        DEF CNext, Tmux, TmuxChatters, Parse, ParseOutside, ParseEnd, ParseInside, ParseEOF,
            Parsed, DialUp, DialFails, Close, Reap, Call, Lock, Check, NextReply, NextClosed,
            NextTimeout, Run, Next1, cvars, tmuxvars

(* The commands still to be written have room under the bound. *)
LEMMA QueueStep ==
  ASSUME ClientInv, [CNext]_cvars
  PROVE  /\ IsFiniteSet(Queue') /\ Sent' + Cardinality(Queue') <= MaxSent
         /\ \A c \in Callers : asked'[c] <= Sent'
<1>a. /\ CTypeOK /\ \A c \in Callers : asked[c] <= Sent
      /\ pc \in [Callers -> {"idle", "lock", "check", "write", "next"}]
      /\ asked \in [Callers -> Numbers]
      /\ IsFiniteSet(Queue) /\ Sent + Cardinality(Queue) <= MaxSent
  BY DEF ClientInv, CTypeOK
<1>b. PICK n \in Nat, k \in Nat : n = Sent /\ k = Cardinality(Queue) /\ n + 1 = Len(said)
  BY <1>a, Basics, FS_CardinalityType
<1>c. Len(said') = Len(said) => Sent' = Sent
  BY DEF Sent
<1>1. CASE UNCHANGED asked /\ Len(said') = Len(said) /\ Queue' = Queue
  BY <1>a, <1>1, <1>c
<1>2. ASSUME NEW c \in Queue, Queue' = Queue \ {c}, UNCHANGED asked, Len(said') = Len(said)
      PROVE  /\ IsFiniteSet(Queue') /\ Sent' + Cardinality(Queue') <= MaxSent
             /\ \A d \in Callers : asked'[d] <= Sent'
  BY <1>2, <1>a, <1>c, QueueShrinks
<1>3. ASSUME NEW c \in Callers, Call(c)
      PROVE  /\ IsFiniteSet(Queue') /\ Sent' + Cardinality(Queue') <= MaxSent
             /\ \A d \in Callers : asked'[d] <= Sent'
  <2>1. Queue' = Queue \cup {c} /\ UNCHANGED asked /\ Sent' = Sent
    BY <1>3, <1>a, <1>c DEF Call, Queue, tmuxvars
  <2>2. Sent + Cardinality(Queue) < MaxSent
    BY <1>3 DEF Call, Queue
  <2>3. PICK j \in Nat : j = Cardinality(Queue \cup {c}) /\ IsFiniteSet(Queue \cup {c})
    BY <1>a, FS_AddElement, FS_CardinalityType
  <2>4. j <= k + 1
    BY <1>a, <1>b, <2>3, FS_AddElement
  <2>5. PICK mx \in Nat : mx = MaxSent
    BY ClientAssumption
  <2>6. n + k < mx
    BY <1>b, <2>2, <2>5
  <2>7. n + j <= mx
    BY <2>4, <2>6
  <2>8. Sent' + Cardinality(Queue') <= MaxSent
    BY <1>b, <2>1, <2>3, <2>5, <2>7
  <2> QED BY <1>a, <2>1, <2>3, <2>8
<1>4. ASSUME NEW c \in Callers, Check(c)
      PROVE  /\ IsFiniteSet(Queue') /\ Sent' + Cardinality(Queue') <= MaxSent
             /\ \A d \in Callers : asked'[d] <= Sent'
  <2>1. c \in Queue /\ UNCHANGED <<asked, said>>
    BY <1>4 DEF Check, Queue, Returns, tmuxvars
  <2>2. CASE desynced
    <3>1. Queue' = Queue \ {c}
      BY <1>4, <1>a, <2>2 DEF Check, Queue, Returns
    <3> QED BY <1>2, <2>1, <3>1
  <2>3. CASE ~desynced
    <3>1. Queue' = Queue
      BY <1>4, <1>a, <2>3 DEF Check, Queue
    <3> QED BY <1>1, <2>1, <3>1
  <2> QED BY <2>2, <2>3
<1>5. ASSUME NEW c \in Callers, Write(c)
      PROVE  /\ IsFiniteSet(Queue') /\ Sent' + Cardinality(Queue') <= MaxSent
             /\ \A d \in Callers : asked'[d] <= Sent'
  <2>1. c \in Queue
    BY <1>5 DEF Write, Queue
  <2>2. Queue' = Queue \ {c}
    BY <1>5, <1>a DEF Write, Queue, Returns
  <2>3. CASE tmux = "alive"
    <3>1. Sent' = n + 1 /\ asked' = [asked EXCEPT ![c] = n + 1]
      BY <1>5, <1>b, <2>3, WriteStep DEF Write
    <3>2. Sent' + Cardinality(Queue') <= MaxSent /\ IsFiniteSet(Queue')
      BY <1>b, <2>1, <2>2, <3>1, QueueShrinks
    <3>3. ASSUME NEW d \in Callers PROVE asked'[d] <= n + 1
      <4>1. PICK i \in Nat : i = asked[d] /\ i <= n
        BY <1>a, <1>b DEF Numbers
      <4> QED BY <1>a, <3>1, <4>1
    <3> QED BY <3>1, <3>2, <3>3
  <2>4. CASE tmux # "alive"
    <3>1. UNCHANGED <<asked, said>>
      BY <1>5, <2>4 DEF Write, Returns, tmuxvars
    <3> QED BY <1>2, <2>1, <2>2, <3>1
  <2> QED BY <2>3, <2>4
<1>6. ASSUME NEW c \in Callers, Lock(c) \/ Next1(c)
      PROVE  Queue' = Queue /\ UNCHANGED <<asked, said>>
  BY <1>6, <1>a DEF Lock, Next1, NextReply, NextClosed, NextTimeout, Queue, Returns, tmuxvars
<1>7. CASE TmuxAnswers
  <2>1. Len(said') = Len(said)
    BY <1>7, AnswerStep
  <2> QED BY <1>1, <1>7, <2>1 DEF TmuxAnswers, callervars, Queue
<1> QED BY <1>1, <1>3, <1>4, <1>5, <1>6, <1>7
        DEF CNext, Tmux, TmuxChatters, TmuxDies, TmuxExits, Parse, ParseOutside, ParseEnd,
            ParseInside, ParseEOF, Parsed, DialUp, DialFails, Close, Reap, Run, Queue,
            cvars, tmuxvars, callervars


(* Who takes the one answer there is leaves nothing of it behind. *)
LEMMA TakeStep ==
  ASSUME ClientInv, replies # <<>>, replies' = Tail(replies),
         UNCHANGED <<inbox, wire, parser>>
  PROVE  Delivered /\ Quiet' /\ Head(replies) = Parsing(Answer) /\ inbox = <<>>
<1>1. Delivered /\ (parser # "ended" => parser = "outside" /\ Clear(wire))
  BY DEF ClientInv, Pipe, Unanswered, OnItsWay
<1>2. replies' = <<>> /\ Head(replies) = Parsing(Answer)
  BY <1>1 DEF Delivered
<1> QED BY <1>1, <1>2 DEF Quiet, Delivered

LEMMA QuietStep ==
  ASSUME ClientInv, [CNext]_cvars, dial' = "up", ~desynced', ~Waiting'
  PROVE  Quiet'
<1>a. /\ CTypeOK /\ wire \in Seq(Printed)
      /\ pc \in [Callers -> {"idle", "lock", "check", "write", "next"}]
  BY DEF ClientInv, CTypeOK
<1>b. dial = "up" /\ ~desynced /\ ~Waiting => Quiet
  BY DEF ClientInv, Callings
<1>1. ASSUME Quiet, UNCHANGED <<inbox, wire, parser, replies>> PROVE Quiet'
  BY <1>1 DEF Quiet
<1>2. CASE Tmux
  <2>1. UNCHANGED <<dial, desynced, pc, parser, replies>>
    BY <1>2 DEF Tmux, TmuxAnswers, TmuxChatters, TmuxDies, TmuxExits, callervars, parservars
  <2>2. Quiet
    BY <1>b, <2>1 DEF Waiting
  <2>3. CASE parser = "ended"
    BY <2>1, <2>2, <2>3 DEF Quiet
  <2>4. CASE parser # "ended"
    <3>1. Clear(wire) /\ inbox = <<>>
      BY <2>2, <2>4 DEF Quiet
    <3>2. Clear(wire') /\ inbox' = <<>>
      BY <1>2, <1>a, <3>1, JunkPrinted, Cut
         DEF Tmux, TmuxAnswers, TmuxChatters, TmuxDies, TmuxExits, Junk
    <3> QED BY <2>1, <2>2, <3>2 DEF Quiet
  <2> QED BY <2>3, <2>4
<1>3. CASE Parse
  <2>1. UNCHANGED <<dial, desynced, pc, inbox>> /\ parser # "ended"
    BY <1>3 DEF Parse, ParseOutside, ParseEnd, ParseInside, ParseEOF, Parsed, tmuxvars, callervars
  <2>2. Quiet /\ parser = "outside" /\ Clear(wire)
    BY <1>b, <2>1 DEF Waiting, Quiet
  <2>3. CASE ParseOutside
    <3>1. Head(wire).kind \in Junk /\ Clear(wire') /\ UNCHANGED replies
      BY <1>a, <2>2, <2>3, Popped DEF ParseOutside, Parsed
    <3>2. parser' \in {"outside", "ended"}
      BY <2>3, <3>1 DEF ParseOutside, Parsed, Junk
    <3> QED BY <2>1, <2>2, <3>1, <3>2 DEF Quiet
  <2>4. CASE ParseEOF
    BY <2>2, <2>4 DEF ParseEOF, Quiet
  <2> QED BY <1>3, <2>2, <2>3, <2>4 DEF Parse, ParseEnd, ParseInside
<1>4. CASE DialUp \/ \E c \in Callers : NextReply(c)
  BY <1>4, TakeStep DEF DialUp, NextReply, tmuxvars, parservars
<1>5. CASE DialFails
  BY <1>5 DEF DialFails
<1>6. CASE Close \/ Reap \/ UNCHANGED cvars
  <2>1. UNCHANGED <<dial, desynced, pc, inbox, wire, parser, replies>>
    BY <1>6 DEF Close, Reap, cvars, tmuxvars, parservars, callervars
  <2> QED BY <1>1, <1>b, <2>1 DEF Waiting
<1>7. ASSUME NEW c \in Callers, Call(c) \/ Lock(c) \/ Check(c) PROVE Quiet'
  <2>1. UNCHANGED <<dial, desynced, inbox, wire, parser, replies>>
    BY <1>7 DEF Call, Lock, Check, tmuxvars, parservars
  <2>2. ~Waiting
    BY <1>7, <1>a DEF Call, Lock, Check, Returns, Waiting
  <2> QED BY <1>1, <1>b, <2>1, <2>2
<1>8. ASSUME NEW c \in Callers, Write(c) PROVE Quiet'
  <2>1. CASE tmux = "alive"
    BY <1>8, <1>a, <2>1 DEF Write, Waiting
  <2>2. CASE tmux # "alive"
    <3>1. UNCHANGED <<dial, desynced, inbox, wire, parser, replies>>
      BY <1>8, <2>2 DEF Write, tmuxvars, parservars
    <3>2. ~Waiting
      BY <1>8, <1>a, <2>2 DEF Write, Returns, Waiting
    <3> QED BY <1>1, <1>b, <3>1, <3>2
  <2> QED BY <2>1, <2>2
<1>9. ASSUME NEW c \in Callers, NextClosed(c) PROVE Quiet'
  BY <1>9 DEF NextClosed, Quiet, tmuxvars, parservars
<1>10. ASSUME NEW c \in Callers, NextTimeout(c) PROVE Quiet'
  BY <1>10 DEF NextTimeout
<1> QED BY <1>2, <1>3, <1>4, <1>5, <1>6, <1>7, <1>8, <1>9, <1>10 DEF CNext, Run, Next1

(* What a caller was given stays the answer to what it wrote. *)
Answered(c) ==
    /\ asked[c] + Len(inbox) <= Sent
    /\ got[c].reply = Parsing(said[asked[c] + 1])

LEMMA AnsweredStep ==
  ASSUME ClientInv, [CNext]_cvars, NEW c \in Callers,
         pc'[c] = "idle", got'[c].how = "answer"
  PROVE  Answered(c)'
<1>a. /\ CTypeOK /\ pc \in [Callers -> {"idle", "lock", "check", "write", "next"}]
      /\ got \in [Callers -> [how : {"answer"} \cup Failures, reply : Reply]]
      /\ asked \in [Callers -> Numbers]
  BY DEF ClientInv, CTypeOK
<1>b. PICK n \in Nat, m \in Nat, q \in Nat :
         n = Sent /\ m = Len(inbox) /\ q = asked[c] /\ n + 1 = Len(said) /\ q <= n
  BY <1>a, Basics, LenProperties DEF ClientInv, CTypeOK, Numbers
<1>c. Len(said') = Len(said) => Sent' = Sent
  BY DEF Sent
<1>d. pc[c] = "idle" /\ got[c].how = "answer" => Answered(c)
  BY DEF ClientInv, Callings, Answered
<1>1. ASSUME Answered(c), UNCHANGED <<asked[c], got[c], said, inbox>> PROVE Answered(c)'
  BY <1>1, <1>c DEF Answered
<1>2. CASE TmuxAnswers
  <2>1. PICK a \in Reply :
            /\ a.of + Len(inbox) = Sent + 1 /\ a.of \in Numbers
            /\ Len(said') = Len(said)
            /\ \A i \in 1..Len(said) : said'[i] = IF i = a.of + 1 THEN a ELSE said[i]
            /\ Len(inbox') = Len(inbox) - 1
    BY <1>2, AnswerStep
  <2>2. UNCHANGED <<asked, got, pc>> /\ Answered(c)
    BY <1>2, <1>d DEF TmuxAnswers, callervars
  <2>3. PICK k \in Nat : k = a.of
    BY <2>1 DEF Numbers
  <2>4. k + m = n + 1 /\ q + m <= n
    BY <1>b, <2>1, <2>2, <2>3 DEF Answered
  <2>5. q + 1 \in 1..(n + 1) /\ q + 1 # k + 1 /\ q + (m - 1) <= n
    BY <1>b, <2>4
  <2>6. said'[q + 1] = said[q + 1] /\ Len(inbox') = m - 1 /\ Sent' = n /\ asked'[c] = q
    BY <1>b, <1>c, <2>1, <2>2, <2>3, <2>5
  <2> QED BY <1>b, <2>2, <2>5, <2>6 DEF Answered
<1>3. CASE TmuxDies \/ TmuxExits
  <2>1. UNCHANGED <<asked, got, pc, said>> /\ Len(inbox') = 0
    BY <1>3 DEF TmuxDies, TmuxExits, callervars
  <2>2. asked'[c] + Len(inbox') <= Sent'
    BY <1>b, <1>c, <2>1
  <2> QED BY <1>d, <2>1, <2>2 DEF Answered
<1>4. CASE \/ TmuxChatters \/ Parse \/ DialUp \/ DialFails \/ Close \/ Reap \/ UNCHANGED cvars
  <2>1. UNCHANGED <<asked, got, pc, said, inbox>>
    BY <1>4 DEF TmuxChatters, Parse, ParseOutside, ParseEnd, ParseInside, ParseEOF, Parsed,
                DialUp, DialFails, Close, Reap, cvars, tmuxvars, callervars
  <2> QED BY <1>1, <1>d, <2>1
<1>5. ASSUME NEW d \in Callers, \/ Call(d) \/ Lock(d) \/ Check(d) \/ NextClosed(d) \/ NextTimeout(d)
      PROVE  Answered(c)'
  <2>1. UNCHANGED <<asked, said, inbox>>
    BY <1>5 DEF Call, Lock, Check, NextClosed, NextTimeout, Returns, tmuxvars
  <2>2. UNCHANGED <<pc[c], got[c]>>
    BY <1>5, <1>a DEF Call, Lock, Check, NextClosed, NextTimeout, Returns
  <2> QED BY <1>1, <1>d, <2>1, <2>2
<1>6. ASSUME NEW d \in Callers, Write(d) PROVE Answered(c)'
  <2>1. CASE tmux = "alive"
    <3>1. /\ UNCHANGED <<pc[c], got[c], asked[c]>> /\ Answered(c)
      BY <1>6, <1>a, <1>d, <2>1 DEF Write
    <3>2. /\ Sent' = n + 1 /\ Len(inbox') = m + 1
          /\ \A i \in 1..(n + 1) : said'[i] = said[i]
      BY <1>6, <1>b, <2>1, WriteStep
    <3>3. q + m <= n /\ q + 1 \in 1..(n + 1) /\ q + (m + 1) <= n + 1
      BY <1>b, <3>1 DEF Answered
    <3> QED BY <1>b, <3>1, <3>2, <3>3 DEF Answered
  <2>2. CASE tmux # "alive"
    <3>1. UNCHANGED <<asked, said, inbox>>
      BY <1>6, <2>2 DEF Write, Returns, tmuxvars
    <3>2. UNCHANGED <<pc[c], got[c]>>
      BY <1>6, <1>a, <2>2 DEF Write, Returns
    <3> QED BY <1>1, <1>d, <3>1, <3>2
  <2> QED BY <2>1, <2>2
<1>7. ASSUME NEW d \in Callers, NextReply(d) PROVE Answered(c)'
  <2>1. UNCHANGED <<asked, said, inbox>> /\ pc[d] = "next"
    BY <1>7 DEF NextReply, Returns, tmuxvars
  <2>2. CASE d = c
    <3>1. Delivered /\ Head(replies) = Parsing(Answer) /\ inbox = <<>>
      BY <1>7, TakeStep DEF NextReply, tmuxvars, parservars
    <3>2. asked[c] = Sent
      BY <2>1, <2>2 DEF ClientInv, Callings
    <3>3. got'[c].reply = Parsing(said[asked[c] + 1])
      BY <1>7, <1>a, <2>2, <3>1, <3>2 DEF NextReply, Returns, Answer
    <3>4. n + 0 <= n /\ Len(inbox') = 0 /\ Sent' = n /\ asked'[c] = n
      BY <1>b, <1>c, <2>1, <3>1, <3>2
    <3> QED BY <2>1, <3>3, <3>4 DEF Answered
  <2>3. CASE d # c
    <3>1. UNCHANGED <<pc[c], got[c]>>
      BY <1>7, <1>a, <2>3 DEF NextReply, Returns
    <3> QED BY <1>1, <1>d, <2>1, <3>1
  <2> QED BY <2>2, <2>3
<1> QED BY <1>2, <1>3, <1>4, <1>5, <1>6, <1>7 DEF CNext, Tmux, Run, Next1


LEMMA CallingsStep ==
  ASSUME ClientInv, [CNext]_cvars
  PROVE  Callings'
<1>a. /\ CTypeOK /\ pc \in [Callers -> {"idle", "lock", "check", "write", "next"}]
      /\ asked \in [Callers -> Numbers]
      /\ \A c \in Callers : pc[c] \in {"check", "write", "next"} => mu = c
  BY DEF ClientInv, CTypeOK
<1>b. /\ dial # "up" => \A c \in Callers : pc[c] = "idle"
      /\ \A c \in Callers : /\ pc[c] = "write" => ~desynced
                            /\ pc[c] = "next" => asked[c] = Sent
  BY DEF ClientInv, Callings
<1> DEFINE Rest == /\ dial # "up" => \A c \in Callers : pc[c] = "idle"
                   /\ \A c \in Callers : /\ pc[c] = "write" => ~desynced
                                         /\ pc[c] = "next" => asked[c] = Sent
<1>c. Len(said') = Len(said) => Sent' = Sent
  BY DEF Sent
<1>1. Rest'
  <2>1. CASE TmuxAnswers
    <3>1. Sent' = Sent /\ UNCHANGED <<dial, desynced, pc, asked>>
      BY <1>c, <2>1, AnswerStep DEF TmuxAnswers, callervars
    <3> QED BY <1>b, <3>1
  <2>2. CASE \/ TmuxChatters \/ TmuxDies \/ TmuxExits \/ Parse \/ Close \/ Reap \/ UNCHANGED cvars
    <3>1. Sent' = Sent /\ UNCHANGED <<dial, desynced, pc, asked>>
      BY <1>c, <2>2 DEF TmuxChatters, TmuxDies, TmuxExits, Parse, ParseOutside, ParseEnd,
              ParseInside, ParseEOF, Parsed, Close, Reap, cvars, tmuxvars, callervars
    <3> QED BY <1>b, <3>1
  <2>3. CASE DialUp \/ DialFails
    <3>1. \A c \in Callers : pc'[c] = "idle"
      BY <1>b, <2>3 DEF DialUp, DialFails, callervars
    <3> QED BY <3>1
  <2>4. ASSUME NEW c \in Callers, Call(c) \/ Lock(c) \/ Check(c) \/ NextReply(c) \/ NextClosed(c)
        PROVE  Rest'
    <3>1. Sent' = Sent /\ UNCHANGED <<dial, desynced, asked>> /\ dial = "up"
      BY <1>b, <1>c, <2>4 DEF Call, Lock, Check, NextReply, NextClosed, Returns, tmuxvars
    <3>2. ASSUME NEW d \in Callers
          PROVE  /\ pc'[d] = "write" => ~desynced
                 /\ pc'[d] = "next" => asked[d] = Sent
      BY <1>a, <1>b, <2>4 DEF Call, Lock, Check, NextReply, NextClosed, Returns
    <3> QED BY <3>1, <3>2
  <2>5. ASSUME NEW c \in Callers, Write(c) PROVE Rest'
    <3>1. /\ UNCHANGED <<dial, desynced>> /\ dial = "up" /\ mu = c /\ c \in Callers
      BY <1>a, <1>b, <2>5 DEF Write
    <3>2. \A d \in Callers : d # c => pc'[d] = pc[d] /\ pc[d] \notin {"check", "write", "next"}
      BY <1>a, <2>5, <3>1 DEF Write, Returns
    <3>3. pc'[c] # "write" /\ (pc'[c] = "next" => asked'[c] = Sent')
      BY <1>a, <2>5, WriteStep DEF Write, Returns
    <3> QED BY <3>1, <3>2, <3>3
  <2>6. ASSUME NEW c \in Callers, NextTimeout(c) PROVE Rest'
    <3>1. /\ UNCHANGED dial /\ dial = "up" /\ mu = c
      BY <1>a, <1>b, <2>6 DEF NextTimeout
    <3>2. \A d \in Callers : pc'[d] \notin {"write", "next"}
      BY <1>a, <2>6, <3>1 DEF NextTimeout, Returns
    <3> QED BY <3>1, <3>2
  <2> QED BY <2>1, <2>2, <2>3, <2>4, <2>5, <2>6 DEF CNext, Tmux, Run, Next1
<1>2. (dial = "up" /\ ~desynced /\ ~Waiting => Quiet)'
  BY QuietStep
<1>3. \A c \in Callers : pc'[c] = "idle" /\ got'[c].how = "answer" => Answered(c)'
  BY AnsweredStep
<1> QED BY <1>1, <1>2, <1>3 DEF Callings, Answered

LEMMA ClientInit == CInit => ClientInv
<1> SUFFICES ASSUME CInit PROVE ClientInv
  OBVIOUS
<1>1. NotSaid \in Reply /\ 0 \in Numbers
  <2>1. <<>> \in Seq(Lines) /\ 0 \in Numbers
    BY ClientAssumption DEF Numbers
  <2> QED BY <2>1 DEF NotSaid, Reply
<1>2. /\ said \in Seq(Reply) /\ Len(said) = 1 /\ Sent = 0 /\ Len(inbox) = 1 /\ inbox \in Seq(Numbers)
      /\ inbox[1] = 0
  BY <1>1 DEF CInit, Sent
<1>3. Queue = {}
  BY DEF CInit, Queue
<1>4. IsFiniteSet(Queue) /\ Sent + Cardinality(Queue) <= MaxSent
  BY <1>2, <1>3, FS_EmptySet, ClientAssumption
<1>5. CTypeOK
  <2>1. /\ wire \in Seq(Printed) /\ body \in Seq(Lines) /\ replies \in Seq(Reply)
        /\ Len(replies) <= 1
    BY DEF CInit
  <2>2. 1 \in 1..(MaxSent + 1) /\ 0 \in 0..MaxChatter
    BY ClientAssumption
  <2>3. \A c \in Callers : pc[c] = "idle"
    BY DEF CInit
  <2> QED BY <1>1, <1>2, <2>1, <2>2, <2>3 DEF CInit, CTypeOK, Failures
<1>6. Pipe
  BY <1>2 DEF CInit, Pipe, Unanswered, Clear
<1>7. InOrder
  BY <1>2 DEF InOrder
<1>8. Callings
  BY <1>2 DEF CInit, Callings
<1>9. \A c \in Callers : asked[c] <= Sent
  BY <1>2 DEF CInit
<1> QED BY <1>4, <1>5, <1>6, <1>7, <1>8, <1>9 DEF ClientInv

LEMMA ClientInvariant == CSpec => []ClientInv
<1>1. ClientInv /\ [CNext]_cvars => ClientInv'
  <2> SUFFICES ASSUME ClientInv, [CNext]_cvars PROVE ClientInv'
    OBVIOUS
  <2>1. CTypeOK'
    BY CallerTypesStep, StreamTypesStep DEF CTypeOK, CallerTypes, StreamTypes
  <2> QED BY <2>1, PipeStep, InOrderStep, CallingsStep, QueueStep DEF ClientInv
<1> QED BY <1>1, ClientInit, PTL DEF CSpec

(* The connection's state has its types: one caller is past the mutex, and *)
(* no more than one reply waits on the channel, so the read loop finds room *)
(* there whatever tmux prints.                                              *)
THEOREM ClientTypes == CSpec => []CTypeOK
  BY ClientInvariant, PTL DEF ClientInv

(* What Run gives a caller is tmux's answer to the command that caller      *)
(* wrote: whole, and without the notifications tmux slipped into it.        *)
THEOREM AnswersAreOwn == CSpec => []OwnAnswer
<1>1. ClientInv => OwnAnswer
  <2> SUFFICES ASSUME ClientInv, NEW c \in Callers, pc[c] = "idle", got[c].how = "answer"
               PROVE  got[c].reply = [said[asked[c] + 1] EXCEPT !.lines = Heard(@)]
    BY DEF OwnAnswer
  <2>1. got[c].reply = Parsing(said[asked[c] + 1])
    BY DEF ClientInv, Callings
  <2>2. said[asked[c] + 1] \in Reply
    <3>1. /\ CTypeOK /\ said \in Seq(Reply) /\ asked[c] \in Numbers /\ asked[c] <= Sent
      BY DEF ClientInv, CTypeOK
    <3>2. PICK n \in Nat : n = Sent /\ n + 1 = Len(said)
      BY <3>1, Basics
    <3>3. asked[c] + 1 \in 1..Len(said)
      BY <3>1, <3>2 DEF Numbers
    <3> QED BY <3>1, <3>3, ElementOfSeq
  <2> QED BY <2>1, <2>2 DEF Parsing, Reply
<1> QED BY <1>1, ClientInvariant, PTL

=============================================================================
