---------------------------- MODULE StreamProofs ----------------------------
(***************************************************************************)
(* Theorems about the bytes that children write, for every limit and every *)
(* size of chunk: the frames of the proxy's stdout (FrameDecoder) and the  *)
(* text on a child's stderr (BoundedText).  Both count bytes, so both rest *)
(* on what Totals sums up, and that on induction.                          *)
(***************************************************************************)
EXTENDS FrameDecoder, BoundedText, FiniteSetTheorems, SequenceTheorems, TLAPS

\* Induction, from the pigeonhole principle: were n not in S, adding 1 would map
\* the numbers of S up to n one to one to those of them that are not 0.
LEMMA SetInduction ==
  ASSUME NEW S, 0 \in S, \A n \in Nat : n \in S => n + 1 \in S
  PROVE  Nat \subseteq S
<1> SUFFICES ASSUME NEW n \in Nat, n \notin S PROVE FALSE
  OBVIOUS
<1> DEFINE A == S \cap (0 .. n)
<1>1. IsFiniteSet(0 .. n)
  BY FS_Interval
<1>2. IsFiniteSet(A) /\ 0 \in A
  BY <1>1, FS_Subset
<1>3. IsFiniteSet(A \ {0}) /\ Cardinality(A \ {0}) < Cardinality(A)
  <2>1. IsFiniteSet(A \ {0}) /\ Cardinality(A \ {0}) = Cardinality(A) - 1
    BY <1>2, FS_RemoveElement
  <2>2. Cardinality(A) \in Nat
    BY <1>2, FS_CardinalityType
  <2> QED BY <2>1, <2>2
<1> DEFINE f == [k \in A |-> k + 1]
<1>4. f \in [A -> A \ {0}]
  OBVIOUS
<1>5. PICK x \in A, y \in A : x # y /\ f[x] = f[y]
  <2> HIDE DEF f, A
  <2> QED BY <1>2, <1>3, <1>4, FS_PigeonHole
<1> QED BY <1>5

\* f gives the sums of the first 0 .. n lengths of s; there is such a function.
IsSums(f, s, n) == f = [m \in 0 .. n |-> IF m = 0 THEN 0 ELSE f[m - 1] + s[m]]

\* Whatever the lengths, there are sums of them.
LEMMA SumsExist ==
  ASSUME NEW s, NEW n \in Nat
  PROVE  \E f : IsSums(f, s, n)
<1> DEFINE S == {m \in Nat : \E f : IsSums(f, s, m)}
<1>1. 0 \in S
  <2>1. IsSums([m \in 0 .. 0 |-> 0], s, 0)
    BY DEF IsSums
  <2> QED BY <2>1
<1>2. ASSUME NEW m \in Nat, m \in S PROVE m + 1 \in S
  <2>1. PICK f : IsSums(f, s, m)
    BY <1>2
  <2> DEFINE g == [k \in 0 .. m + 1 |-> IF k = m + 1 THEN f[m] + s[m + 1] ELSE f[k]]
  <2>2. \A k \in 0 .. m : f[k] = IF k = 0 THEN 0 ELSE f[k - 1] + s[k]
    BY <2>1 DEF IsSums
  <2>3. \A k \in 0 .. m + 1 : g[k] = IF k = 0 THEN 0 ELSE g[k - 1] + s[k]
    BY <2>2
  <2>4. g = [k \in 0 .. m + 1 |-> g[k]]
    OBVIOUS
  <2>5. IsSums(g, s, m + 1)
    <3> HIDE DEF g
    <3> QED BY <2>3, <2>4 DEF IsSums
  <2> QED BY <2>5
<1>3. Nat \subseteq S
  <2> HIDE DEF S
  <2> QED BY <1>1, <1>2, SetInduction
<1> QED BY <1>3

\* Sums satisfies its recursion.
LEMMA SumsAre ==
  ASSUME NEW s, Len(s) \in Nat
  PROVE  IsSums(Sums(s), s, Len(s))
<1>1. Sums(s) = CHOOSE f : IsSums(f, s, Len(s))
  BY DEF Sums, IsSums
<1> QED BY <1>1, SumsExist

\* The recursion, one length at a time.
LEMMA SumsStep ==
  ASSUME NEW s \in Seq(Nat)
  PROVE  /\ Sums(s)[0] = 0
         /\ \A n \in 1 .. Len(s) : Sums(s)[n] = Sums(s)[n - 1] + s[n]
  BY SumsAre DEF IsSums

\* Sums of lengths are numbers.
LEMMA SumsType ==
  ASSUME NEW s \in Seq(Nat)
  PROVE  \A n \in 0 .. Len(s) : Sums(s)[n] \in Nat
<1> DEFINE S == {n \in Nat : n <= Len(s) => Sums(s)[n] \in Nat}
<1>1. 0 \in S
  BY SumsStep
<1>2. ASSUME NEW m \in Nat, m \in S PROVE m + 1 \in S
  <2> SUFFICES ASSUME m + 1 <= Len(s) PROVE Sums(s)[m + 1] \in Nat
    OBVIOUS
  <2>1. Sums(s)[m + 1] = Sums(s)[m] + s[m + 1]
    BY SumsStep
  <2> QED BY <1>2, <2>1
<1>3. Nat \subseteq S
  <2> HIDE DEF S
  <2> QED BY <1>1, <1>2, SetInduction
<1> QED BY <1>3

\* The sum of the first m lengths depends on nothing else.
LEMMA SumsAgree ==
  ASSUME NEW s \in Seq(Nat), NEW t \in Seq(Nat), NEW m \in 0 .. Len(s), m <= Len(t),
         \A n \in 1 .. m : s[n] = t[n]
  PROVE  Sums(s)[m] = Sums(t)[m]
<1> DEFINE S == {n \in Nat : n <= m => Sums(s)[n] = Sums(t)[n]}
<1>1. 0 \in S
  BY SumsStep
<1>2. ASSUME NEW n \in Nat, n \in S PROVE n + 1 \in S
  <2> SUFFICES ASSUME n + 1 <= m PROVE Sums(s)[n + 1] = Sums(t)[n + 1]
    OBVIOUS
  <2>1. Sums(s)[n + 1] = Sums(s)[n] + s[n + 1]
    BY SumsStep
  <2>2. Sums(t)[n + 1] = Sums(t)[n] + t[n + 1]
    BY SumsStep
  <2> QED BY <1>2, <2>1, <2>2
<1>3. Nat \subseteq S
  <2> HIDE DEF S
  <2> QED BY <1>1, <1>2, SetInduction
<1> QED BY <1>3

\* A total grows by what is appended.
LEMMA TotalFacts ==
  ASSUME NEW s \in Seq(Nat)
  PROVE  /\ Total(s) \in Nat
         /\ Total(<<>>) = 0
         /\ \A n \in Nat : Total(Append(s, n)) = Total(s) + n
<1>1. Total(s) \in Nat
  BY SumsType DEF Total
<1>2. Total(<<>>) = 0
  <2>1. <<>> \in Seq(Nat) /\ Len(<<>>) = 0
    OBVIOUS
  <2> QED BY <2>1, SumsStep DEF Total
<1>3. ASSUME NEW n \in Nat PROVE Total(Append(s, n)) = Total(s) + n
  <2> DEFINE u == Append(s, n)
  <2>1. /\ u \in Seq(Nat) /\ Len(u) = Len(s) + 1 /\ Len(s) \in Nat
        /\ u[Len(s) + 1] = n /\ \A i \in 1 .. Len(s) : s[i] = u[i]
    OBVIOUS
  <2> HIDE DEF u
  <2>2. Sums(u)[Len(s)] = Sums(s)[Len(s)]
    <3>1. Len(s) \in 0 .. Len(s) /\ Len(s) <= Len(u)
      BY <2>1
    <3> QED BY <2>1, <3>1, SumsAgree
  <2>3. Sums(u)[Len(s) + 1] = Sums(u)[Len(s)] + n
    BY <2>1, SumsStep
  <2> QED BY <2>1, <2>2, <2>3 DEF Total, u
<1> QED BY <1>1, <1>2, <1>3

\* Totals of texts that are joined add up.
LEMMA TotalConcat ==
  ASSUME NEW s \in Seq(Nat), NEW t \in Seq(Nat)
  PROVE  Total(s \o t) = Total(s) + Total(t)
<1> DEFINE u == s \o t
<1>1. /\ u \in Seq(Nat) /\ Len(u) = Len(s) + Len(t) /\ Len(s) \in Nat /\ Len(t) \in Nat
      /\ \A i \in 1 .. Len(s) : s[i] = u[i]
      /\ \A i \in 1 .. Len(t) : t[i] = u[Len(s) + i]
  OBVIOUS
<1> HIDE DEF u
<1> DEFINE S == {n \in Nat : n <= Len(t) => Sums(u)[Len(s) + n] = Total(s) + Sums(t)[n]}
<1>2. 0 \in S
  <2>1. Sums(u)[Len(s)] = Total(s) /\ Total(s) \in Nat
    <3>1. Len(s) \in 0 .. Len(s) /\ Len(s) <= Len(u)
      BY <1>1
    <3>2. Sums(s)[Len(s)] = Sums(u)[Len(s)]
      BY <1>1, <3>1, SumsAgree
    <3> QED BY <3>1, <3>2, SumsType DEF Total
  <2>2. Sums(t)[0] = 0
    BY SumsStep
  <2> QED BY <1>1, <2>1, <2>2
<1>3. ASSUME NEW n \in Nat, n \in S PROVE n + 1 \in S
  <2> SUFFICES ASSUME n + 1 <= Len(t) PROVE Sums(u)[Len(s) + (n + 1)] = Total(s) + Sums(t)[n + 1]
    OBVIOUS
  <2>1. Sums(u)[Len(s) + (n + 1)] = Sums(u)[Len(s) + n] + t[n + 1]
    <3>1. Len(s) + (n + 1) \in 1 .. Len(u) /\ (Len(s) + (n + 1)) - 1 = Len(s) + n
      BY <1>1
    <3>2. u[Len(s) + (n + 1)] = t[n + 1]
      BY <1>1
    <3> QED BY <1>1, <3>1, <3>2, SumsStep
  <2>2. Sums(t)[n + 1] = Sums(t)[n] + t[n + 1]
    BY SumsStep
  <2>3. Sums(t)[n] \in Nat /\ Total(s) \in Nat /\ t[n + 1] \in Nat
    BY <1>1, SumsType DEF Total
  <2> QED BY <1>3, <2>1, <2>2, <2>3
<1>4. Nat \subseteq S
  <2> HIDE DEF S
  <2> QED BY <1>2, <1>3, SetInduction
<1> QED BY <1>1, <1>4 DEF Total, u

-----------------------------------------------------------------------------
\* FrameDecoder

\* What fragmentBytes is worth.
Sizes ==
  /\ state = "open" => fragmentBytes = Total(parts) /\ fragmentBytes <= MaxLine
  /\ fragmentBytes \in 0 .. Over

Inv == TypeOK /\ Sizes /\ NothingStuck /\ Bounded

\* The limits.
LEMMA Limits ==
  /\ Short \in Nat /\ Wide \in Nat /\ MaxLine \in Nat /\ MaxHandshake \in Nat
  /\ Short < MaxLine /\ MaxLine > 0 /\ MaxHandshake > 0
  /\ MaxChunk \in Nat /\ MaxBuffer \in Nat /\ MaxBuffer > 0
  BY LimitAssumption, DecoderAssumption

\* What an answer and a frame are made of.
LEMMA AnswerFacts ==
  ASSUME NEW f \in Answer
  PROVE  f.op = "answer" /\ f.ok \in BOOLEAN /\ f.len \in 1 .. MaxHandshake + 1
  BY DEF Answer

\* The fields of a frame; only a message that ends can fail to decode.
LEMMA FrameFacts ==
  ASSUME NEW f \in Frame
  PROVE  /\ f.op \in Control \cup Data \cup {"bad"} /\ f.op # "answer"
         /\ f.fin \in BOOLEAN /\ f.ok \in BOOLEAN
         /\ f.ext \in {0, 2, 8} /\ f.len \in 0 .. MaxLine + 1
         /\ f.ok \/ (f.fin /\ f.op \in {"text", "cont"})
  BY DEF Frame, Control, Data

\* The lengths of fragments, and what they come to.
LEMMA PartsFacts ==
  ASSUME NEW s \in Seq(0 .. MaxLine)
  PROVE  /\ Total(s) \in Nat
         /\ <<>> \in Seq(0 .. MaxLine) /\ Total(<<>>) = 0
         /\ \A n \in 0 .. MaxLine :
              /\ <<n>> \in Seq(0 .. MaxLine) /\ Total(<<n>>) = n
              /\ Append(s, n) \in Seq(0 .. MaxLine) /\ Total(Append(s, n)) = Total(s) + n
<1>1. s \in Seq(Nat) /\ <<>> \in Seq(Nat) /\ <<>> \in Seq(0 .. MaxLine)
  BY Limits
<1>2. Total(s) \in Nat /\ Total(<<>>) = 0
  BY <1>1, TotalFacts
<1>3. ASSUME NEW n \in 0 .. MaxLine
      PROVE  /\ <<n>> \in Seq(0 .. MaxLine) /\ Append(s, n) \in Seq(0 .. MaxLine)
             /\ Total(<<n>>) = n /\ Total(Append(s, n)) = Total(s) + n
  <2>1. n \in Nat /\ <<n>> = Append(<<>>, n)
    BY Limits
  <2>2. Total(Append(s, n)) = Total(s) + n /\ Total(Append(<<>>, n)) = Total(<<>>) + n
    BY <1>1, <2>1, TotalFacts
  <2> QED BY <1>2, <2>1, <2>2
<1> QED BY <1>1, <1>2, <1>3

\* What comes next is the answer to the upgrade or a frame.
LEMMA NextIs ==
  ASSUME TypeOK
  PROVE  IF handshakeComplete THEN next \in Frame ELSE next \in Answer
  BY AnswerFacts, FrameFacts DEF TypeOK, handshakeComplete

\* What a frame can lead to.
LEMMA OutputFacts ==
  /\ Nothing \in Output /\ Crash \in Output /\ Nothing # Crash
  /\ \A n \in Nat, i \in {"message", "pong"} : [is |-> i, bytes |-> n] \in Output
<1>1. Nothing.is # Crash.is
  BY DEF Nothing, Crash
<1> QED BY <1>1 DEF Nothing, Crash, Output

\* The buffers are empty before the first chunk.
LEMMA InitInv == Init => Inv
<1> SUFFICES ASSUME Init PROVE Inv
  OBVIOUS
<1>1. next \in Answer /\ ~handshakeComplete /\ next.len > 0
  BY AnswerFacts DEF Init, MessagesInit, handshakeComplete
<1>2. parts \in Seq(0 .. MaxLine) /\ Total(parts) = 0
  <2>1. <<>> \in Seq(0 .. MaxLine)
    OBVIOUS
  <2> QED BY <2>1, PartsFacts DEF Init, MessagesInit
<1>3. TypeOK
  <2>1. out \in Output /\ out # Crash /\ state \in End \cup {"open"} /\ stdinErrored = FALSE
    BY OutputFacts DEF Init, MessagesInit
  <2>2. have \in 0 .. MaxBuffer
    BY Limits DEF Init
  <2> QED BY <1>1, <1>2, <2>1, <2>2 DEF Init, TypeOK
<1>4. Sizes
  BY <1>2, Limits DEF Init, Sizes, Over
<1>5. NothingStuck /\ Bounded
  BY <1>1, Limits DEF Init, NothingStuck, Bounded
<1> QED BY <1>3, <1>4, <1>5 DEF Inv

\* The effect of one whole frame within the limit.
FrameEffect ==
  /\ parts' \in Seq(0 .. MaxLine) /\ out' \in Output
  /\ state' \in End \cup {"open"}
  /\ fragmentBytes' \in 0 .. Over
  /\ fragmentBytes' = Total(parts') \/ (fragmentBytes' = Over /\ state' # "open")
  /\ state' = "open" => fragmentBytes' <= MaxLine
  /\ state # "open" => UNCHANGED state /\ out' \in {out, Crash}
  /\ stdinErrored' \in BOOLEAN

\* Closing twice changes nothing.
LEMMA CloseForFacts ==
  ASSUME NEW why \in End, CloseFor(why), state \in End \cup {"open"}
  PROVE  state' \in End /\ (state # "open" => UNCHANGED state)
  BY DEF CloseFor, End

\* Gathered is exact until it is over the limit, and never lower than what it counts.
LEMMA GatheredFacts ==
  ASSUME TypeOK, Sizes, next \in Frame, next.len <= MaxLine
  PROVE  /\ Gathered \in 0 .. Over /\ next.len \in 0 .. MaxLine
         /\ Gathered # Over => /\ Gathered = Total(parts) + next.len /\ Gathered <= MaxLine
                               /\ fragmentBytes = Total(parts)
         /\ Gathered = Over => Total(parts) + next.len > MaxLine \/ state # "open"
         /\ Total(parts) \in Nat
<1>1. Total(parts) \in Nat
  BY PartsFacts DEF TypeOK
<1>2. next.len \in 0 .. MaxLine
  BY FrameFacts, Limits
<1> QED BY <1>1, <1>2, Limits DEF TypeOK, Sizes, Gathered, Over

\* onTextPayload
LEMMA TextHasEffect ==
  ASSUME NEW n \in Nat, OnTextPayload(n), out \in Output, state \in End \cup {"open"}
  PROVE  /\ out' \in Output /\ state' \in End \cup {"open"}
         /\ state' = "open" => state = "open"
         /\ state # "open" => UNCHANGED <<state, out>>
<1> DEFINE m == [is |-> "message", bytes |-> n]
<1>1. m \in Output /\ Nothing \in Output
  BY OutputFacts
<1>2. CASE next.ok
  <2>1. Say(m) /\ UNCHANGED state
    BY <1>2 DEF OnTextPayload
  <2> HIDE DEF m
  <2> QED BY <1>1, <2>1 DEF Say
<1>3. CASE ~next.ok
  <2>1. Say(Nothing) /\ state' \in End /\ (state # "open" => UNCHANGED state)
    BY <1>3, CloseForFacts DEF OnTextPayload, ProtocolFailure, End
  <2>2. state' # "open"
    BY <2>1 DEF End
  <2> QED BY <1>1, <2>1, <2>2 DEF Say
<1> QED BY <1>2, <1>3

\* onFrame, opcode by opcode.
LEMMA FrameHasEffect ==
  ASSUME TypeOK, Sizes, next \in Frame, next.len <= MaxLine, OnFrame
  PROVE  FrameEffect
<1>0. stdinErrored \in BOOLEAN
  BY DEF TypeOK
<1>1. /\ parts \in Seq(0 .. MaxLine) /\ out \in Output /\ state \in End \cup {"open"}
      /\ fragmentBytes \in 0 .. Over /\ next.len \in 0 .. MaxLine
      /\ fragmentBytes = Total(parts) \/ (fragmentBytes = Over /\ state # "open")
      /\ state = "open" => fragmentBytes <= MaxLine
  BY GatheredFacts DEF TypeOK, Sizes
<1>2. Nothing \in Output
  BY OutputFacts
<1>3. ASSUME ProtocolFailure, Say(Nothing), UNCHANGED <<parts, stdinErrored, fragmentBytes>>
      PROVE  FrameEffect
  BY <1>0, <1>1, <1>2, <1>3, CloseForFacts DEF FrameEffect, ProtocolFailure, Say, End
<1>4. ASSUME NEW n \in Nat, OnTextPayload(n), parts' \in Seq(0 .. MaxLine),
             fragmentBytes' = Total(parts'), fragmentBytes' \in 0 .. MaxLine,
             UNCHANGED stdinErrored
      PROVE  FrameEffect
  <2>1. fragmentBytes' \in 0 .. Over /\ fragmentBytes' <= MaxLine
    BY <1>4, Limits DEF Over
  <2> QED BY <1>0, <1>1, <1>4, <2>1, TextHasEffect DEF FrameEffect
<1>5. ASSUME parts' \in Seq(0 .. MaxLine), fragmentBytes' = Total(parts'),
             fragmentBytes' \in 0 .. MaxLine, Say(Nothing), UNCHANGED <<state, stdinErrored>>
      PROVE  FrameEffect
  BY <1>0, <1>1, <1>2, <1>5, Limits DEF FrameEffect, Say, Over
<1>6. CASE next.op \in Control
  <2>1. OnControl
    BY <1>6 DEF OnFrame, Control
  <2>2. CASE ~next.fin \/ next.len > Short \/ next.op = "reserved"
    BY <1>3, <2>1, <2>2 DEF OnControl
  <2>3. CASE next.fin /\ next.len <= Short /\ next.op = "ping"
    <3>1. /\ SendPong /\ UNCHANGED <<parts, fragmentBytes, state>>
          /\ next.len \in Nat /\ 0 \in Nat
      BY <1>1, <2>1, <2>3, Limits DEF OnControl
    <3>2. out' \in Output /\ stdinErrored' \in BOOLEAN /\ (state # "open" => out' = Crash)
      BY <1>0, <3>1, OutputFacts DEF SendPong
    <3> QED BY <1>1, <3>1, <3>2 DEF FrameEffect
  <2>4. CASE next.fin /\ next.len <= Short /\ next.op = "close"
    BY <1>0, <1>1, <1>2, <2>1, <2>4, CloseForFacts, Limits DEF OnControl, Say, FrameEffect, End
  <2>5. CASE next.fin /\ next.len <= Short /\ next.op = "pong"
    BY <1>0, <1>1, <1>2, <2>1, <2>5, Limits DEF OnControl, Say, FrameEffect
  <2> QED BY <1>1, <1>6, <2>2, <2>3, <2>4, <2>5, Limits DEF Control
<1>7. CASE next.op = "text"
  <2>1. OnText /\ UNCHANGED stdinErrored
    BY <1>7 DEF OnFrame, OnDataFrame, Control
  <2>2. CASE parts # <<>>
    BY <1>3, <2>1, <2>2 DEF OnText, Quiet
  <2>3. CASE parts = <<>> /\ next.fin
    <3>1. next.len \in Nat /\ OnTextPayload(next.len) /\ UNCHANGED <<parts, fragmentBytes>>
      BY <1>1, <2>1, <2>3, Limits DEF OnText
    <3>2. CASE fragmentBytes = Over
      <4>1. state # "open"
        BY <1>1, <3>2, Limits DEF Over
      <4> QED BY <1>0, <1>1, <2>1, <3>1, <3>2, <4>1, TextHasEffect DEF FrameEffect
    <3>3. CASE fragmentBytes = Total(parts)
      <4>1. Total(parts) = 0 /\ 0 \in 0 .. MaxLine
        <5>1. Total(<<>>) = 0
          BY <1>1, PartsFacts
        <5> QED BY <2>3, <5>1, Limits
      <4> QED BY <1>1, <1>4, <2>1, <3>1, <3>3, <4>1
    <3> QED BY <1>1, <3>2, <3>3
  <2>4. CASE parts = <<>> /\ ~next.fin
    <3>1. Total(<<next.len>>) = next.len
      BY <1>1, PartsFacts
    <3> QED BY <1>1, <1>5, <2>1, <2>4, <3>1, PartsFacts DEF OnText
  <2> QED BY <2>2, <2>3, <2>4
<1>8. CASE next.op = "cont"
  <2>1. OnContinuation /\ UNCHANGED stdinErrored
    BY <1>8 DEF OnFrame, OnDataFrame, Control
  <2>2. CASE parts = <<>>
    BY <1>3, <2>1, <2>2 DEF OnContinuation, Quiet
  <2>3. CASE parts # <<>> /\ Gathered = Over
    BY <1>0, <1>1, <1>2, <2>1, <2>3, CloseForFacts, Limits
       DEF OnContinuation, FrameEffect, ProtocolFailure, Say, End, Over
  <2>4. CASE parts # <<>> /\ Gathered # Over /\ next.fin
    <3>1. /\ OnTextPayload(Gathered) /\ parts' = <<>> /\ fragmentBytes' = 0
          /\ Gathered \in Nat
      BY <2>1, <2>4, GatheredFacts, Limits DEF OnContinuation, Drop, Over
    <3>2. <<>> \in Seq(0 .. MaxLine) /\ Total(<<>>) = 0 /\ 0 \in 0 .. MaxLine
      BY <1>1, PartsFacts, Limits
    <3> QED BY <1>4, <2>1, <3>1, <3>2
  <2>5. CASE parts # <<>> /\ Gathered # Over /\ ~next.fin
    <3>1. Total(parts') = Gathered /\ Gathered \in 0 .. MaxLine /\ parts' \in Seq(0 .. MaxLine)
      <4>1. parts' = Append(parts, next.len) /\ Gathered = Total(parts) + next.len
            /\ Gathered \in 0 .. Over /\ Gathered <= MaxLine
        BY <2>1, <2>5, GatheredFacts DEF OnContinuation
      <4>2. Append(parts, next.len) \in Seq(0 .. MaxLine)
            /\ Total(Append(parts, next.len)) = Total(parts) + next.len
        BY <1>1, PartsFacts
      <4>3. Gathered \in 0 .. MaxLine
        BY <4>1, Limits DEF Over
      <4> QED BY <4>1, <4>2, <4>3
    <3> QED BY <1>5, <2>1, <2>5, <3>1 DEF OnContinuation
  <2> QED BY <2>2, <2>3, <2>4, <2>5
<1>9. CASE next.op \in {"binary", "bad"}
  BY <1>3, <1>9 DEF OnFrame, OnDataFrame, Quiet, Control
<1> QED BY <1>6, <1>7, <1>8, <1>9, FrameFacts DEF Data

-----------------------------------------------------------------------------
\* A refusal ends the connection.
LEMMA RefusalFacts ==
  ASSUME TypeOK, ProtocolFailure
  PROVE  state' \in End /\ state' # "open" /\ (state # "open" => UNCHANGED state)
         /\ (state = "open" => state' = "protocol_error")
  BY CloseForFacts DEF TypeOK, ProtocolFailure, CloseFor, End

\* A chunk, to the handshake or to the frames.
LEMMA StdoutKeepsInv == Inv /\ OnStdout => Inv'
<1> SUFFICES ASSUME Inv, OnStdout PROVE Inv'
  OBVIOUS
<1> USE DEF Inv
<1>1. PICK n \in 1 .. MaxChunk :
        /\ have + n <= MaxBuffer
        /\ IF handshakeComplete
           THEN have' = have + n /\ handling' = TRUE /\ UNCHANGED <<next, state>>
           ELSE OnHandshakeData(have + n)
  BY DEF OnStdout
<1>2. /\ ~handling /\ out # Crash /\ UNCHANGED <<parts, out, stdinErrored, fragmentBytes>>
      /\ have \in Nat /\ have + n \in 0 .. MaxBuffer
  BY <1>1, Limits DEF OnStdout, TypeOK
<1>3. CASE handshakeComplete
  <2>1. TypeOK'
    BY <1>1, <1>2, <1>3 DEF TypeOK, handshakeComplete
  <2> QED BY <1>1, <1>2, <1>3, <2>1 DEF Sizes, NothingStuck, Bounded
<1>4. CASE ~handshakeComplete /\ RefuseAnswer(have + n)
  <2>1. state' \in End /\ state' # "open"
    BY <1>4, RefusalFacts DEF RefuseAnswer
  <2>2. TypeOK'
    BY <1>2, <1>4, <2>1 DEF TypeOK, RefuseAnswer, handshakeComplete
  <2> QED BY <1>2, <2>1, <2>2 DEF Sizes, NothingStuck, Bounded, InUse
<1>5. CASE ~handshakeComplete /\ have + n <= MaxHandshake /\ have + n < next.len /\ AwaitAnswer(have + n)
  <2>1. TypeOK'
    BY <1>2, <1>5 DEF TypeOK, AwaitAnswer, handshakeComplete
  <2> QED BY <1>2, <1>5, <2>1, Limits
          DEF Sizes, NothingStuck, Bounded, InUse, AwaitAnswer, handshakeComplete
<1>6. CASE /\ ~handshakeComplete /\ have + n >= next.len
           /\ have' = have + n - next.len /\ handling' = (have' > 0) /\ Reach /\ UNCHANGED state
  <2>1. next' \in Frame /\ handshakeComplete' /\ next.len \in Nat
    BY <1>6, NextIs, AnswerFacts, FrameFacts, Limits DEF Reach, handshakeComplete
  <2>2. have' \in 0 .. MaxBuffer /\ handling' \in BOOLEAN /\ (~handling' => have' = 0)
    <3>1. have' \in 0 .. MaxBuffer
      BY <1>2, <1>6, <2>1, Limits
    <3>2. CASE have' > 0
      BY <1>6, <3>1, <3>2
    <3>3. CASE ~(have' > 0)
      <4>1. have' = 0
        BY <3>1, <3>3, Limits
      <4>2. handling' = FALSE
        <5>1. (have' > 0) = FALSE
          BY <3>3
        <5> QED BY <1>6, <5>1
      <4> QED BY <3>1, <4>1, <4>2
    <3> QED BY <3>2, <3>3
  <2>3. TypeOK'
    BY <1>2, <1>6, <2>1, <2>2 DEF TypeOK
  <2>4. next'.ext \in {0, 2, 8} /\ next'.len \in Nat
    BY <2>1, FrameFacts, Limits
  <2>5. ~handling' => have' < HeaderLength' + next'.len /\ have' < 10 + MaxLine
    BY <2>2, <2>4, Limits DEF HeaderLength
  <2> QED BY <1>2, <1>6, <2>1, <2>3, <2>5 DEF Sizes, NothingStuck, Bounded, InUse
<1> QED
  <2>1. next.len \in Nat
    BY NextIs, FrameFacts, AnswerFacts, Limits
  <2> QED BY <1>1, <1>2, <1>3, <1>4, <1>5, <1>6, <2>1, Limits DEF OnHandshakeData

\* One turn of the loop.
LEMMA FrameDataKeepsInv == Inv /\ OnFrameData => Inv'
<1> SUFFICES ASSUME Inv, OnFrameData PROVE Inv'
  OBVIOUS
<1> USE DEF Inv
<1>1. /\ handling /\ handshakeComplete /\ next \in Frame
      /\ have \in 0 .. MaxBuffer /\ next.len \in Nat
      /\ HeaderLength \in {2, 4, 10}
  BY NextIs, FrameFacts, Limits DEF OnFrameData, TypeOK, HeaderLength
<1>2. CASE Await /\ have < HeaderLength + next.len /\ (have < 10 + MaxLine)
  <2>1. TypeOK'
    BY <1>2 DEF Await, messagesVars, TypeOK, handshakeComplete
  <2> QED BY <1>1, <1>2, <2>1
          DEF Await, messagesVars, Sizes, NothingStuck, Bounded, InUse, HeaderLength, handshakeComplete
<1>3. CASE Refuse
  <2>1. state' \in End /\ state' # "open"
    BY <1>3, RefusalFacts DEF Refuse
  <2>2. TypeOK'
    BY <1>3, <2>1 DEF TypeOK, Refuse, handshakeComplete
  <2> QED BY <1>3, <2>1, <2>2 DEF Refuse, Sizes, NothingStuck, Bounded, InUse
<1>4. CASE /\ TakeFrame(HeaderLength + next.len)
           /\ have >= HeaderLength + next.len /\ next.len <= MaxLine
  <2>1. FrameEffect
    BY <1>1, <1>4, FrameHasEffect DEF TakeFrame
  <2>2. /\ next' \in Frame /\ handshakeComplete'
        /\ handling' \in BOOLEAN /\ (InUse' <=> handling')
        /\ have' \in 0 .. MaxBuffer
    <3>1. next' \in Frame /\ handshakeComplete' /\ have' \in 0 .. MaxBuffer
      BY <1>1, <1>4, FrameFacts, Limits DEF TakeFrame, Reach, handshakeComplete
    <3> QED BY <1>4, <3>1 DEF TakeFrame, InUse
  <2>3. TypeOK' /\ Sizes'
    BY <2>1, <2>2 DEF TypeOK, Sizes, FrameEffect, Over, InUse
  <2> QED BY <2>2, <2>3 DEF NothingStuck, Bounded
<1> QED BY <1>1, <1>2, <1>3, <1>4, Limits DEF OnFrameData, ScanFrame

\* A chunk, a turn of the loop and a close keep the invariant.
LEMMA NextInv == Inv /\ [Next]_vars => Inv'
<1> SUFFICES ASSUME Inv, [Next]_vars PROVE Inv'
  OBVIOUS
<1>1. CASE Closes
  <2>1. state' \in End /\ state' # "open"
    BY <1>1 DEF Closes, CloseFor, InUse, End
  <2>2. UNCHANGED <<next, parts, out, stdinErrored, have, fragmentBytes, handling>>
    BY <1>1 DEF Closes
  <2> QED BY <2>1, <2>2 DEF Inv, TypeOK, Sizes, NothingStuck, Bounded, InUse, handshakeComplete
<1>2. CASE UNCHANGED vars
  BY <1>2 DEF vars, messagesVars, Inv, TypeOK, Sizes, NothingStuck, Bounded, InUse, HeaderLength,
              handshakeComplete
<1> QED BY <1>1, <1>2, StdoutKeepsInv, FrameDataKeepsInv DEF Next

\* The inductive invariant holds: see Sizes, NothingStuck and Bounded.
THEOREM DecoderCorrect == Spec => []Inv
  BY InitInv, NextInv, PTL DEF Spec

\* Every reachable state is well-typed; fragmentBytes counts the fragments
\* that are kept until the limit has closed the client.
THEOREM DecoderTypeCorrect == Spec => []TypeOK
<1>1. Inv => TypeOK
  BY DEF Inv
<1> QED BY <1>1, DecoderCorrect, PTL

\* Between two chunks no whole frame and no whole answer is left in the buffer.
THEOREM DecoderLeavesNothing == Spec => []NothingStuck
<1>1. Inv => NothingStuck
  BY DEF Inv
<1> QED BY <1>1, DecoderCorrect, PTL

\* Between two chunks the buffers keep their limits.
THEOREM DecoderStaysBounded == Spec => []Bounded
<1>1. Inv => Bounded
  BY DEF Inv
<1> QED BY <1>1, DecoderCorrect, PTL

-----------------------------------------------------------------------------
\* A refusal of an illegal frame, or one that comes too late.
LEMMA RefusalImplements ==
  ASSUME TypeOK, ProtocolFailure, out' \in {out, Nothing}, state = "open" => ~Legal(next),
         state # "open" => UNCHANGED out, UNCHANGED stdinErrored
  PROVE  Break \/ Ignore
<1>1. CASE state = "open"
  BY <1>1, RefusalFacts DEF Break
<1>2. CASE state # "open"
  BY <1>2, RefusalFacts DEF Ignore
<1> QED BY <1>1, <1>2

\* A chunk upgrades the connection, breaks it or shows nothing.
LEMMA StdoutImplements == Inv /\ OnStdout => MessagesNext \/ UNCHANGED messagesVars
<1> SUFFICES ASSUME Inv, OnStdout PROVE MessagesNext \/ UNCHANGED messagesVars
  OBVIOUS
<1>1. PICK n \in 1 .. MaxChunk :
        IF handshakeComplete THEN UNCHANGED <<next, state>> ELSE OnHandshakeData(have + n)
  BY DEF OnStdout
<1>2. out # Crash /\ UNCHANGED <<parts, out, stdinErrored>>
  BY DEF OnStdout
<1>3. CASE ~handshakeComplete /\ RefuseAnswer(have + n)
  <2>1. ~Legal(next)
    BY <1>3 DEF Legal, handshakeComplete
  <2> QED BY <1>2, <1>3, <2>1, RefusalImplements DEF Inv, RefuseAnswer, MessagesNext
<1>4. CASE ~handshakeComplete /\ next.ok /\ Reach /\ UNCHANGED state
  BY <1>2, <1>4 DEF Reach, handshakeComplete, MessagesNext, Upgrade
<1> QED BY <1>1, <1>2, <1>3, <1>4 DEF OnHandshakeData, AwaitAnswer, messagesVars

\* A whole frame within the limit, taken by an open client.
LEMMA FrameImplements ==
  ASSUME Inv, state = "open", out # Crash, next \in Frame, next.len <= MaxLine,
         next' \in Frame, OnFrame
  PROVE  MessagesNext
<1>1. /\ TypeOK /\ Sizes /\ fragmentBytes = Total(parts)
      /\ Total(parts) \in Nat /\ next.len \in 0 .. MaxLine
      /\ next.fin \in BOOLEAN /\ next.ok \in BOOLEAN
      /\ next.ok \/ (next.fin /\ next.op \in {"text", "cont"})
  BY GatheredFacts, FrameFacts DEF Inv, Sizes
<1>2. ASSUME ProtocolFailure, Say(Nothing), ~Legal(next), UNCHANGED stdinErrored
      PROVE  MessagesNext
  BY <1>1, <1>2, RefusalImplements DEF Say, MessagesNext
<1>3. Receive => MessagesNext
  BY DEF MessagesNext
<1>4. CASE next.op \in Control
  <2>1. OnControl
    BY <1>4 DEF OnFrame, Control
  <2>2. CASE ~next.fin \/ next.len > Short \/ next.op = "reserved"
    <3>1. ~Legal(next)
      BY <1>1, <1>4, <2>2, Limits DEF Legal, Control
    <3> QED BY <1>2, <2>1, <2>2, <3>1 DEF OnControl
  <2>3. CASE next.fin /\ next.len <= Short /\ next.op \in {"ping", "pong", "close"}
    <3>1. Legal(next)
      BY <2>3 DEF Legal
    <3>2. ~(~next.fin \/ next.len > Short \/ next.op = "reserved")
      BY <1>1, <2>3, Limits
    <3>3. Ping \/ Pong \/ Close
      BY <2>1, <2>3, <3>2 DEF OnControl, SendPong, Say, CloseFor, Ping, Pong, Close
    <3> QED BY <1>3, <3>1, <3>3 DEF Receive
  <2> QED BY <1>1, <1>4, <2>2, <2>3, Limits DEF Control
<1>5. CASE next.op = "text"
  <2>1. OnText /\ UNCHANGED stdinErrored
    BY <1>5 DEF OnFrame, OnDataFrame, Control
  <2>2. CASE parts # <<>>
    <3>1. ~Legal(next)
      BY <1>5, <2>2 DEF Legal
    <3> QED BY <1>2, <2>1, <2>2, <3>1 DEF OnText, Quiet
  <2>3. CASE parts = <<>> /\ ~next.fin
    <3>1. Legal(next) /\ <<next.len>> = Append(parts, next.len)
      BY <1>1, <1>5, <2>3 DEF Legal
    <3>2. Fragment
      BY <1>5, <2>1, <2>3, <3>1 DEF OnText, Say, Fragment, Data
    <3> QED BY <1>3, <3>1, <3>2 DEF Receive
  <2>4. CASE parts = <<>> /\ next.fin /\ next.ok
    <3>1. Legal(next)
      BY <1>1, <1>5, <2>4 DEF Legal
    <3>2. Total(parts) + next.len = next.len
      <4>1. Total(<<>>) = 0
        BY <1>1, PartsFacts DEF TypeOK
      <4> QED BY <1>1, <2>4, <4>1, Limits
    <3>3. Message
      BY <1>5, <2>1, <2>4, <3>2 DEF OnText, OnTextPayload, Say, Message, Data
    <3> QED BY <1>3, <3>1, <3>3 DEF Receive
  <2>5. CASE parts = <<>> /\ next.fin /\ ~next.ok
    <3>1. ~Legal(next)
      BY <1>5, <2>5 DEF Legal
    <3> QED BY <1>2, <2>1, <2>5, <3>1 DEF OnText, OnTextPayload
  <2> QED BY <2>2, <2>3, <2>4, <2>5
<1>6. CASE next.op = "cont"
  <2>1. OnContinuation /\ UNCHANGED stdinErrored
    BY <1>6 DEF OnFrame, OnDataFrame, Control
  <2>2. CASE parts = <<>>
    <3>1. ~Legal(next)
      BY <1>6, <2>2 DEF Legal
    <3> QED BY <1>2, <2>1, <2>2, <3>1 DEF OnContinuation, Quiet
  <2>3. CASE parts # <<>> /\ Gathered = Over
    <3>1. ~Legal(next)
      BY <1>1, <1>6, <2>3, GatheredFacts, Limits DEF Legal
    <3> QED BY <1>2, <2>1, <2>3, <3>1 DEF OnContinuation
  <2>4. CASE parts # <<>> /\ Gathered # Over
    <3>1. Gathered = Total(parts) + next.len /\ Gathered <= MaxLine
      BY <1>1, <2>4, GatheredFacts
    <3>2. CASE next.ok
      <4>1. Legal(next)
        BY <1>6, <2>4, <3>1, <3>2 DEF Legal
      <4>2. CASE next.fin
        <5>1. Message
          BY <1>6, <2>1, <2>4, <3>1, <3>2, <4>2
             DEF OnContinuation, Drop, OnTextPayload, Say, Message, Data
        <5> QED BY <1>3, <4>1, <5>1 DEF Receive
      <4>3. CASE ~next.fin
        <5>1. Fragment
          BY <1>6, <2>1, <2>4, <4>3 DEF OnContinuation, Say, Fragment, Data
        <5> QED BY <1>3, <4>1, <5>1 DEF Receive
      <4> QED BY <4>2, <4>3
    <3>3. CASE ~next.ok
      <4>1. ~Legal(next)
        BY <1>6, <3>3 DEF Legal
      <4> QED BY <1>1, <1>2, <2>1, <2>4, <3>3, <4>1 DEF OnContinuation, OnTextPayload
    <3> QED BY <3>2, <3>3
  <2> QED BY <2>2, <2>3, <2>4
<1>7. CASE next.op \in {"binary", "bad"}
  <2>1. ~Legal(next)
    BY <1>7 DEF Legal
  <2> QED BY <1>2, <1>7, <2>1 DEF OnFrame, OnDataFrame, Quiet, Control
<1> QED BY <1>4, <1>5, <1>6, <1>7, FrameFacts DEF Data

\* A frame that comes too late.
LEMMA LateImplements ==
  ASSUME Inv, state # "open", next \in Frame, OnFrame
  PROVE  Ignore
<1>1. /\ next.fin \in BOOLEAN /\ state \in End
  BY FrameFacts DEF Inv, TypeOK
<1>2. ASSUME ProtocolFailure PROVE UNCHANGED state
  BY <1>2, RefusalFacts DEF Inv
<1>3. ASSUME Say(Nothing) PROVE UNCHANGED out
  BY <1>3 DEF Say
<1>4. ASSUME NEW n, OnTextPayload(n) PROVE UNCHANGED <<state, out>>
  BY <1>2, <1>4 DEF OnTextPayload, Say
<1>5. CASE next.op \in Control
  <2>1. OnControl
    BY <1>5 DEF OnFrame, Control
  <2>2. UNCHANGED state
    BY <1>2, <2>1 DEF OnControl, CloseFor
  <2>3. \/ UNCHANGED <<out, stdinErrored>>
        \/ next.op = "ping" /\ out' = Crash /\ UNCHANGED stdinErrored
    BY <1>3, <2>1 DEF OnControl, SendPong
  <2> QED BY <2>2, <2>3 DEF Ignore
<1>6. CASE next.op = "text"
  <2>1. OnText /\ UNCHANGED stdinErrored
    BY <1>6 DEF OnFrame, OnDataFrame, Control
  <2> QED BY <1>2, <1>3, <1>4, <2>1 DEF OnText, Quiet, Ignore
<1>7. CASE next.op = "cont"
  <2>1. OnContinuation /\ UNCHANGED stdinErrored
    BY <1>7 DEF OnFrame, OnDataFrame, Control
  <2> QED BY <1>2, <1>3, <1>4, <2>1 DEF OnContinuation, Quiet, Ignore
<1>8. CASE next.op \in {"binary", "bad"}
  BY <1>2, <1>3, <1>8 DEF OnFrame, OnDataFrame, Quiet, Control, Ignore
<1> QED BY <1>5, <1>6, <1>7, <1>8, FrameFacts DEF Data

\* One turn of the loop is one step on one frame, or none.
LEMMA FrameDataImplements == Inv /\ OnFrameData => MessagesNext \/ UNCHANGED messagesVars
<1> SUFFICES ASSUME Inv, OnFrameData PROVE MessagesNext \/ UNCHANGED messagesVars
  OBVIOUS
<1>1. next \in Frame /\ TypeOK /\ Sizes /\ out # Crash
  BY NextIs DEF Inv, OnFrameData, TypeOK
<1>2. /\ next.len \in Nat /\ Total(parts) \in Nat /\ HeaderLength \in {2, 4, 10}
  BY <1>1, FrameFacts, PartsFacts, Limits DEF HeaderLength, TypeOK
<1>3. CASE Await
  BY <1>3 DEF Await
<1>4. CASE Refuse /\ (next.op = "bad" \/ next.len > MaxLine)
  <2>1. ~Legal(next)
    <3>1. next.op = "bad" => ~Legal(next)
      BY DEF Legal
    <3>2. next.len > MaxLine => ~Legal(next)
      BY <1>2, Limits DEF Legal
    <3> QED BY <1>4, <3>1, <3>2
  <2> QED BY <1>1, <1>4, <2>1, RefusalImplements DEF Refuse, MessagesNext
<1>5. CASE TakeFrame(HeaderLength + next.len) /\ next.len <= MaxLine
  <2>1. next' \in Frame /\ OnFrame
    BY <1>5 DEF TakeFrame, Reach
  <2> QED BY <1>1, <1>5, <2>1, FrameImplements, LateImplements DEF MessagesNext
<1> QED BY <1>2, <1>3, <1>4, <1>5, Limits DEF OnFrameData, ScanFrame

\* Whatever the limits and the chunks, the client treats the frames as they come
\* one by one: onFrameData and onFrame implement Messages.
THEOREM DecoderImplements == Spec => ImplementsMessages
<1>1. Init => MessagesInit
  BY DEF Init
<1>2. Inv /\ [Next]_vars => [MessagesNext]_messagesVars
  <2> SUFFICES ASSUME Inv, [Next]_vars PROVE [MessagesNext]_messagesVars
    OBVIOUS
  <2>1. CASE Closes
    BY <2>1 DEF Closes, CloseFor, InUse, MessagesNext, GiveUp
  <2>2. CASE UNCHANGED vars
    BY <2>2 DEF vars
  <2> QED BY <2>1, <2>2, StdoutImplements, FrameDataImplements DEF Next
<1> QED BY <1>1, <1>2, DecoderCorrect, PTL DEF Spec, ImplementsMessages, MessagesSpec

-----------------------------------------------------------------------------
\* BoundedText

\* The two properties are inductive together: where there is room, stderr is what
\* was written and has no broken character that an appended one would follow.
TextInv == TextTypeOK /\ KeepsThePrefix

\* What a decoded text is made of.
Decoded == Char \cup {Broken}

\* A character takes one to four bytes, U+FFFD three.
LEMMA DecodedFacts ==
  ASSUME NEW c \in Decoded
  PROVE  c.bytes \in 1 .. 4 /\ c.bytes \in Nat
<1>1. CASE c \in Char
  BY <1>1 DEF Char
<1>2. CASE c = Broken
  BY <1>2 DEF Broken
<1> QED BY <1>1, <1>2 DEF Decoded

\* The lengths of a text.
LEMMA LengthsFacts ==
  ASSUME NEW text \in Seq(Decoded)
  PROVE  /\ Lengths(text) \in Seq(Nat) /\ Len(Lengths(text)) = Len(text)
         /\ \A i \in 1 .. Len(text) : Lengths(text)[i] = text[i].bytes /\ text[i].bytes \in 1 .. 4
<1>1. \A i \in 1 .. Len(text) : text[i] \in Decoded
  OBVIOUS
<1>2. \A c \in Decoded : c.bytes \in 1 .. 4 /\ c.bytes \in Nat
  BY DecodedFacts
<1>3. DOMAIN text = 1 .. Len(text) /\ Len(text) \in Nat
  OBVIOUS
<1>4. Lengths(text) \in [1 .. Len(text) -> Nat]
  BY <1>1, <1>2, <1>3 DEF Lengths
<1> QED BY <1>1, <1>2, <1>3, <1>4 DEF Lengths

\* The bytes of a part of a text, of a longer one and of two in a row.
LEMMA BytesFacts ==
  ASSUME NEW text \in Seq(Decoded)
  PROVE  /\ Bytes(text) \in Nat
         /\ \A k \in 0 .. Len(text) :
              /\ SubSeq(text, 1, k) \in Seq(Decoded)
              /\ Bytes(SubSeq(text, 1, k)) = Sums(Lengths(text))[k]
         /\ \A c \in Decoded : Bytes(Append(text, c)) = Bytes(text) + c.bytes
         /\ \A other \in Seq(Decoded) : Bytes(text \o other) = Bytes(text) + Bytes(other)
<1>1. Bytes(text) \in Nat
  BY LengthsFacts, TotalFacts DEF Bytes
<1>2. ASSUME NEW k \in 0 .. Len(text)
      PROVE  /\ SubSeq(text, 1, k) \in Seq(Decoded)
             /\ Bytes(SubSeq(text, 1, k)) = Sums(Lengths(text))[k]
  <2> DEFINE h == SubSeq(text, 1, k)
  <2>1. /\ h \in Seq(Decoded) /\ Len(h) = k /\ \A i \in 1 .. k : h[i] = text[i]
    OBVIOUS
  <2> HIDE DEF h
  <2>2. /\ Lengths(h) \in Seq(Nat) /\ Len(Lengths(h)) = k
        /\ Lengths(text) \in Seq(Nat) /\ Len(Lengths(text)) = Len(text)
        /\ \A i \in 1 .. k : Lengths(h)[i] = Lengths(text)[i]
    BY <2>1, LengthsFacts
  <2>3. k \in 0 .. Len(Lengths(h)) /\ k <= Len(Lengths(text))
    BY <2>2
  <2>4. Sums(Lengths(h))[k] = Sums(Lengths(text))[k]
    BY <2>2, <2>3, SumsAgree
  <2>5. Bytes(h) = Sums(Lengths(text))[k]
    BY <2>2, <2>4 DEF Bytes, Total
  <2> QED BY <2>1, <2>5 DEF h
<1>3. ASSUME NEW c \in Decoded PROVE Bytes(Append(text, c)) = Bytes(text) + c.bytes
  <2> DEFINE u == Append(text, c)
             w == Append(Lengths(text), c.bytes)
  <2>1. /\ u \in Seq(Decoded) /\ Len(u) = Len(text) + 1 /\ Len(text) \in Nat
        /\ u[Len(text) + 1] = c /\ \A i \in 1 .. Len(text) : u[i] = text[i]
    OBVIOUS
  <2>2. /\ Lengths(text) \in Seq(Nat) /\ Len(Lengths(text)) = Len(text) /\ c.bytes \in Nat
        /\ \A i \in 1 .. Len(text) : Lengths(text)[i] = text[i].bytes
    BY LengthsFacts, DecodedFacts
  <2>3. /\ w \in Seq(Nat) /\ Len(w) = Len(text) + 1
        /\ w[Len(text) + 1] = c.bytes /\ \A i \in 1 .. Len(text) : w[i] = text[i].bytes
    BY <2>2
  <2> HIDE DEF u, w
  <2>4. /\ Lengths(u) \in Seq(Nat) /\ Len(Lengths(u)) = Len(text) + 1
        /\ \A i \in 1 .. Len(text) + 1 : Lengths(u)[i] = u[i].bytes
    BY <2>1, LengthsFacts
  <2>5. ASSUME NEW i \in 1 .. Len(text) + 1 PROVE Lengths(u)[i] = w[i]
    <3>1. CASE i = Len(text) + 1
      BY <2>1, <2>3, <2>4, <3>1
    <3>2. CASE i # Len(text) + 1
      <4>1. i \in 1 .. Len(text)
        BY <2>1, <3>2
      <4> QED BY <2>1, <2>3, <2>4, <4>1
    <3> QED BY <3>1, <3>2
  <2>6. Lengths(u) = w
    BY <2>3, <2>4, <2>5, SeqEqual
  <2> QED BY <2>2, <2>6, TotalFacts DEF Bytes, u, w
<1>4. ASSUME NEW other \in Seq(Decoded)
      PROVE  Bytes(text \o other) = Bytes(text) + Bytes(other)
  <2> DEFINE u == text \o other
             w == Lengths(text) \o Lengths(other)
  <2>1. /\ u \in Seq(Decoded) /\ Len(u) = Len(text) + Len(other)
        /\ Len(text) \in Nat /\ Len(other) \in Nat
        /\ \A i \in 1 .. Len(u) : u[i] = IF i <= Len(text) THEN text[i] ELSE other[i - Len(text)]
    OBVIOUS
  <2>2. /\ Lengths(text) \in Seq(Nat) /\ Len(Lengths(text)) = Len(text)
        /\ Lengths(other) \in Seq(Nat) /\ Len(Lengths(other)) = Len(other)
        /\ \A i \in 1 .. Len(text) : Lengths(text)[i] = text[i].bytes
        /\ \A i \in 1 .. Len(other) : Lengths(other)[i] = other[i].bytes
    BY LengthsFacts
  <2>3. /\ w \in Seq(Nat) /\ Len(w) = Len(text) + Len(other)
        /\ \A i \in 1 .. Len(w) : w[i] = IF i <= Len(text) THEN Lengths(text)[i]
                                        ELSE Lengths(other)[i - Len(text)]
    <3>1. /\ w \in Seq(Nat) /\ Len(w) = Len(Lengths(text)) + Len(Lengths(other))
          /\ \A i \in 1 .. Len(Lengths(text)) + Len(Lengths(other)) :
               w[i] = IF i <= Len(Lengths(text)) THEN Lengths(text)[i]
                      ELSE Lengths(other)[i - Len(Lengths(text))]
      BY <2>2, ConcatProperties
    <3> QED BY <2>2, <3>1
  <2> HIDE DEF u, w
  <2>4. /\ Lengths(u) \in Seq(Nat) /\ Len(Lengths(u)) = Len(u)
        /\ \A i \in 1 .. Len(u) : Lengths(u)[i] = u[i].bytes
    BY <2>1, LengthsFacts
  <2>5. ASSUME NEW i \in 1 .. Len(u) PROVE Lengths(u)[i] = w[i]
    <3>1. CASE i <= Len(text)
      <4>1. i \in 1 .. Len(text)
        BY <2>1, <3>1
      <4> QED BY <2>1, <2>2, <2>3, <2>4, <3>1, <4>1
    <3>2. CASE ~(i <= Len(text))
      <4>1. i - Len(text) \in 1 .. Len(other)
        BY <2>1, <3>2
      <4> QED BY <2>1, <2>2, <2>3, <2>4, <3>2, <4>1
    <3> QED BY <3>1, <3>2
  <2>6. Lengths(u) = w
    BY <2>1, <2>3, <2>4, <2>5, SeqEqual
  <2> QED BY <2>2, <2>6, TotalConcat DEF Bytes, u, w
<1> QED BY <1>1, <1>2, <1>3, <1>4

\* There is a longest run of characters that fits, so Fitting is one.
LEMMA FittingFacts ==
  ASSUME NEW text \in Seq(Decoded), NEW n \in Nat
  PROVE  /\ Fitting(text, n) \in 0 .. Len(text)
         /\ Sums(Lengths(text))[Fitting(text, n)] <= n
         /\ Fitting(text, n) = Len(text) \/ Sums(Lengths(text))[Fitting(text, n) + 1] > n
<1> DEFINE sum == Sums(Lengths(text))
           Fits(k, m) == sum[k] <= n /\ (k = m \/ sum[k + 1] > n)
           S == {m \in Nat : m <= Len(text) => \E k \in 0 .. m : Fits(k, m)}
<1>1. /\ sum[0] = 0 /\ \A k \in 0 .. Len(text) : sum[k] \in Nat
      /\ Len(text) \in Nat
  BY LengthsFacts, SumsStep, SumsType
<1> HIDE DEF sum
<1>2. 0 \in S
  BY <1>1
<1>3. ASSUME NEW m \in Nat, m \in S PROVE m + 1 \in S
  <2> SUFFICES ASSUME m + 1 <= Len(text) PROVE \E k \in 0 .. m + 1 : Fits(k, m + 1)
    OBVIOUS
  <2>1. PICK k \in 0 .. m : Fits(k, m)
    BY <1>1, <1>3
  <2>2. CASE k # m \/ sum[m + 1] > n
    BY <2>1, <2>2
  <2>3. CASE k = m /\ sum[m + 1] <= n
    BY <2>3
  <2> QED BY <1>1, <2>2, <2>3
<1>4. Nat \subseteq S
  <2> HIDE DEF S
  <2> QED BY <1>2, <1>3, SetInduction
<1>5. \E k \in 0 .. Len(text) : Fits(k, Len(text))
  BY <1>1, <1>4
<1> QED BY <1>5 DEF Fitting, sum

\* A cut text is the start of the text, but for a broken last character, which
\* takes the text past n by 2 bytes at most; with room left nothing was cut.
LEMMA CutFacts ==
  ASSUME NEW text \in Seq(Decoded), NEW n \in Nat
  PROVE  /\ Cut(text, n) \in Seq(Decoded) /\ Len(Cut(text, n)) <= Len(text)
         /\ \A i \in 1 .. Len(Cut(text, n)) :
              \/ Cut(text, n)[i] = text[i]
              \/ i = Len(Cut(text, n)) /\ Cut(text, n)[i] = Broken
         /\ Bytes(Cut(text, n)) <= n + 2
         /\ Bytes(Cut(text, n)) < n => Cut(text, n) = text
<1> DEFINE k == Fitting(text, n)
           head == SubSeq(text, 1, k)
<1>1. /\ k \in 0 .. Len(text) /\ Len(text) \in Nat
      /\ head \in Seq(Decoded) /\ Len(head) = k
      /\ \A i \in 1 .. k : head[i] = text[i]
      /\ k = Len(text) => head = text
  <2>1. k \in 0 .. Len(text) /\ Len(text) \in Nat
    BY FittingFacts
  <2>2. /\ head \in Seq(Decoded) /\ Len(head) = k
        /\ \A i \in 1 .. k : head[i] = text[i]
    BY <2>1
  <2>3. k = Len(text) => head = text
    BY <2>2, SeqEqual
  <2> QED BY <2>1, <2>2, <2>3
<1>2. Bytes(head) \in Nat /\ Bytes(head) <= n
  BY FittingFacts, BytesFacts
<1>3. k = Len(text) \/ Bytes(head) + 4 > n
  <2> SUFFICES ASSUME k # Len(text) PROVE Bytes(head) + 4 > n
    OBVIOUS
  <2>1. k + 1 \in 1 .. Len(text) /\ Sums(Lengths(text))[k + 1] > n
    <3>1. k + 1 \in 1 .. Len(text)
      BY <1>1
    <3>2. Sums(Lengths(text))[k + 1] > n
      BY FittingFacts
    <3> QED BY <3>1, <3>2
  <2>2. Sums(Lengths(text))[k + 1] = Sums(Lengths(text))[k] + Lengths(text)[k + 1]
    <3>1. k + 1 \in 1 .. Len(Lengths(text)) /\ (k + 1) - 1 = k
      BY <1>1, <2>1, LengthsFacts
    <3>2. Lengths(text) \in Seq(Nat)
      BY LengthsFacts
    <3> HIDE DEF k
    <3> QED BY <3>1, <3>2, SumsStep
  <2>3. Lengths(text)[k + 1] \in 1 .. 4
    BY <2>1, LengthsFacts
  <2>4. Bytes(head) = Sums(Lengths(text))[k]
    BY FittingFacts, BytesFacts
  <2> QED BY <1>2, <2>1, <2>2, <2>3, <2>4
<1>4. Cut(text, n) = IF k = Len(text) \/ Bytes(head) = n THEN head ELSE Append(head, Broken)
  BY DEF Cut
<1> HIDE DEF k, head
<1>5. CASE k = Len(text) \/ Bytes(head) = n
  BY <1>1, <1>2, <1>4, <1>5
<1>6. CASE k # Len(text) /\ Bytes(head) # n
  <2>1. /\ Append(head, Broken) \in Seq(Decoded) /\ Len(Append(head, Broken)) = k + 1
        /\ Append(head, Broken)[k + 1] = Broken
        /\ \A i \in 1 .. k : Append(head, Broken)[i] = text[i]
    BY <1>1 DEF Decoded
  <2>2. Bytes(Append(head, Broken)) = Bytes(head) + 3
    BY <1>1, BytesFacts DEF Decoded, Broken
  <2> QED BY <1>1, <1>2, <1>3, <1>4, <1>6, <2>1, <2>2
<1> QED BY <1>5, <1>6

\* Nothing is written yet.
LEMMA TextInitInv == TextInit => TextInv
<1> SUFFICES ASSUME TextInit PROVE TextInv
  OBVIOUS
<1>1. <<>> \in Seq(Decoded) /\ <<>> \in Seq(Char) /\ Lengths(<<>>) = <<>> /\ Len(<<>>) = 0
  BY DEF Lengths
<1>2. Bytes(<<>>) = 0
  BY <1>1, TotalFacts, <<>> \in Seq(Nat) DEF Bytes
<1>3. TextTypeOK
  <2>1. written \in Seq(Char) /\ Len(written) <= MaxChars
    BY <1>1, TextAssumption DEF TextInit
  <2>2. {stderr} \cup {t.text : t \in told} = {<<>>}
    BY DEF TextInit
  <2>3. <<>> \in Seq(Char \cup {Broken}) /\ Bytes(<<>>) <= MaxStderr + 2
    BY <1>1, <1>2, TextAssumption DEF Decoded
  <2> QED BY <2>1, <2>2, <2>3 DEF TextInit, TextTypeOK
<1> QED BY <1>1, <1>3 DEF TextInit, TextInv, KeepsThePrefix

\* A chunk on stderr.
LEMMA WritesKeepsInv == TextInv /\ Writes => TextInv'
<1> SUFFICES ASSUME TextInv, Writes PROVE TextInv'
  OBVIOUS
<1>0. PICK n \in 1 .. MaxChars - Len(written) : \E chunk \in [1 .. n -> Char] :
        /\ written' = written \o chunk
        /\ stderr' = AppendBoundedText(stderr, chunk)
        /\ UNCHANGED told
  BY DEF Writes
<1>1. PICK chunk \in [1 .. n -> Char] :
        /\ written' = written \o chunk
        /\ stderr' = AppendBoundedText(stderr, chunk)
        /\ UNCHANGED told
  BY <1>0
<1>2. /\ written \in Seq(Char) /\ written \in Seq(Decoded) /\ stderr \in Seq(Decoded)
      /\ Len(written) \in Nat /\ Len(stderr) \in Nat /\ Bytes(stderr) <= MaxStderr + 2
      /\ Len(written) <= MaxChars /\ MaxChars \in Nat /\ MaxStderr \in Nat
      /\ Bytes(stderr) \in Nat
  BY TextAssumption, BytesFacts DEF TextInv, TextTypeOK, Decoded
<1>3. n \in Nat /\ chunk \in Seq(Char) /\ chunk \in Seq(Decoded) /\ Len(chunk) = n
  BY <1>2 DEF Decoded
<1>4. /\ written' \in Seq(Char) /\ Len(written') = Len(written) + n /\ Len(written') <= MaxChars
      /\ \A i \in 1 .. Len(written) : written'[i] = written[i]
  <2> DEFINE u == written \o chunk
  <2>1. /\ u \in Seq(Char) /\ Len(u) = Len(written) + n
        /\ \A i \in 1 .. Len(written) : u[i] = written[i]
    BY <1>2, <1>3
  <2>2. n <= MaxChars - Len(written)
    BY <1>2, <1>3
  <2> HIDE DEF u
  <2> QED BY <1>1, <1>2, <1>3, <2>1, <2>2 DEF u
<1>5. CASE Bytes(stderr) >= MaxStderr
  <2>1. stderr' = stderr
    BY <1>1, <1>5 DEF AppendBoundedText
  <2>2. TextTypeOK'
    BY <1>1, <1>4, <2>1 DEF TextInv, TextTypeOK
  <2>3. KeepsThePrefix'
    BY <1>2, <1>3, <1>4, <1>5, <2>1 DEF TextInv, KeepsThePrefix
  <2> QED BY <2>2, <2>3 DEF TextInv
<1>6. CASE Bytes(stderr) < MaxStderr
  <2> DEFINE room == MaxStderr - Bytes(stderr)
             cut == Cut(chunk, room)
  <2>1. stderr = written /\ room \in Nat
    BY <1>2, <1>6 DEF TextInv, KeepsThePrefix
  <2>2. /\ cut \in Seq(Decoded) /\ Len(cut) <= n
        /\ \A i \in 1 .. Len(cut) : cut[i] = chunk[i] \/ (i = Len(cut) /\ cut[i] = Broken)
        /\ Bytes(cut) <= room + 2 /\ (Bytes(cut) < room => cut = chunk)
        /\ Bytes(cut) \in Nat
    BY <1>3, <2>1, CutFacts, BytesFacts
  <2>3. stderr' = stderr \o cut
    BY <1>1, <1>2, <1>6 DEF AppendBoundedText
  <2> HIDE DEF cut
  <2>4. /\ stderr' \in Seq(Decoded) /\ Len(stderr') = Len(written) + Len(cut)
        /\ Len(cut) \in Nat
    BY <1>2, <2>2, <2>3, <2>1
  <2>5. Bytes(stderr') = Bytes(stderr) + Bytes(cut)
    BY <1>2, <2>2, <2>3, BytesFacts
  <2>6. TextTypeOK'
    <3>1. stderr' \in Seq(Char \cup {Broken}) /\ Bytes(stderr') <= MaxStderr + 2
      BY <1>2, <2>1, <2>2, <2>4, <2>5 DEF Decoded
    <3>2. /\ \A text \in {t.text : t \in told'} :
               text \in Seq(Char \cup {Broken}) /\ Bytes(text) <= MaxStderr + 2
          /\ \A t \in told' : t.truncated \in BOOLEAN
      BY <1>1 DEF TextInv, TextTypeOK
    <3> QED BY <1>4, <3>1, <3>2 DEF TextTypeOK
  <2>7. ASSUME NEW i \in 1 .. Len(stderr')
        PROVE  stderr'[i] = written'[i] \/ (i = Len(stderr') /\ stderr'[i] = Broken)
    <3>1. CASE i <= Len(written)
      BY <1>1, <1>2, <1>3, <2>1, <2>2, <2>3, <2>4, <3>1
    <3>2. CASE i > Len(written)
      <4>1. i - Len(written) \in 1 .. Len(cut)
        BY <1>2, <2>4, <3>2
      <4>2. stderr'[i] = cut[i - Len(written)]
        BY <1>2, <2>1, <2>2, <2>3, <2>4, <4>1
      <4>3. written'[i] = chunk[i - Len(written)]
        BY <1>1, <1>2, <1>3, <2>2, <2>4, <4>1
      <4> QED BY <2>2, <2>4, <4>1, <4>2, <4>3
    <3> QED BY <1>2, <2>4, <3>1, <3>2
  <2>8. Bytes(stderr') < MaxStderr => stderr' = written'
    <3>1. Bytes(stderr') < MaxStderr => Bytes(cut) < room
      BY <1>2, <2>2, <2>5
    <3> QED BY <1>1, <2>1, <2>2, <2>3, <3>1
  <2>9. KeepsThePrefix'
    BY <1>4, <1>2, <1>3, <2>2, <2>4, <2>7, <2>8 DEF KeepsThePrefix
  <2> QED BY <2>6, <2>9 DEF TextInv
<1> QED BY <1>2, <1>5, <1>6

\* Telling cuts once more.
LEMMA TellsKeepsInv == TextInv /\ Tells => TextInv'
<1> SUFFICES ASSUME TextInv, Tells PROVE TextInv'
  OBVIOUS
<1>1. told' = {BoundedText(stderr)} /\ UNCHANGED <<written, stderr>>
  BY DEF Tells
<1>2. stderr \in Seq(Decoded) /\ Bytes(stderr) <= MaxStderr + 2 /\ MaxStderr \in Nat
      /\ Bytes(stderr) \in Nat
  BY TextAssumption, BytesFacts DEF TextInv, TextTypeOK, Decoded
<1>3. /\ BoundedText(stderr).text \in Seq(Decoded) /\ Bytes(BoundedText(stderr).text) <= MaxStderr + 2
      /\ BoundedText(stderr).truncated \in BOOLEAN
  <2>1. CASE Bytes(stderr) <= MaxStderr
    BY <1>2, <2>1 DEF BoundedText, Text
  <2>2. CASE ~(Bytes(stderr) <= MaxStderr)
    BY <1>2, <2>2, CutFacts DEF BoundedText, Text
  <2> QED BY <2>1, <2>2
<1>4. TextTypeOK'
  BY <1>1, <1>2, <1>3 DEF TextInv, TextTypeOK, Decoded
<1>5. KeepsThePrefix'
  BY <1>1 DEF TextInv, KeepsThePrefix
<1> QED BY <1>4, <1>5 DEF TextInv

\* A chunk and the end of the child keep it.
LEMMA TextNextInv == TextInv /\ [TextNext]_textVars => TextInv'
<1> SUFFICES ASSUME TextInv, [TextNext]_textVars PROVE TextInv'
  OBVIOUS
<1>1. CASE UNCHANGED textVars
  BY <1>1 DEF textVars, TextInv, TextTypeOK, KeepsThePrefix
<1> QED BY <1>1, WritesKeepsInv, TellsKeepsInv DEF TextNext

\* Whatever is written in whatever chunks, the diagnostic passes its limit by no
\* more than the 2 bytes a broken character may add, and so does the text told.
THEOREM TextTypeCorrect == TextSpec => []TextTypeOK
<1>1. TextInv => TextTypeOK
  BY DEF TextInv
<1> QED BY TextInitInv, TextNextInv, <1>1, PTL DEF TextSpec

\* The diagnostic is the start of what was written, all of it while there is room,
\* with at most its last character broken.
THEOREM TextKeepsThePrefix == TextSpec => []KeepsThePrefix
<1>1. TextInv => KeepsThePrefix
  BY DEF TextInv
<1> QED BY TextInitInv, TextNextInv, <1>1, PTL DEF TextSpec

=============================================================================
