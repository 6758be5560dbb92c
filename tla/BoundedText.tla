---------------------------- MODULE BoundedText ----------------------------
(***************************************************************************)
(* The diagnostic text a child writes to stderr (boundedText and           *)
(* appendBoundedText in process.mjs).  A character is the number of bytes  *)
(* it takes in UTF-8; chunks hold whole characters, as setEncoding makes   *)
(* them.  A character that is cut by the limit decodes to U+FFFD, which    *)
(* takes 3 bytes however many of its own were left.                        *)
(***************************************************************************)
EXTENDS Totals

CONSTANTS MaxStderr,   \* MAX_STDERR_BYTES
          MaxChars     \* bound: characters that are written

ASSUME TextAssumption == MaxStderr \in Nat \ {0} /\ MaxChars \in Nat \ {0}

VARIABLES written,   \* history: all the child has written
          stderr,
          told       \* what boundedText made of stderr, once it was asked

textVars == <<written, stderr, told>>

Char   == [bytes : 1 .. 4, whole : {TRUE}]
Broken == [bytes |-> 3, whole |-> FALSE]
Lengths(text) == [i \in DOMAIN text |-> text[i].bytes]
Bytes(text) == Total(Lengths(text))

\* The longest run of whole characters in the first n bytes.
Fitting(text, n) == CHOOSE k \in 0 .. Len(text) :
  /\ Sums(Lengths(text))[k] <= n
  /\ k = Len(text) \/ Sums(Lengths(text))[k + 1] > n

\* The first n bytes, decoded.
Cut(text, n) ==
  LET k == Fitting(text, n)
      head == SubSeq(text, 1, k)
  IN  IF k = Len(text) \/ Bytes(head) = n THEN head ELSE Append(head, Broken)

\* Faulty: each chunk has the whole limit for itself.
AppendBoundedTextByChunk(current, chunk) ==
  IF Bytes(current) >= MaxStderr THEN current ELSE current \o Cut(chunk, MaxStderr)

\* Faulty: a chunk that does not fit is dropped.
AppendBoundedTextIfFits(current, chunk) ==
  IF Bytes(current) + Bytes(chunk) > MaxStderr THEN current ELSE current \o chunk

AppendBoundedText(current, chunk) ==
  IF Bytes(current) >= MaxStderr THEN current
  ELSE current \o Cut(chunk, MaxStderr - Bytes(current))

Text(text, marked) == [text |-> text, truncated |-> marked]

BoundedText(value) ==
  IF Bytes(value) <= MaxStderr THEN Text(value, FALSE) ELSE Text(Cut(value, MaxStderr), TRUE)

-----------------------------------------------------------------------------
TextInit == written = <<>> /\ stderr = <<>> /\ told = {}

Writes ==
  \E n \in 1 .. MaxChars - Len(written) : \E chunk \in [1 .. n -> Char] :
    /\ written' = written \o chunk
    /\ stderr' = AppendBoundedText(stderr, chunk)
    /\ UNCHANGED told

\* The text is told when the child has ended or is given up.
Tells ==
  /\ stderr # <<>> /\ told = {}
  /\ told' = {BoundedText(stderr)}
  /\ UNCHANGED <<written, stderr>>

TextNext == told = {} /\ (Writes \/ Tells)

TextSpec == TextInit /\ [][TextNext]_textVars

-----------------------------------------------------------------------------
TextTypeOK ==
  /\ written \in Seq(Char) /\ Len(written) <= MaxChars
  /\ \A text \in {stderr} \cup {t.text : t \in told} :
       text \in Seq(Char \cup {Broken}) /\ Bytes(text) <= MaxStderr + 2
  /\ \A t \in told : t.truncated \in BOOLEAN

(***************************************************************************)
(* The diagnostic is what was written, from its first character on:        *)
(* nothing is missing while there is room, and at most the last character  *)
(* is broken.                                                              *)
(***************************************************************************)
KeepsThePrefix ==
  /\ Len(stderr) <= Len(written)
  /\ \A i \in 1 .. Len(stderr) : stderr[i] = written[i] \/ (i = Len(stderr) /\ stderr[i] = Broken)
  /\ Bytes(stderr) < MaxStderr => stderr = written

(***************************************************************************)
(* process.mjs says of appendBoundedText that it appends "while keeping    *)
(* the size limit of the diagnostic buffer".                               *)
(***************************************************************************)
KeepsLimit == Bytes(stderr) <= MaxStderr

=============================================================================
