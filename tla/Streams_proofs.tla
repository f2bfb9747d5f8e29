----------------------------- MODULE Streams_proofs ----------------------------
(***************************************************************************)
(* Proofs about Streams: what the writer to a socket delivers and where it *)
(* stores it, what NetToText passes on, and the types of all of them, for  *)
(* a buffer and for texts, headers and tables of conversions of any length.*)
(*                                                                         *)
(* Inv is the inductive invariant.  WriterFits, Fills and Delivers relate  *)
(* the writer's buffer, the part of it a flush has sent and the characters *)
(* a method still holds to what was given and what has arrived; MimeFits   *)
(* and WsrcFits are what the parsers rely on; the table holds no parser    *)
(* but of its own format, so that a text never reaches one.  TextFits says *)
(* which places of the text put so far have been passed on.                *)
(***************************************************************************)
EXTENDS Streams, FiniteSetTheorems, SequenceTheorems, WellFoundedInduction, TLAPS

Chars == Seq(Int)

WriterRecords ==
  [ buffer : Chars, read : Nat, flushing : BOOLEAN, job : Jobs, chars : Chars,
    past : Nat, short : BOOLEAN, failed : BOOLEAN ]

(* A method keeps its characters until it has stored or written them.      *)
Idle(w) == w.job \in { "none", "free", "freed" }

WriterFits(w) ==
  /\ w \in WriterRecords
  /\ w.read <= Len(w.buffer)
  /\ Idle(w) => w.chars = << >>
  /\ w.job \in { "none", "freed" } => ~ w.flushing

(* As long as no write failed, what a method stores fits, once it has      *)
(* flushed, but for the terminator of a string.                            *)
Fills(w) ==
  ~ w.failed =>
    /\ w.past <= 1 /\ Len(w.buffer) <= BUFFER_SIZE
    /\ w.job = "put_character" =>
         Len(w.chars) = 1 /\ (w.flushing \/ Len(w.buffer) < BUFFER_SIZE)
    /\ w.job = "put_string" =>
         /\ Len(w.chars) <= 2
         /\ w.flushing \/ Len(w.buffer) + Len(w.chars) <= BUFFER_SIZE

(* As long as writes are whole, a flush has written all of the buffer or   *)
(* none of it, and a block or the end comes after an empty one.            *)
Delivers(w, x, g) ==
  ~ w.failed /\ ~ w.short =>
    /\ w.read = 0 \/ w.read = Len(w.buffer)
    /\ ~ w.flushing => w.read = 0
    /\ w.job \in { "write", "free", "freed" } /\ ~ w.flushing => w.buffer = << >>
    /\ w.read = 0 => x \o (w.buffer \o w.chars) = g
    /\ w.read = Len(w.buffer) => x \o w.chars = g

-----------------------------------------------------------------------------

(* The greater of two numbers. *)
LEMMA MaxOfTwo ==
  ASSUME NEW a \in Int, NEW b \in Int
  PROVE  /\ Max({ a, b }) \in { a, b }
         /\ Max({ a, b }) >= a /\ Max({ a, b }) >= b
<1>1. \E x \in { a, b } : \A y \in { a, b } : x >= y
  <2>1. CASE a >= b
    BY <2>1
  <2>2. CASE b >= a
    BY <2>2
  <2>3. QED
    BY <2>1, <2>2
<1>2. /\ Max({ a, b }) \in { a, b }
      /\ \A y \in { a, b } : Max({ a, b }) >= y
  BY <1>1, Zenon DEF Max
<1>3. QED
  BY <1>2

(* Two parts of a text, one after the other. *)
LEMMA Halves ==
  ASSUME NEW s \in Chars, NEW n \in 0 .. Len(s)
  PROVE  /\ SubSeq(s, 1, n) \in Chars
         /\ SubSeq(s, n + 1, Len(s)) \in Chars
         /\ SubSeq(s, 1, n) \o SubSeq(s, n + 1, Len(s)) = s
<1>1. Len(s) \in Nat /\ \A i \in 1 .. Len(s) : s[i] \in Int
  BY LenProperties, ElementOfSeq DEF Chars
<1>2. SubSeq(s, 1, n) \in Chars /\ SubSeq(s, n + 1, Len(s)) \in Chars
  BY <1>1, SubSeqProperties DEF Chars
<1>3. SubSeq(s, 1, n) \o SubSeq(s, n + 1, Len(s)) = SubSeq(s, 1, Len(s))
  <2>1. 1 \in 1 .. Len(s) + 1 /\ n \in 1 - 1 .. Len(s) /\ Len(s) \in n .. Len(s)
    BY <1>1
  <2>2. QED
    BY <2>1, ConcatAdjacentSubSeq, Zenon DEF Chars
<1>4. SubSeq(s, 1, Len(s)) = s
  BY SubSeqFull DEF Chars
<1>5. QED
  BY <1>2, <1>3, <1>4

(* Texts joined are a text, of the length of both. *)
LEMMA Joined ==
  ASSUME NEW s \in Chars, NEW t \in Chars
  PROVE  s \o t \in Chars /\ Len(s \o t) = Len(s) + Len(t)
BY ConcatProperties DEF Chars

(* It does not matter what is joined first. *)
LEMMA Joining ==
  ASSUME NEW s \in Chars, NEW t \in Chars, NEW u \in Chars
  PROVE  (s \o t) \o u = s \o (t \o u)
BY ConcatAssociative DEF Chars

(* An empty text adds nothing. *)
LEMMA Nothing ==
  /\ << >> \in Chars /\ Len(<< >>) = 0
  /\ \A s \in Chars : s \o << >> = s /\ << >> \o s = s
  /\ \A s \in Chars : Len(s) \in Nat /\ (Len(s) = 0 => s = << >>)
<1>1. << >> \in Chars /\ Len(<< >>) = 0
  BY EmptySeq DEF Chars
<1>2. \A s \in Chars : s \o << >> = s /\ << >> \o s = s
  BY ConcatEmptySeq DEF Chars
<1>3. \A s \in Chars : Len(s) \in Nat /\ (Len(s) = 0 => s = << >>)
  BY LenProperties, EmptySeq DEF Chars
<1>4. QED
  BY <1>1, <1>2, <1>3

-----------------------------------------------------------------------------
(* A writer begins with nothing. *)
LEMMA NewWriter ==
  /\ WriterFits(HTWriter_new) /\ Fills(HTWriter_new)
  /\ Delivers(HTWriter_new, << >>, << >>)
<1>1. WriterFits(HTWriter_new)
  BY Nothing DEF WriterFits, WriterRecords, HTWriter_new, Jobs
<1>2. Fills(HTWriter_new)
  BY Nothing, BufferAssumption DEF Fills, HTWriter_new
<1>3. << >> \o (<< >> \o << >>) = << >>
  BY Nothing
<1>4. Delivers(HTWriter_new, << >>, << >>)
  BY <1>3, Nothing DEF Delivers, HTWriter_new
<1>5. QED
  BY <1>1, <1>2, <1>4

(* A method is called of a writer that is ready. *)
LEMMA BeginFits ==
  ASSUME WriterFits(writer), Ready, NEW s \in Chars, NEW flush \in BOOLEAN,
         NEW job \in { "put_character", "put_string", "write", "free" },
         job = "free" => s = << >>, Begin(job, s, flush)
  PROVE  WriterFits(writer')
<1>1. writer' = [ writer EXCEPT !.job = job, !.chars = s, !.flushing = flush,
                                !.read = 0 ]
  BY DEF Begin
<1>2. writer' \in WriterRecords
  BY <1>1 DEF WriterFits, WriterRecords, Jobs
<1>3. /\ writer'.job = job /\ writer'.chars = s /\ writer'.read = 0
      /\ writer'.flushing = flush /\ writer'.buffer = writer.buffer
  BY <1>1 DEF WriterFits, WriterRecords
<1>4. 0 <= Len(writer.buffer)
  BY Nothing DEF WriterFits, WriterRecords
<1>5. QED
  BY <1>2, <1>3, <1>4 DEF WriterFits, Idle

(* A method flushes when what it is given would not fit. *)
LEMMA BeginFills ==
  ASSUME WriterFits(writer), Fills(writer), Ready,
         NEW s \in Chars, NEW flush \in BOOLEAN, NEW job, Begin(job, s, flush),
         job = "put_character" =>
           Len(s) = 1 /\ (flush \/ Len(writer.buffer) # BUFFER_SIZE),
         job = "put_string" =>
           Len(s) <= 2 /\ (flush \/ Len(writer.buffer) + Len(s) <= BUFFER_SIZE)
  PROVE  Fills(writer')
<1>1. writer' = [ writer EXCEPT !.job = job, !.chars = s, !.flushing = flush,
                                !.read = 0 ]
  BY DEF Begin
<1>2. /\ writer'.job = job /\ writer'.chars = s
      /\ writer'.flushing = flush /\ writer'.buffer = writer.buffer
      /\ writer'.past = writer.past /\ writer'.failed = writer.failed
  BY <1>1 DEF WriterFits, WriterRecords
<1>3. Len(writer.buffer) \in Nat /\ Len(s) \in Nat /\ BUFFER_SIZE \in Nat
  BY Nothing, BufferAssumption DEF WriterFits, WriterRecords
<1>4. QED
  <2>1. SUFFICES ASSUME ~ writer.failed
                 PROVE  Fills(writer')
    BY <1>2 DEF Fills
  <2>2. writer.past <= 1 /\ Len(writer.buffer) <= BUFFER_SIZE
    BY <2>1 DEF Fills
  <2>3. job = "put_character" =>
          Len(s) = 1 /\ (flush \/ Len(writer.buffer) < BUFFER_SIZE)
    BY <1>3, <2>2
  <2>4. QED
    BY <1>2, <2>2, <2>3 DEF Fills

(* What a method is given is what is still to be sent. *)
LEMMA BeginDelivers ==
  ASSUME WriterFits(writer), Ready, NEW x \in Chars, NEW g \in Chars,
         Delivers(writer, x, g),
         NEW s \in Chars, NEW flush \in BOOLEAN, NEW job, Begin(job, s, flush),
         job \in { "write", "free", "freed" } => flush
  PROVE  Delivers(writer', x, g \o s)
<1>1. writer' = [ writer EXCEPT !.job = job, !.chars = s, !.flushing = flush,
                                !.read = 0 ]
  BY DEF Begin
<1>2. /\ writer'.job = job /\ writer'.chars = s /\ writer'.read = 0
      /\ writer'.flushing = flush /\ writer'.buffer = writer.buffer
      /\ writer'.short = writer.short /\ writer'.failed = writer.failed
  BY <1>1 DEF WriterFits, WriterRecords
<1>3. writer.chars = << >> /\ ~ writer.flushing
  BY DEF WriterFits, Idle, Ready
<1>4. writer.buffer \in Chars /\ x \in Chars
  BY DEF WriterFits, WriterRecords
<1>5. SUFFICES ASSUME ~ writer.failed, ~ writer.short
               PROVE  /\ x \o (writer.buffer \o s) = g \o s
                      /\ Len(writer.buffer) = 0 => x \o s = g \o s
  BY <1>2 DEF Delivers
<1>6. x \o (writer.buffer \o << >>) = g
  BY <1>3, <1>5 DEF Delivers
<1>7. x \o writer.buffer = g
  BY <1>4, <1>6, Nothing
<1>8. x \o (writer.buffer \o s) = g \o s
  BY <1>4, <1>7, Joining
<1>9. Len(writer.buffer) = 0 => x \o s = g \o s
  BY <1>4, <1>7, Nothing
<1>10. QED
  BY <1>8, <1>9

-----------------------------------------------------------------------------
(* The parts of a writer. *)
LEMMA Parts ==
  ASSUME NEW w \in WriterRecords
  PROVE  /\ w.buffer \in Chars /\ w.chars \in Chars
         /\ Len(w.buffer) \in Nat /\ Len(w.chars) \in Nat
         /\ w.read \in Nat /\ w.past \in Nat
         /\ w.flushing \in BOOLEAN /\ w.short \in BOOLEAN
         /\ w.failed \in BOOLEAN
BY Nothing DEF WriterRecords

(* A write of a flush sends a part of the buffer, or all of it. *)
LEMMA FlushWritesFits ==
  ASSUME WriterFits(writer), wire \in Chars, FlushWrites
  PROVE  /\ WriterFits(writer') /\ wire' \in Chars
         /\ Fills(writer) => Fills(writer')
         /\ \A g \in Chars : Delivers(writer, wire, g) => Delivers(writer', wire', g)
<1> DEFINE w == writer
<1>1. /\ w \in WriterRecords /\ w.read <= Len(w.buffer) /\ w.flushing
      /\ Idle(w) => w.chars = << >>
      /\ w.job \notin { "none", "freed" }
  BY DEF WriterFits, FlushWrites
<1>2. /\ w.buffer \in Chars /\ w.chars \in Chars
      /\ Len(w.buffer) \in Nat /\ w.read \in Nat
      /\ w.short \in BOOLEAN
  BY <1>1, Parts
<1>3. PICK n \in 1 .. Len(w.buffer) - w.read :
        /\ wire' = wire \o SubSeq(w.buffer, 1, n)
        /\ writer' = [ w EXCEPT !.read = @ + n,
                                !.short = @ \/ n < Len(w.buffer) - w.read ]
  BY DEF FlushWrites, Remaining
<1> DEFINE part == w.short \/ n < Len(w.buffer) - w.read
<1>4. /\ w.read + n \in Nat /\ part \in BOOLEAN
      /\ writer' = [ w EXCEPT !.read = w.read + n, !.short = part ]
  <2>1. w.read + n \in Nat
    BY <1>2, <1>3
  <2>2. part \in BOOLEAN
    BY <1>2, Zenon
  <2>3. QED
    BY <1>3, <2>1, <2>2, Zenon
<1> HIDE DEF part
<1>5. /\ writer' \in WriterRecords
      /\ writer'.read = w.read + n /\ writer'.short = part
      /\ writer'.buffer = w.buffer /\ writer'.chars = w.chars
      /\ writer'.job = w.job /\ writer'.flushing = w.flushing
      /\ writer'.past = w.past /\ writer'.failed = w.failed
  BY <1>4, <1>1 DEF WriterRecords
<1>6. n \in 0 .. Len(w.buffer) /\ n \in Nat
  BY <1>2, <1>3
<1>7. SubSeq(w.buffer, 1, n) \in Chars
  BY <1>2, <1>6, Halves
<1>8. wire' \in Chars
  BY <1>3, <1>7, Joined
<1>9. WriterFits(writer')
  <2>1. writer'.read <= Len(writer'.buffer)
    BY <1>2, <1>3, <1>5
  <2>2. QED
    BY <1>1, <1>5, <2>1 DEF WriterFits, Idle
<1>10. Fills(w) => Fills(writer')
  BY <1>5 DEF Fills
<1>11. ASSUME NEW g \in Chars, Delivers(w, wire, g)
       PROVE  Delivers(writer', wire', g)
  <2>1. SUFFICES ASSUME ~ writer'.failed, ~ writer'.short
                 PROVE  Delivers(writer', wire', g)
    BY DEF Delivers
  <2>2. ~ w.failed /\ ~ w.short /\ n = Len(w.buffer) - w.read
    <3>1. ~ w.failed /\ ~ part
      BY <1>5, <2>1
    <3>2. ~ w.short /\ ~ (n < Len(w.buffer) - w.read)
      BY <3>1 DEF part
    <3>3. QED
      BY <1>2, <1>3, <3>1, <3>2
  <2>3. w.read = 0 /\ n = Len(w.buffer) /\ writer'.read = Len(w.buffer)
    <3>1. w.read = 0 \/ w.read = Len(w.buffer)
      BY <1>11, <2>2 DEF Delivers
    <3>2. w.read = 0
      BY <1>2, <1>3, <2>2, <3>1
    <3>3. QED
      BY <1>2, <1>5, <2>2, <3>2
  <2>4. wire' = wire \o w.buffer
    BY <1>2, <1>3, <2>3, SubSeqFull DEF Chars
  <2>5. wire \o (w.buffer \o w.chars) = g
    BY <1>11, <2>2, <2>3 DEF Delivers
  <2>6. wire' \o w.chars = g
    BY <1>2, <2>4, <2>5, Joining
  <2>7. writer'.read # 0
    BY <1>3, <2>3
  <2>8. QED
    BY <1>1, <1>5, <2>3, <2>6, <2>7 DEF Delivers
<1>12. QED
  BY <1>8, <1>9, <1>10, <1>11

(* Once a write has failed nothing is promised. *)
LEMMA FlushFailsFits ==
  ASSUME WriterFits(writer), wire \in Chars, FlushFails
  PROVE  /\ WriterFits(writer') /\ wire' \in Chars
         /\ Fills(writer) => Fills(writer')
         /\ \A g \in Chars : Delivers(writer, wire, g) => Delivers(writer', wire', g)
<1>1. /\ writer \in WriterRecords /\ writer.read <= Len(writer.buffer)
      /\ Idle(writer) => writer.chars = << >>
      /\ writer' = [ writer EXCEPT !.flushing = FALSE, !.failed = TRUE ]
      /\ wire' = wire
  BY DEF WriterFits, FlushFails
<1>2. /\ writer' \in WriterRecords /\ writer'.failed /\ ~ writer'.flushing
      /\ writer'.buffer = writer.buffer /\ writer'.chars = writer.chars
      /\ writer'.job = writer.job /\ writer'.read = writer.read
  BY <1>1 DEF WriterRecords
<1>3. QED
  BY <1>1, <1>2 DEF WriterFits, Idle, Fills, Delivers

(* A buffer that was sent whole is emptied. *)
LEMMA FlushedFits ==
  ASSUME WriterFits(writer), wire \in Chars, Flushed
  PROVE  /\ WriterFits(writer') /\ wire' \in Chars
         /\ BUFFER_SIZE >= 2 /\ Fills(writer) => Fills(writer')
         /\ \A g \in Chars : Delivers(writer, wire, g) => Delivers(writer', wire', g)
<1> DEFINE w == writer
<1>1. /\ w \in WriterRecords /\ w.read <= Len(w.buffer)
      /\ Len(w.buffer) - w.read = 0
      /\ Idle(w) => w.chars = << >>
      /\ writer' = [ w EXCEPT !.flushing = FALSE, !.buffer = << >>, !.read = 0 ]
      /\ wire' = wire
  BY DEF WriterFits, Flushed, Remaining
<1>2. /\ w.buffer \in Chars /\ w.chars \in Chars
      /\ Len(w.buffer) \in Nat /\ Len(w.chars) \in Nat /\ w.read \in Nat
      /\ w.read = Len(w.buffer)
  BY <1>1, Parts
<1>3. /\ writer' \in WriterRecords /\ ~ writer'.flushing
      /\ writer'.buffer = << >> /\ writer'.read = 0 /\ writer'.chars = w.chars
      /\ writer'.job = w.job /\ writer'.past = w.past
      /\ writer'.failed = w.failed /\ writer'.short = w.short
  BY <1>1, Nothing DEF WriterRecords
<1>4. Len(writer'.buffer) = 0
  BY <1>3, Nothing
<1>5. WriterFits(writer')
  BY <1>1, <1>3, <1>4 DEF WriterFits, Idle
<1>6. ASSUME BUFFER_SIZE >= 2, Fills(w)
      PROVE  Fills(writer')
  <2>1. BUFFER_SIZE \in Nat
    BY BufferAssumption
  <2>2. QED
    <3>1. SUFFICES ASSUME ~ w.failed
                   PROVE  Fills(writer')
      BY <1>3 DEF Fills
    <3>2. /\ w.past <= 1
          /\ w.job = "put_character" => Len(w.chars) = 1
          /\ w.job = "put_string" => Len(w.chars) <= 2
      BY <1>6, <3>1 DEF Fills
    <3>3. 0 + Len(w.chars) <= BUFFER_SIZE \/ ~ Len(w.chars) <= 2
      BY <1>2, <1>6, <2>1
    <3>4. 0 <= BUFFER_SIZE /\ 0 < BUFFER_SIZE
      BY <1>6, <2>1
    <3>5. QED
      BY <1>3, <1>4, <3>2, <3>3, <3>4 DEF Fills
<1>7. ASSUME NEW g \in Chars, Delivers(w, wire, g)
      PROVE  Delivers(writer', wire', g)
  <2>1. ~ w.failed /\ ~ w.short => wire \o w.chars = g
    BY <1>2, <1>7 DEF Delivers
  <2>2. << >> \o w.chars = w.chars
    BY <1>2, Nothing
  <2>3. QED
    BY <1>1, <1>3, <1>4, <2>1, <2>2 DEF Delivers
<1>8. QED
  BY <1>1, <1>5, <1>6, <1>7

(* Storing what a method was called with. *)
LEMMA StoreFits ==
  ASSUME WriterFits(writer), wire \in Chars, ~ writer.flushing,
         writer.job \in { "put_character", "put_string" }, NEW more \in Nat,
         writer' = [ Store EXCEPT !.past = Max({ @, Beyond(more) }) ], wire' = wire
  PROVE  /\ WriterFits(writer') /\ wire' \in Chars
         /\ Len(writer'.buffer) = Len(writer.buffer) + Len(writer.chars)
         /\ writer'.past \in { writer.past, 0, Len(writer.buffer) + more - BUFFER_SIZE }
         /\ writer'.job = "none" /\ writer'.failed = writer.failed
         /\ \A g \in Chars : Delivers(writer, wire, g) => Delivers(writer', wire', g)
<1> DEFINE w == writer
           joined == w.buffer \o w.chars
<1>1. w \in WriterRecords
  BY DEF WriterFits
<1>2. /\ w.buffer \in Chars /\ w.chars \in Chars
      /\ Len(w.buffer) \in Nat /\ Len(w.chars) \in Nat /\ w.past \in Nat
      /\ BUFFER_SIZE \in Nat
  BY <1>1, Parts, BufferAssumption
<1>3. joined \in Chars /\ Len(joined) = Len(w.buffer) + Len(w.chars)
  BY <1>2, Joined
<1> HIDE DEF joined
<1>4. /\ Beyond(more) \in { 0, Len(w.buffer) + more - BUFFER_SIZE }
      /\ Beyond(more) >= 0 /\ Beyond(more) \in Int
  <2> DEFINE over == Len(w.buffer) + more - BUFFER_SIZE
  <2>1. over \in Int /\ 0 \in Int
    BY <1>2
  <2>2. Beyond(more) = Max({ 0, over })
    BY DEF Beyond
  <2> HIDE DEF over
  <2>3. /\ Beyond(more) \in { 0, over } /\ Beyond(more) >= 0
    BY <2>1, <2>2, MaxOfTwo, Zenon
  <2>4. Beyond(more) \in Int
    BY <2>1, <2>3
  <2>5. QED
    BY <2>3, <2>4 DEF over
<1>5. Max({ w.past, Beyond(more) }) \in { w.past, Beyond(more) }
  <2>1. w.past \in Int
    BY <1>2
  <2>2. QED
    BY <1>4, <2>1, MaxOfTwo, Zenon
<1>6. Store = [ w EXCEPT !.buffer = joined, !.chars = << >>, !.job = "none",
                         !.read = 0 ]
  BY DEF Store, joined
<1>7. /\ writer' \in WriterRecords /\ ~ writer'.flushing
      /\ writer'.past = Max({ w.past, Beyond(more) })
      /\ writer'.buffer = joined /\ writer'.chars = << >> /\ writer'.read = 0
      /\ writer'.job = "none"
      /\ writer'.failed = w.failed /\ writer'.short = w.short
  <2>1. Max({ w.past, Beyond(more) }) \in Nat
    BY <1>2, <1>4, <1>5
  <2>2. Store \in WriterRecords /\ Store.past = w.past
    BY <1>1, <1>3, <1>6, Nothing DEF WriterRecords, Jobs
  <2>3. writer' = [ Store EXCEPT !.past = Max({ w.past, Beyond(more) }) ]
    BY <2>2
  <2>4. Store.flushing = w.flushing /\ Store.buffer = joined
        /\ Store.chars = << >> /\ Store.read = 0 /\ Store.job = "none"
        /\ Store.failed = w.failed /\ Store.short = w.short
    BY <1>1, <1>6 DEF WriterRecords
  <2>5. QED
    BY <2>1, <2>2, <2>3, <2>4 DEF WriterRecords
<1>8. WriterFits(writer')
  BY <1>2, <1>3, <1>7 DEF WriterFits, Idle
<1>9. ASSUME NEW g \in Chars, Delivers(w, wire, g)
      PROVE  Delivers(writer', wire', g)
  <2>1. SUFFICES ASSUME ~ w.failed, ~ w.short
                 PROVE  Delivers(writer', wire', g)
    BY <1>7 DEF Delivers
  <2>2. w.read = 0
    BY <1>9, <2>1 DEF Delivers
  <2>3. wire \o joined = g
    BY <1>9, <2>1, <2>2 DEF Delivers, joined
  <2>4. joined \o << >> = joined /\ (Len(joined) = 0 => joined = << >>)
    BY <1>3, Nothing
  <2>5. QED
    BY <1>7, <2>3, <2>4, Nothing DEF Delivers
<1>10. QED
  BY <1>3, <1>4, <1>5, <1>7, <1>8, <1>9

(* A character has room, since a full buffer was flushed. *)
LEMMA StoreCharacterFits ==
  ASSUME WriterFits(writer), wire \in Chars, StoreCharacter
  PROVE  /\ WriterFits(writer') /\ wire' \in Chars
         /\ Fills(writer) => Fills(writer')
         /\ \A g \in Chars : Delivers(writer, wire, g) => Delivers(writer', wire', g)
<1>1. /\ WriterFits(writer') /\ wire' \in Chars
      /\ Len(writer'.buffer) = Len(writer.buffer) + Len(writer.chars)
      /\ writer'.past \in { writer.past, 0, Len(writer.buffer) + 1 - BUFFER_SIZE }
      /\ writer'.job = "none" /\ writer'.failed = writer.failed
      /\ \A g \in Chars : Delivers(writer, wire, g) => Delivers(writer', wire', g)
  BY StoreFits DEF StoreCharacter
<1>2. Len(writer.buffer) \in Nat /\ BUFFER_SIZE \in Nat
  BY Parts, BufferAssumption DEF WriterFits
<1>3. Fills(writer) => Fills(writer')
  <2>1. SUFFICES ASSUME Fills(writer), ~ writer.failed
                 PROVE  Fills(writer')
    BY <1>1 DEF Fills
  <2>2. /\ writer.past <= 1 /\ Len(writer.chars) = 1
        /\ Len(writer.buffer) < BUFFER_SIZE
    BY <2>1 DEF Fills, StoreCharacter
  <2>3. writer'.past <= 1 /\ Len(writer'.buffer) <= BUFFER_SIZE
    BY <1>1, <1>2, <2>2
  <2>4. QED
    BY <1>1, <2>3 DEF Fills
<1>4. QED
  BY <1>1, <1>3

(* A string that fits leaves room for all but its terminator. *)
LEMMA Beside ==
  /\ 0 <= 1
  /\ \A a, b, c \in Nat : a + b <= c => a + (b + 1) - c <= 1
OBVIOUS

(* A string has room but perhaps for its terminator. *)
LEMMA StoreStringFits ==
  ASSUME WriterFits(writer), wire \in Chars, StoreString
  PROVE  /\ WriterFits(writer') /\ wire' \in Chars
         /\ Fills(writer) => Fills(writer')
         /\ \A g \in Chars : Delivers(writer, wire, g) => Delivers(writer', wire', g)
<1>1. /\ Len(writer.buffer) \in Nat
      /\ Len(writer.chars) \in Nat /\ BUFFER_SIZE \in Nat
  BY Parts, BufferAssumption DEF WriterFits
<1>2. Terminated \in Nat
  BY <1>1 DEF Terminated
<1>3. /\ WriterFits(writer') /\ wire' \in Chars
      /\ Len(writer'.buffer) = Len(writer.buffer) + Len(writer.chars)
      /\ writer'.past \in { writer.past, 0,
                            Len(writer.buffer) + Terminated - BUFFER_SIZE }
      /\ writer'.job = "none" /\ writer'.failed = writer.failed
      /\ \A g \in Chars : Delivers(writer, wire, g) => Delivers(writer', wire', g)
  BY <1>2, StoreFits DEF StoreString
<1>4. Fills(writer) => Fills(writer')
  <2>1. SUFFICES ASSUME Fills(writer), ~ writer.failed
                 PROVE  Fills(writer')
    BY <1>3 DEF Fills
  <2>2. /\ writer.past <= 1
        /\ Len(writer.buffer) + Len(writer.chars) <= BUFFER_SIZE
    BY <2>1 DEF Fills, StoreString
  <2>3. writer'.past <= 1 /\ Len(writer'.buffer) <= BUFFER_SIZE
    <3>1. Len(writer'.buffer) <= BUFFER_SIZE
      BY <1>3, <2>2
    <3>2. Terminated = Len(writer.chars) + 1
      BY DEF Terminated
    <3>3. Len(writer.buffer) + Terminated - BUFFER_SIZE <= 1
      BY <1>1, <2>2, <3>2, Beside, Zenon
    <3>4. writer'.past <= 1
      BY <1>3, <2>2, <3>3, Beside
    <3>5. QED
      BY <3>1, <3>4
  <2>4. QED
    BY <1>3, <2>3 DEF Fills
<1>5. QED
  BY <1>3, <1>4

(* A block is sent from where the last write of it ended. *)
LEMMA BlockWritesFits ==
  ASSUME WriterFits(writer), wire \in Chars, BlockWrites
  PROVE  /\ WriterFits(writer') /\ wire' \in Chars
         /\ Fills(writer) => Fills(writer')
         /\ \A g \in Chars : Delivers(writer, wire, g) => Delivers(writer', wire', g)
<1> DEFINE w == writer
<1>1. /\ w \in WriterRecords /\ w.job = "write" /\ ~ w.flushing
      /\ w.read <= Len(w.buffer)
  BY DEF WriterFits, BlockWrites
<1>2. PICK n \in 1 .. Len(w.chars) :
        /\ wire' = wire \o SubSeq(w.chars, 1, n)
        /\ writer' = [ w EXCEPT !.chars = SubSeq(w.chars, n + 1, Len(w.chars)) ]
  BY DEF BlockWrites
<1>3. /\ w.buffer \in Chars /\ w.chars \in Chars /\ Len(w.chars) \in Nat
      /\ Len(w.buffer) \in Nat
  BY <1>1, Parts
<1> DEFINE sent == SubSeq(w.chars, 1, n)
           rest == SubSeq(w.chars, n + 1, Len(w.chars))
<1>4. sent \in Chars /\ rest \in Chars /\ sent \o rest = w.chars
  <2>1. n \in 0 .. Len(w.chars)
    BY <1>2, <1>3
  <2>2. QED
    BY <1>3, <2>1, Halves, Zenon
<1>5. wire' = wire \o sent /\ writer' = [ w EXCEPT !.chars = rest ]
  BY <1>2
<1> HIDE DEF sent, rest
<1>6. /\ writer' \in WriterRecords /\ writer'.chars = rest
      /\ writer'.buffer = w.buffer /\ writer'.read = w.read
      /\ writer'.job = w.job /\ writer'.flushing = w.flushing
      /\ writer'.past = w.past /\ writer'.failed = w.failed
      /\ writer'.short = w.short
  BY <1>1, <1>4, <1>5 DEF WriterRecords
<1>7. wire' \in Chars
  BY <1>4, <1>5, Joined
<1>8. WriterFits(writer')
  BY <1>1, <1>6 DEF WriterFits, Idle
<1>9. Fills(w) => Fills(writer')
  BY <1>1, <1>6 DEF Fills
<1>10. ASSUME NEW g \in Chars, Delivers(w, wire, g)
       PROVE  Delivers(writer', wire', g)
  <2>1. SUFFICES ASSUME ~ w.failed, ~ w.short
                 PROVE  Delivers(writer', wire', g)
    BY <1>6 DEF Delivers
  <2>2. w.buffer = << >> /\ w.read = 0 /\ wire \o (w.buffer \o w.chars) = g
    BY <1>1, <1>10, <2>1 DEF Delivers
  <2>3. wire \o w.chars = g
    BY <1>3, <2>2, Nothing
  <2>4. wire' \o rest = g
    <3>1. (wire \o sent) \o rest = wire \o (sent \o rest)
      BY <1>4, Joining
    <3>2. QED
      BY <1>4, <1>5, <2>3, <3>1
  <2>5. << >> \o rest = rest
    BY <1>4, Nothing
  <2>6. QED
    BY <1>1, <1>6, <2>2, <2>4, <2>5, Nothing DEF Delivers
<1>11. QED
  BY <1>7, <1>8, <1>9, <1>10

(* The rest of a block is given up, or there is none; the stream is gone. *)
LEMMA OtherWritesFit ==
  ASSUME WriterFits(writer), wire \in Chars, BlockFails \/ BlockWritten \/ Freed
  PROVE  /\ WriterFits(writer') /\ wire' \in Chars
         /\ Fills(writer) => Fills(writer')
         /\ \A g \in Chars : Delivers(writer, wire, g) => Delivers(writer', wire', g)
<1>1. /\ writer \in WriterRecords /\ ~ writer.flushing /\ wire' = wire
      /\ writer.read <= Len(writer.buffer)
  BY DEF WriterFits, BlockFails, BlockWritten, Freed
<1>2. CASE BlockFails
  <2>1. writer' = [ writer EXCEPT !.chars = << >>, !.job = "none",
                                  !.failed = TRUE ]
    BY <1>2 DEF BlockFails
  <2>2. /\ writer' \in WriterRecords /\ writer'.chars = << >>
        /\ writer'.job = "none" /\ writer'.failed /\ ~ writer'.flushing
        /\ writer'.buffer = writer.buffer /\ writer'.read = writer.read
    BY <1>1, <2>1, Nothing DEF WriterRecords, Jobs
  <2>3. QED
    BY <1>1, <2>2 DEF WriterFits, Fills, Delivers
<1>3. CASE BlockWritten \/ Freed
  <2>1. PICK job \in { "none", "freed" } :
          writer' = [ writer EXCEPT !.job = job ]
    BY <1>3 DEF BlockWritten, Freed
  <2>2. writer.chars = << >> /\ writer.job \in { "write", "free" }
    BY <1>3 DEF BlockWritten, Freed, WriterFits, Idle
  <2>3. /\ writer' \in WriterRecords /\ writer'.chars = << >>
        /\ writer'.job = job /\ ~ writer'.flushing
        /\ writer'.buffer = writer.buffer /\ writer'.read = writer.read
        /\ writer'.failed = writer.failed /\ writer'.short = writer.short
        /\ writer'.past = writer.past
    BY <1>1, <2>1, <2>2 DEF WriterRecords, Jobs
  <2>4. QED
    BY <1>1, <2>2, <2>3 DEF WriterFits, Fills, Delivers
<1>4. QED
  BY <1>2, <1>3

(* A step of the writer keeps it in order. *)
LEMMA WriterStep ==
  ASSUME WriterFits(writer), wire \in Chars, WriterNext
  PROVE  /\ WriterFits(writer') /\ wire' \in Chars
         /\ BUFFER_SIZE >= 2 /\ Fills(writer) => Fills(writer')
         /\ \A g \in Chars : Delivers(writer, wire, g) => Delivers(writer', wire', g)
<1>1. CASE FlushWrites
  BY <1>1, FlushWritesFits, Zenon
<1>2. CASE FlushFails
  BY <1>2, FlushFailsFits, Zenon
<1>3. CASE Flushed
  BY <1>3, FlushedFits, Zenon
<1>4. CASE StoreCharacter
  BY <1>4, StoreCharacterFits, Zenon
<1>5. CASE StoreString
  BY <1>5, StoreStringFits, Zenon
<1>6. CASE BlockWrites
  BY <1>6, BlockWritesFits, Zenon
<1>7. CASE BlockFails \/ BlockWritten \/ Freed
  BY <1>7, OtherWritesFit, Zenon
<1>8. QED
  BY <1>1, <1>2, <1>3, <1>4, <1>5, <1>6, <1>7 DEF WriterNext

(* A writer that is new has nothing to do. *)
LEMMA NewWriterWaits ==
  ASSUME writer = HTWriter_new
  PROVE  ~ WriterNext
BY DEF HTWriter_new, WriterNext, FlushWrites, FlushFails, Flushed,
       StoreCharacter,
       StoreString, BlockWrites, BlockFails, BlockWritten, Freed

-----------------------------------------------------------------------------
(* The pieces of a header or a source file, and what stands for several:   *)
(* none is the format of a header itself.                                  *)
Words == Pieces \cup Delimiters \cup FieldNames \cup { "a", "b", "none", "unknown" }

(* The streams of the table of conversions, and those a stack begins with. *)
Classes ==
  { "none", "SocketWriter", "SaveAndExecute", "SaveLocally", "MIMEParser",
    "WSRCParser", "HTMLToC", "HTMLToPlain", "HTMLPresent", "PlainToHTML", "HTPlain" }

Wanted == { "none", Source, Present, Html }

Fields == { "none", "CONTENT_TYPE", "CONTENT_TRANSFER_ENCODING" }

MimeRecords ==
  [ state : MimeStates, check : Words, if_ok : { "none", "CONTENT_T" },
    field : Fields, fold_state : { "none", "NEWLINE", "SKIP_GET_VALUE" },
    value : Seq(Words), format : Words, encoding : Words, targetRep : Wanted,
    net_ascii : BOOLEAN, target : Classes ]

(* A value is of a field, also when the line is folded before it, and what *)
(* is expected leads on.                                                   *)
MimeFits(me) ==
  /\ me \in MimeRecords
  /\ me.state = "CHECK" => me.if_ok = "CONTENT_T"
  /\ me.state = "NEWLINE" => me.fold_state # "none"
  /\ me.state \in { "SKIP_GET_VALUE", "GET_VALUE" } => me.field # "none"
  /\ me.fold_state = "SKIP_GET_VALUE" => me.field # "none"
  /\ Transparent(me) => me.target # "none"

SinkClasses == { "none", "SocketWriter" }

(* What the parsers keep or compare with are words. *)
LEMMA Literals ==
  /\ Plain \in Words /\ Html \in Words /\ Wais \in Words
  /\ "none" \in Words /\ "unknown" \in Words /\ "ontent-t" \in Words
  /\ Mime \notin Words
BY DEF Words, Pieces, Names, White, Plain, Html, Wais, Mime, Delimiters,
       FieldNames

(* A parser begins at a line, with no target. *)
LEMMA NewMime ==
  ASSUME NEW targetRep \in Wanted, NEW net_ascii \in BOOLEAN
  PROVE  /\ MimeFits(HTMIMEConvert(targetRep, net_ascii))
         /\ ~ Transparent(HTMIMEConvert(targetRep, net_ascii))
<1>1. << >> \in Seq(Words)
  BY EmptySeq
<1>2. HTMIMEConvert(targetRep, net_ascii) \in MimeRecords
  BY <1>1, Literals DEF HTMIMEConvert, MimeRecords, MimeStates, Fields,
         Classes, Wanted
<1>3. QED
  BY <1>2 DEF HTMIMEConvert, MimeFits, Transparent

(* As does what stands for no parser. *)
LEMMA NoMimeFits == MimeFits(NoMime) /\ ~ Transparent(NoMime)
<1>1. << >> \in Seq(Words)
  BY EmptySeq
<1>2. NoMime \in MimeRecords
  BY <1>1, Literals DEF NoMime, HTMIMEConvert, MimeRecords, MimeStates, Fields,
         Classes, Wanted
<1>3. QED
  BY <1>2 DEF NoMime, HTMIMEConvert, MimeFits, Transparent

(* At the end of its header a parser has the target that was set up. *)
LEMMA EndOfHeaderFits ==
  ASSUME NEW me, MimeFits(me), NEW stack \in Classes, NEW sink \in SinkClasses
  PROVE  LET target == IF stack = "none" THEN sink ELSE stack
             end    == EndOfHeader(me, stack, sink)
         IN  /\ MimeFits(end) /\ end.target = target
             /\ Transparent(end) <=> target # "none"
<1> DEFINE target == IF stack = "none" THEN sink ELSE stack
           end    == EndOfHeader(me, stack, sink)
           state  == IF target = "none" THEN "IGNORE" ELSE "TRANSPARENT"
<1>1. target \in Classes
  BY DEF SinkClasses, Classes
<1>2. state \in { "IGNORE", "TRANSPARENT" } /\ (state = "TRANSPARENT" <=> target # "none")
  OBVIOUS
<1>3. end = [ HTMIMEConvert(me.targetRep, me.net_ascii) EXCEPT
                !.format = me.format, !.target = target, !.state = state ]
  BY Zenon DEF EndOfHeader
<1> HIDE DEF target, state, end
<1>4. << >> \in Seq(Words)
  BY EmptySeq
<1>5. /\ end \in MimeRecords /\ end.state = state /\ end.target = target
      /\ end.fold_state = "none"
  BY <1>1, <1>2, <1>3, <1>4, Literals
     DEF MimeFits, HTMIMEConvert, MimeRecords, MimeStates, Fields,
         Classes, Wanted
<1>6. QED
  BY <1>2, <1>5 DEF MimeFits, Transparent, target, end

(* The value of a field is the format of that name. *)
LEMMA AtomFits ==
  ASSUME NEW value \in Seq(Words)
  PROVE  AtomOf(value) \in Words
BY Literals, HeadTailProperties, EmptySeq DEF AtomOf

(* The header is read on, and its parser does not step aside. *)
Reading(me) == MimeFits(me) /\ ~ Transparent(me)

(* A line that is not understood is passed over. *)
LEMMA JunkFits ==
  ASSUME NEW me, Reading(me)
  PROVE  Reading(Junk(me))
BY DEF Reading, MimeFits, MimeRecords, MimeStates, Junk, Transparent

(* So is the rest of a line. *)
LEMMA RestOfLineFits ==
  ASSUME NEW me, Reading(me), NEW piece
  PROVE  Reading(RestOfLine(me, piece))
BY DEF Reading, MimeFits, MimeRecords, MimeStates, RestOfLine, Newline,
       Transparent

(* Reading the value of a field, to its end. *)
LEMMA GetValueFits ==
  ASSUME NEW me, Reading(me), me.field # "none", NEW piece \in Words
  PROVE  Reading(GetValue(me, piece))
<1>1. me \in MimeRecords
  BY DEF Reading, MimeFits
<1>2. CASE piece \in White
  <2>1. AtomOf(me.value) \in Words
    BY <1>1, AtomFits DEF MimeRecords
  <2>2. Reading(KeepValue(me))
    <3>1. CASE me.field = "CONTENT_TYPE"
      <4>1. KeepValue(me) = [ me EXCEPT !.format = AtomOf(me.value) ]
        BY <3>1 DEF KeepValue
      <4>2. QED
        BY <2>1, <4>1 DEF Reading, MimeFits, MimeRecords, Transparent
    <3>2. CASE me.field = "CONTENT_TRANSFER_ENCODING"
      <4>1. KeepValue(me) = [ me EXCEPT !.encoding = AtomOf(me.value) ]
        BY <3>2 DEF KeepValue
      <4>2. QED
        BY <2>1, <4>1 DEF Reading, MimeFits, MimeRecords, Transparent
    <3>3. QED
      BY <1>1, <3>1, <3>2 DEF MimeRecords, Fields
  <2>3. GetValue(me, piece) = RestOfLine(KeepValue(me), piece)
    BY <1>2 DEF GetValue, White
  <2>4. QED
    BY <2>2, <2>3, RestOfLineFits
<1>3. CASE piece = "long"
  <2>1. GetValue(me, piece) = Junk(me)
    BY <1>3 DEF GetValue, White
  <2>2. QED
    BY <2>1, JunkFits
<1>4. CASE piece \notin White /\ piece # "long"
  <2>1. GetValue(me, piece) = [ me EXCEPT !.value = Append(me.value, piece) ]
    BY <1>4 DEF GetValue
  <2>2. Append(me.value, piece) \in Seq(Words)
    BY <1>1, AppendProperties DEF MimeRecords
  <2>3. QED
    BY <2>1, <2>2 DEF Reading, MimeFits, MimeRecords, Transparent
<1>5. QED
  BY <1>2, <1>3, <1>4

(* Passing over the white space before it. *)
LEMMA SkipGetValueFits ==
  ASSUME NEW me, Reading(me), me.field # "none", NEW piece \in Words
  PROVE  Reading(SkipGetValue(me, piece))
<1>1. CASE piece = "\n"
  <2>1. SkipGetValue(me, piece) = Newline(me, "SKIP_GET_VALUE")
    BY <1>1 DEF SkipGetValue
  <2>2. QED
    BY <2>1 DEF Reading, MimeFits, MimeRecords, MimeStates, Newline,
                Transparent
<1>2. CASE piece \in { " ", "\r" }
  <2>1. SkipGetValue(me, piece) = me
    BY <1>2 DEF SkipGetValue
  <2>2. QED
    BY <2>1
<1>3. CASE piece # "\n" /\ piece \notin { " ", "\r" }
  <2> DEFINE begun == [ me EXCEPT !.state = "GET_VALUE", !.value = << >> ]
  <2>1. SkipGetValue(me, piece) = GetValue(begun, piece)
    BY <1>3 DEF SkipGetValue
  <2>2. << >> \in Seq(Words)
    BY EmptySeq
  <2>3. Reading(begun) /\ begun.field = me.field
    BY <2>2 DEF Reading, MimeFits, MimeRecords, MimeStates, Transparent
  <2>4. QED
    BY <2>1, <2>3, GetValueFits
<1>4. QED
  BY <1>1, <1>2, <1>3

(* Only a blank line ends the header. *)
LEMMA BeginLineFits ==
  ASSUME NEW me, Reading(me), NEW piece \in Words, NEW stack, NEW sink
  PROVE  \/ BeginLine(me, piece, stack, sink) = EndOfHeader(me, stack, sink)
         \/ Reading(BeginLine(me, piece, stack, sink))
<1>1. CASE piece = "c"
  <2>1. BeginLine(me, piece, stack, sink) = Expect(me, "ontent-t", "CONTENT_T")
    BY <1>1 DEF BeginLine
  <2>2. QED
    BY <2>1, Literals
       DEF Reading, MimeFits, MimeRecords, MimeStates, Expect, Transparent
<1>2. CASE piece = "\n"
  BY <1>2 DEF BeginLine
<1>3. CASE piece \notin { "c", "\n" }
  <2>1. BeginLine(me, piece, stack, sink) = Junk(me)
    BY <1>3 DEF BeginLine
  <2>2. QED
    BY <2>1, JunkFits
<1>4. QED
  BY <1>1, <1>2, <1>3

(* Any piece, in any state but at the end of the header. *)
LEMMA HeaderPieceFits ==
  ASSUME NEW me, Reading(me), NEW piece \in Words, NEW stack, NEW sink
  PROVE  \/ HeaderPiece(me, piece, stack, sink) = EndOfHeader(me, stack, sink)
         \/ Reading(HeaderPiece(me, piece, stack, sink))
<1> DEFINE next == HeaderPiece(me, piece, stack, sink)
<1>1. me \in MimeRecords /\ me.state \in MimeStates \ { "TRANSPARENT" }
  BY DEF Reading, MimeFits, MimeRecords, Transparent
<1>2. CASE me.state = "NEWLINE" /\ piece \in { " ", "\r" }
  <2>1. next = [ me EXCEPT !.state = me.fold_state ]
    BY <1>2 DEF HeaderPiece
  <2>2. me.fold_state \in { "NEWLINE", "SKIP_GET_VALUE" }
    BY <1>2 DEF Reading, MimeFits, MimeRecords
  <2>3. Reading(next)
    BY <2>1, <2>2 DEF Reading, MimeFits, MimeRecords, MimeStates, Transparent
  <2>4. QED
    BY <2>3
<1>3. CASE /\ me.state \in { "BEGINNING_OF_LINE", "NEWLINE" }
           /\ ~ (me.state = "NEWLINE" /\ piece \in { " ", "\r" })
  <2>1. next = BeginLine(me, piece, stack, sink)
    BY <1>3 DEF HeaderPiece
  <2>2. QED
    BY <2>1, BeginLineFits
<1>4. CASE me.state = "CHECK"
  <2>1. next = IF piece = me.check THEN [ me EXCEPT !.state = me.if_ok ]
               ELSE Junk(me)
    BY <1>4 DEF HeaderPiece
  <2>2. me.if_ok = "CONTENT_T"
    BY <1>4 DEF Reading, MimeFits
  <2>3. Reading([ me EXCEPT !.state = me.if_ok ])
    BY <2>2 DEF Reading, MimeFits, MimeRecords, MimeStates, Transparent
  <2>4. QED
    BY <2>1, <2>3, JunkFits
<1>5. CASE me.state = "CONTENT_T"
  <2>1. next = IF piece = "ype:" THEN [ me EXCEPT !.state = "CONTENT_TYPE" ]
               ELSE IF piece = "ransfer-encoding:"
                    THEN [ me EXCEPT !.state = "CONTENT_TRANSFER_ENCODING" ]
                    ELSE Junk(me)
    BY <1>5 DEF HeaderPiece
  <2>2. ASSUME NEW state \in { "CONTENT_TYPE", "CONTENT_TRANSFER_ENCODING" }
        PROVE  Reading([ me EXCEPT !.state = state ])
    BY <2>2 DEF Reading, MimeFits, MimeRecords, MimeStates, Transparent
  <2>3. QED
    BY <2>1, <2>2, JunkFits
<1>6. CASE me.state \in { "CONTENT_TYPE", "CONTENT_TRANSFER_ENCODING" }
  <2> DEFINE skip == [ me EXCEPT !.field = me.state, !.state = "SKIP_GET_VALUE" ]
  <2>1. next = SkipGetValue(skip, piece)
    BY <1>6 DEF HeaderPiece
  <2>2. Reading(skip) /\ skip.field # "none"
    BY <1>6 DEF Reading, MimeFits, MimeRecords, MimeStates, Fields, Transparent
  <2>3. QED
    BY <2>1, <2>2, SkipGetValueFits
<1>7. CASE me.state = "SKIP_GET_VALUE"
  <2>1. next = SkipGetValue(me, piece)
    BY <1>7 DEF HeaderPiece
  <2>2. QED
    BY <1>7, <2>1, SkipGetValueFits DEF Reading, MimeFits
<1>8. CASE me.state = "GET_VALUE"
  <2>1. next = GetValue(me, piece)
    BY <1>8 DEF HeaderPiece
  <2>2. QED
    BY <1>8, <2>1, GetValueFits DEF Reading, MimeFits
<1>9. CASE me.state = "JUNK_LINE"
  <2>1. next = RestOfLine(me, piece)
    BY <1>9 DEF HeaderPiece
  <2>2. QED
    BY <2>1, RestOfLineFits
<1>10. CASE me.state = "IGNORE"
  <2>1. next = me
    BY <1>10 DEF HeaderPiece
  <2>2. QED
    BY <2>1
<1>11. QED
  BY <1>1, <1>2, <1>3, <1>4, <1>5, <1>6, <1>7, <1>8, <1>9, <1>10 DEF MimeStates

(* The elements of what is shown of a source file. *)
Elements ==
  { "TITLE", "/TITLE", "H1", "/H1", "DL", "DT", "DD", "A", "/A", "/DL" }

WsrcRecords ==
  [ state : WsrcStates, param : Seq(Words), param_number : Parameters,
    par_value : [ Parameters -> Seq(Words) ], freed : BOOLEAN,
    link : Seq(Seq(Words)), elements : Seq(Elements), crash : BOOLEAN ]

WsrcFits(me) == me \in WsrcRecords

-----------------------------------------------------------------------------
(* The source file parser. *)
LEMMA NewWsrc == WsrcFits(HTWSRCConvert)
<1>1. /\ << >> \in Seq(Words) /\ << >> \in Seq(Seq(Words))
      /\ << >> \in Seq(Elements)
  BY EmptySeq
<1>2. QED
  BY <1>1 DEF HTWSRCConvert, WsrcFits, WsrcRecords, WsrcStates, Parameters,
              NotGiven

(* A state and no more. *)
LEMMA GoFits ==
  ASSUME NEW me, WsrcFits(me), NEW state \in WsrcStates
  PROVE  WsrcFits(Go(me, state))
BY DEF WsrcFits, WsrcRecords, Go

(* A piece of the value of a parameter. *)
LEMMA AddFits ==
  ASSUME NEW me, WsrcFits(me), NEW piece \in Words
  PROVE  WsrcFits(AddTo(me, piece))
<1>1. Append(me.param, piece) \in Seq(Words)
  BY AppendProperties DEF WsrcFits, WsrcRecords
<1>2. QED
  BY <1>1 DEF WsrcFits, WsrcRecords, AddTo

(* The value of a parameter. *)
LEMMA KeepFits ==
  ASSUME NEW me, WsrcFits(me)
  PROVE  WsrcFits(KeepParam(me))
<1>1. /\ me \in WsrcRecords /\ me.param \in Seq(Words)
      /\ me.par_value \in [ Parameters -> Seq(Words) ]
  BY DEF WsrcFits, WsrcRecords
<1> DEFINE kept == [ me.par_value EXCEPT ![me.param_number] = me.param ]
<1>2. kept \in [ Parameters -> Seq(Words) ]
  BY <1>1
<1>3. KeepParam(me) = [ me EXCEPT !.par_value = kept, !.state = "before_tag" ]
  BY DEF KeepParam
<1> HIDE DEF kept
<1>4. QED
  BY <1>1, <1>2, <1>3 DEF WsrcFits, WsrcRecords, WsrcStates

(* The parser takes the next piece, whatever it is. *)
LEMMA WsrcTakes ==
  ASSUME NEW me, WsrcFits(me), NEW piece \in Words
  PROVE  WsrcFits(WSRCParser_put_character(me, piece))
<1> DEFINE next == WSRCParser_put_character(me, piece)
<1>1. me \in WsrcRecords /\ me.state \in WsrcStates
  BY DEF WsrcFits, WsrcRecords
<1>2. CASE me.state = "beginning"
  <2>1. next = IF piece = "(" THEN Go(me, "before_tag") ELSE me
    BY <1>2 DEF WSRCParser_put_character
  <2>2. QED
    BY <2>1, GoFits DEF WsrcStates
<1>3. CASE me.state = "before_tag"
  <2>1. next = BeforeTag(me, piece)
    BY <1>3 DEF WSRCParser_put_character
  <2>2. << >> \in Seq(Words)
    BY EmptySeq
  <2>3. WsrcFits([ me EXCEPT !.state = "colon", !.param = << >> ])
    BY <2>2 DEF WsrcFits, WsrcRecords, WsrcStates
  <2>4. WsrcFits(Go(me, "done"))
    BY GoFits DEF WsrcStates
  <2>5. QED
    BY <2>1, <2>3, <2>4 DEF BeforeTag
<1>4. CASE me.state = "colon"
  <2>1. next = Colon(me, piece)
    BY <1>4 DEF WSRCParser_put_character
  <2>2. NumberOf(me.param) \in Parameters
    BY DEF NumberOf, Parameters
  <2>3. WsrcFits([ me EXCEPT !.param_number = NumberOf(me.param),
                             !.state = "before_value" ])
    BY <2>2 DEF WsrcFits, WsrcRecords, WsrcStates
  <2>4. QED
    BY <2>1, <2>3, AddFits DEF Colon
<1>5. CASE me.state = "before_value"
  <2>1. next = BeforeValue(me, piece)
    BY <1>5 DEF WSRCParser_put_character
  <2> DEFINE empty == [ me EXCEPT !.param = << >> ]
  <2>2. << >> \in Seq(Words)
    BY EmptySeq
  <2>3. WsrcFits(empty)
    BY <2>2 DEF WsrcFits, WsrcRecords
  <2> HIDE DEF empty
  <2>4. ASSUME NEW state \in { "value", "bracketed_value", "quoted_value" }
        PROVE  WsrcFits(Go(empty, state))
    BY <2>3, <2>4, GoFits DEF WsrcStates
  <2>5. WsrcFits(Go(me, "done"))
    BY GoFits DEF WsrcStates
  <2>6. \/ next = Go(me, "done") \/ next = me
        \/ next = Go(empty, "quoted_value")
        \/ next = AddTo(Go(empty, "bracketed_value"), piece)
        \/ next = AddTo(Go(empty, "value"), piece)
    BY <2>1 DEF BeforeValue, empty
  <2>7. QED
    BY <2>4, <2>5, <2>6, AddFits
<1>6. CASE me.state \in { "value", "bracketed_value" }
  <2>1. next \in { KeepParam(me), AddTo(me, piece) }
    BY <1>6 DEF WSRCParser_put_character, Value, BracketedValue
  <2>2. QED
    BY <2>1, KeepFits, AddFits
<1>7. CASE me.state = "quoted_value"
  <2>1. next = QuotedValue(me, piece)
    BY <1>7 DEF WSRCParser_put_character
  <2>2. WsrcFits(Go(me, "escape_in_quoted"))
    BY GoFits DEF WsrcStates
  <2>3. QED
    BY <2>1, <2>2, KeepFits, AddFits DEF QuotedValue
<1>8. CASE me.state \in { "escape_in_quoted", "done" }
  <2>1. next \in { AddTo(me, piece), me }
    BY <1>8 DEF WSRCParser_put_character
  <2>2. QED
    BY <2>1, AddFits
<1>9. QED
  BY <1>1, <1>2, <1>3, <1>4, <1>5, <1>6, <1>7, <1>8 DEF WsrcStates

(* Freeing it shows what it has read. *)
LEMMA WsrcFreed ==
  ASSUME NEW me, WsrcFits(me)
  PROVE  WsrcFits(WSRCParser_free(me))
<1> DEFINE shown == WSRC_gen_html(me)
           crash == ~ Given(me, "ip-name")
           e1 == IF Given(me, "database-name")
                 THEN << "TITLE", "/TITLE", "H1", "/H1" >> ELSE << >>
           linked == Given(me, "database-name") /\ Given(me, "ip-name")
           e3 == IF linked THEN << "A", "/A", "A", "/A" >> ELSE << >>
           e5 == IF Given(me, "ip-name") THEN << "/DL" >> ELSE << >>
           elements == e1 \o << "DL", "DT", "DD" >> \o e3 \o << "DT", "DD" >> \o e5
           link == IF linked
                   THEN << me.par_value["ip-name"], me.par_value["tcp-port"],
                           me.par_value["database-name"] >>
                   ELSE << >>
<1>1. shown = [ me EXCEPT !.elements = elements, !.link = link, !.crash = crash ]
  BY Zenon DEF WSRC_gen_html
<1>2. crash \in BOOLEAN
  OBVIOUS
<1>3. link \in Seq(Seq(Words))
  <2>1. \A p \in par_name : me.par_value[p] \in Seq(Words)
    BY DEF WsrcFits, WsrcRecords, Parameters
  <2>2. /\ me.par_value["ip-name"] \in Seq(Words)
        /\ me.par_value["tcp-port"] \in Seq(Words)
        /\ me.par_value["database-name"] \in Seq(Words)
    BY <2>1 DEF par_name
  <2>3. << >> \in Seq(Seq(Words))
    BY EmptySeq
  <2>4. QED
    BY <2>2, <2>3
<1>4. elements \in Seq(Elements)
  <2>1. e1 \in Seq(Elements) /\ e3 \in Seq(Elements) /\ e5 \in Seq(Elements)
    <3>1. << >> \in Seq(Elements)
      BY EmptySeq
    <3>2. /\ << "TITLE", "/TITLE", "H1", "/H1" >> \in Seq(Elements)
          /\ << "A", "/A", "A", "/A" >> \in Seq(Elements)
          /\ << "/DL" >> \in Seq(Elements)
      BY DEF Elements
    <3>3. QED
      BY <3>1, <3>2, Zenon
  <2>2. /\ << "DL", "DT", "DD" >> \in Seq(Elements)
        /\ << "DT", "DD" >> \in Seq(Elements)
    BY DEF Elements
  <2> HIDE DEF e1, e3, e5
  <2>3. \A s, t \in Seq(Elements) : s \o t \in Seq(Elements)
    BY ConcatProperties
  <2>4. QED
    BY <2>1, <2>2, <2>3
<1> HIDE DEF crash, link, elements, shown
<1>5. WsrcFits(shown)
  BY <1>1, <1>2, <1>3, <1>4 DEF WsrcFits, WsrcRecords
<1>6. WSRCParser_free(me) = [ shown EXCEPT !.freed = TRUE ]
  BY DEF WSRCParser_free, shown
<1>7. QED
  BY <1>5, <1>6 DEF WsrcFits, WsrcRecords

-----------------------------------------------------------------------------
(* The table of conversions. *)
AllFormats ==
  { Mime, Source, Present, Html, Plain, Wais, Wildcard, "application/postscript",
    "image/gif", "text/x-c", "application/octet-stream", "www/unknown" }

Conversions ==
  [ rep : AllFormats, rep_out : AllFormats, converter : Classes \ { "none" } ]

(* Nobody defines a parser for another format than its own. *)
Known ==
  { c \in Conversions :
      /\ c.converter = "MIMEParser"  => c.rep = Mime
      /\ c.converter = "WSRCParser"  => c.rep = Wais
      /\ c.converter = "PlainToHTML" => c.rep = Plain }

LEMMA Least ==
  ASSUME NEW T \in SUBSET Nat, T # {}
  PROVE  Min(T) \in T /\ \A y \in T : Min(T) <= y
<1> DEFINE R == OpToRel(<, Nat)
<1>1. IsWellFoundedOn(R, Nat)
  BY NatLessThanWellFounded, Zenon
<1>2. \A x, y \in Nat : x < y => << x, y >> \in R
  BY DEF OpToRel
<1> HIDE DEF R
<1>3. PICK x \in T : \A y \in T : ~ (<< y, x >> \in R)
  BY <1>1, WFMin
<1>4. ASSUME NEW y \in T
      PROVE  x <= y
  <2>1. ~ (y < x)
    BY <1>2, <1>3
  <2>2. QED
    BY <2>1
<1>5. \E z \in T : \A y \in T : z <= y
  BY <1>4
<1>6. QED
  BY <1>5, Zenon DEF Min

(* A set of places of a list has a last one, if it has one. *)
LEMMA LastPlace ==
  ASSUME NEW n \in Nat, NEW S \in SUBSET (1 .. n), S # {}
  PROVE  Max(S) \in S
<1> DEFINE T == { n - i : i \in S }
<1>1. T \in SUBSET Nat /\ T # {}
  <2>1. \A i \in S : n - i \in Nat
    OBVIOUS
  <2>2. PICK i \in S : TRUE
    OBVIOUS
  <2>3. n - i \in T
    OBVIOUS
  <2>4. QED
    BY <2>1, <2>3
<1>2. Min(T) \in T /\ \A y \in T : Min(T) <= y
  BY <1>1, Least
<1>3. PICK x \in S : Min(T) = n - x
  BY <1>2
<1>4. ASSUME NEW y \in S
      PROVE  x >= y
  <2>1. n - x <= n - y
    BY <1>2, <1>3
  <2>2. x \in Nat /\ y \in Nat
    OBVIOUS
  <2>3. QED
    BY <2>1, <2>2
<1>5. \E z \in S : \A y \in S : z >= y
  BY <1>4
<1>6. QED
  BY <1>5, Zenon DEF Max

(* A conversion that is not of a parser is a known one. *)
LEMMA KnownConversion ==
  ASSUME NEW rep \in AllFormats, NEW rep_out \in AllFormats,
         NEW converter \in Classes \ { "none" },
         converter = "MIMEParser"  => rep = Mime,
         converter = "WSRCParser"  => rep = Wais,
         converter = "PlainToHTML" => rep = Plain
  PROVE  Conversion(rep, rep_out, converter) \in Known
BY DEF Conversion, Known, Conversions

(* The conversions of the library are. *)
LEMMA LibraryFits == Library \in Seq(Known)
<1>1. /\ Conversion("application/postscript", Present, "SaveAndExecute") \in Known
      /\ Conversion("image/gif", Present, "SaveAndExecute") \in Known
      /\ Conversion("application/octet-stream", Present, "SaveLocally") \in Known
      /\ Conversion("www/unknown", Present, "SaveLocally") \in Known
      /\ Conversion(Source, Present, "SaveLocally") \in Known
  BY KnownConversion DEF AllFormats, Classes
<1>2. /\ Conversion(Mime, Wildcard, "MIMEParser") \in Known
      /\ Conversion(Wais, Wildcard, "WSRCParser") \in Known
      /\ Conversion(Html, "text/x-c", "HTMLToC") \in Known
      /\ Conversion(Html, Plain, "HTMLToPlain") \in Known
      /\ Conversion(Html, Present, "HTMLPresent") \in Known
      /\ Conversion(Plain, Html, "PlainToHTML") \in Known
      /\ Conversion(Plain, Present, "HTPlain") \in Known
  BY KnownConversion DEF AllFormats, Classes
<1>3. QED
  BY <1>1, <1>2 DEF Library

(* The table, which may not have been made, holds known conversions. *)
TableFits == HTPresentations \in Seq(Known) \cup { NULL }

LEMMA PresentationsFit ==
  ASSUME TableFits
  PROVE  /\ TheList \in Seq(Known)
         /\ HTFormatInit \in Seq(Known)
         /\ Presentations \in Seq(Known)
<1>1. TheList \in Seq(Known)
  BY EmptySeq DEF TheList, TableFits
<1>2. HTFormatInit \in Seq(Known)
  BY <1>1, LibraryFits, ConcatProperties DEF HTFormatInit
<1>3. QED
  BY <1>1, <1>2 DEF Presentations, TableFits

(* What a stack is set up with is a conversion from the format asked for,  *)
(* or from any source.                                                     *)
LEMMA StackIsKnown ==
  ASSUME NEW list \in Seq(Known), NEW rep_in, NEW rep_out
  PROVE  LET class == HTStreamStack(list, rep_in, rep_out)
         IN  /\ class \in Classes
             /\ class = "MIMEParser"  => Mime  \in { rep_in, Source }
             /\ class = "WSRCParser"  => Wais  \in { rep_in, Source }
             /\ class = "PlainToHTML" => Plain \in { rep_in, Source }
<1> DEFINE class == HTStreamStack(list, rep_in, rep_out)
           exact    == From(list, rep_in, rep_out)
           wildcard == From(list, rep_in, Wildcard)
           source   == From(list, Source, rep_out)
           match    == IF wildcard # {} THEN wildcard
                       ELSE IF source # {} THEN source
                       ELSE From(list, Source, Wildcard)
<1>1. class = IF exact # {} THEN list[Min(exact)].converter
              ELSE IF match # {} THEN list[Max(match)].converter ELSE "none"
  BY Zenon DEF HTStreamStack
<1>2. Len(list) \in Nat /\ DOMAIN list = 1 .. Len(list)
  BY LenProperties
<1>3. /\ exact \in SUBSET (1 .. Len(list)) /\ match \in SUBSET (1 .. Len(list))
      /\ \A i \in exact : list[i].rep = rep_in
      /\ \A i \in match : list[i].rep \in { rep_in, Source }
  BY <1>2 DEF From
<1>4. exact \in SUBSET Nat
  BY <1>2, <1>3
<1> HIDE DEF exact, match, class
<1>5. \/ class = "none"
      \/ \E i \in 1 .. Len(list) : /\ class = list[i].converter
                                   /\ list[i].rep \in { rep_in, Source }
  <2>1. CASE exact # {}
    <3>1. Min(exact) \in exact
      BY <1>4, <2>1, Least
    <3>2. QED
      BY <1>1, <1>3, <2>1, <3>1
  <2>2. CASE exact = {} /\ match # {}
    <3>1. Max(match) \in match
      BY <1>2, <1>3, <2>2, LastPlace, Zenon
    <3>2. QED
      BY <1>1, <1>3, <2>2, <3>1
  <2>3. CASE exact = {} /\ match = {}
    BY <1>1, <2>3
  <2>4. QED
    BY <2>1, <2>2, <2>3
<1>6. \A i \in 1 .. Len(list) : list[i] \in Known
  BY ElementOfSeq
<1>7. QED
  BY <1>5, <1>6 DEF class, Known, Conversions, Classes

-----------------------------------------------------------------------------
(* The stack and what is put down it. *)
Made ==
  { c \in [ method : { "put_character", "put_string", "write" }, chars : Chars ] :
      /\ c.method = "put_character" => Len(c.chars) = 1
      /\ c.method = "put_string"    => Len(c.chars) = 2 }

StreamRecords ==
  [ rep_in : AllFormats \cup { "none" }, rep_out : Wanted, sink : SinkClasses,
    copy : { "none", "HTCopy", "NetToText", "HTCopyNoCR", "HTMLGenerator" },
    last : Classes, prefix : Seq(Made) ]

DocFits ==
  /\ TableFits
  /\ stream \in StreamRecords
  /\ phase \in { "define", "header", "body", "freed", "failed" }
  /\ had_cr \in BOOLEAN /\ lines \in Nat
  /\ line \in Seq(Words) /\ fed \in Chars
  /\ given \in Chars /\ calls \in Seq(Made)
  /\ phase = "define" => stream.last = "none" /\ fed = << >>
  /\ phase \in { "header", "body", "freed" } => stream.last # "none"

ParsersFit ==
  /\ MimeFits(mime) /\ WsrcFits(wsrc)
  /\ stream.last = "MIMEParser" => ~ Transparent(mime)
  /\ stream.last # "WSRCParser" => wsrc = HTWSRCConvert
  /\ stream.last \in { "none", "MIMEParser" } => calls = << >> /\ given = << >>

SocketFits ==
  /\ WriterFits(writer) /\ wire \in Chars
  /\ BUFFER_SIZE >= 2 => Fills(writer)
  /\ stream.last = "SocketWriter" => Delivers(writer, wire, given)
  /\ stream.last # "SocketWriter" => writer = HTWriter_new /\ wire = << >>

Inv == DocFits /\ ParsersFit /\ SocketFits

(* Short sequences. *)
LEMMA Tuples ==
  ASSUME NEW S
  PROVE  \A a, b, c, d, e, f \in S :
           /\ << a >> \in Seq(S) /\ << a, b >> \in Seq(S)
           /\ << a, b, c >> \in Seq(S)
           /\ << a, b, c, d >> \in Seq(S) /\ << a, b, c, d, e >> \in Seq(S)
           /\ << a, b, c, d, e, f >> \in Seq(S)
OBVIOUS

(* Every piece of every line is a word. *)
LEMMA PutTogether ==
  ASSUME NEW S
  PROVE  /\ << >> \in Seq(S)
         /\ \A s, t \in Seq(S) : s \o t \in Seq(S)
         /\ \A s \in Seq(S) : s # << >> => Head(s) \in S /\ Tail(s) \in Seq(S)
<1>1. << >> \in Seq(S)
  BY EmptySeq
<1>2. \A s, t \in Seq(S) : s \o t \in Seq(S)
  BY ConcatProperties
<1>3. \A s \in Seq(S) : s # << >> => Head(s) \in S /\ Tail(s) \in Seq(S)
  BY HeadTailProperties
<1>4. QED
  BY <1>1, <1>2, <1>3

(* Both ends of a line. *)
LEMMA EolsFit == \A eol \in Eols : eol \in Seq(Words)
<1>1. "\n" \in Words /\ "\r" \in Words
  BY DEF Words, Pieces, White
<1>2. << "\n" >> \in Seq(Words) /\ << "\r", "\n" >> \in Seq(Words)
  BY <1>1
<1>3. QED
  BY <1>2 DEF Eols

(* Every line of a header. *)
LEMMA HeaderLinesFit ==
  ASSUME NEW eol \in Eols, NEW it \in HeaderLines(eol)
  PROVE  it.pieces \in Seq(Words)
<1>1. /\ "c" \in Words /\ "ontent-t" \in Words /\ "ype:" \in Words
      /\ "ransfer-encoding:" \in Words /\ " " \in Words /\ "other" \in Words
      /\ "long" \in Words /\ Html \in Words /\ Plain \in Words /\ Wais \in Words
  BY DEF Words, Pieces, Names, White
<1>2. Type \in Seq(Words) /\ eol \in Seq(Words)
  BY <1>1, EolsFit, Tuples, Zenon DEF Type
<1>3. \A s, t \in Seq(Words) : s \o t \in Seq(Words)
  BY PutTogether
<1>4. /\ << " ", Html >> \in Seq(Words) /\ << " ", Plain >> \in Seq(Words)
      /\ << " ", Wais, " " >> \in Seq(Words) /\ << " ", "long" >> \in Seq(Words)
      /\ << " ", Html, " ", "other" >> \in Seq(Words)
      /\ << " " >> \in Seq(Words)
  BY <1>1, Tuples, Zenon
<1>5. /\ << "c", "ontent-t", "ransfer-encoding:", " ", "other" >> \in Seq(Words)
      /\ << "c", "other" >> \in Seq(Words)
      /\ << "c", "ontent-t", "other" >> \in Seq(Words)
      /\ << "other" >> \in Seq(Words) /\ << " ", "other" >> \in Seq(Words)
      /\ << "c", "ontent-t" >> \in Seq(Words)
  BY <1>1, Tuples, Zenon
<1>6. /\ Type \o << " ", Html >> \in Seq(Words)
      /\ Type \o << " ", Plain >> \in Seq(Words)
      /\ Type \o << " ", Wais, " " >> \in Seq(Words)
      /\ Type \o << " ", "long" >> \in Seq(Words)
      /\ Type \o << " ", Html, " ", "other" >> \in Seq(Words)
  BY <1>2, <1>3, <1>4
<1>7. /\ Type \o eol \o << " ", Html >> \in Seq(Words)
      /\ << " " >> \o Type \o << " ", Html >> \in Seq(Words)
  BY <1>2, <1>3, <1>4
<1> DEFINE Others ==
             { Type \o << " ", Wais, " " >>, Type \o eol \o << " ", Html >>,
               << "c", "ontent-t", "ransfer-encoding:", " ", "other" >>,
               << "c", "other" >>, << "c", "ontent-t", "other" >>, << "other" >>,
               << " ", "other" >>, Type \o << " ", "long" >>,
               Type \o << " ", Html, " ", "other" >>, << "c", "ontent-t" >>, Type,
               << " " >> \o Type \o << " ", Html >> }
<1>8. \A p \in Others : p \in Seq(Words)
  BY <1>2, <1>4, <1>5, <1>6, <1>7
<1>9. \/ \E f \in { Html, Plain } : it = HeaderLine(Type \o << " ", f >>, f, TRUE)
      \/ \E p \in Others : \E f, r : it = HeaderLine(p, f, r)
  BY Zenon DEF HeaderLines
<1> HIDE DEF Others
<1>10. \A p, f, r : HeaderLine(p, f, r).pieces = p
  BY DEF HeaderLine
<1>11. CASE \E f \in { Html, Plain } : it = HeaderLine(Type \o << " ", f >>, f, TRUE)
  <2>1. PICK f \in { Html, Plain } : it = HeaderLine(Type \o << " ", f >>, f, TRUE)
    BY <1>11
  <2>2. it.pieces = Type \o << " ", f >>
    BY <1>10, <2>1, Zenon
  <2>3. QED
    BY <1>6, <2>2
<1>12. CASE \E p \in Others : \E f, r : it = HeaderLine(p, f, r)
  <2>1. PICK p \in Others : \E f, r : it = HeaderLine(p, f, r)
    BY <1>12
  <2>2. it.pieces = p
    BY <1>10, <2>1, Zenon
  <2>3. QED
    BY <1>8, <2>2
<1>13. QED
  BY <1>9, <1>11, <1>12

(* Every field of a source file. *)
LEMMA FieldsFit ==
  ASSUME NEW it \in (UNION { FieldsOf(name) : name \in FieldNames }) \cup { Junk_, Close }
  PROVE  it.pieces \in Seq(Words)
<1>1. /\ Word \in Words /\ "white" \in Words /\ ":" \in Words /\ "(" \in Words
      /\ ")" \in Words /\ "\"" \in Words /\ "\\" \in Words
      /\ \A name \in FieldNames : name \in Words
  BY DEF Words, Word, Delimiters
<1>2. \A name \in FieldNames : Tag(name) \in Seq(Words)
  BY <1>1, Tuples, Zenon DEF Tag
<1>3. /\ << Word, "white" >> \in Seq(Words) /\ << ")" >> \in Seq(Words)
      /\ << "\"", Word, "white", ":", ")", "\"" >> \in Seq(Words)
      /\ << "white", "(", Word, "\"", ")" >> \in Seq(Words)
      /\ << "\"", Word, "\\", "\"", "\"" >> \in Seq(Words)
  BY <1>1, Tuples, Zenon
<1>4. \A p, n, v, r : Field(p, n, v, r).pieces = p
  BY DEF Field
<1>5. \A s, t \in Seq(Words) : s \o t \in Seq(Words)
  BY PutTogether
<1>6. ASSUME NEW name \in FieldNames, it \in FieldsOf(name)
      PROVE  it.pieces \in Seq(Words)
  <2> DEFINE Tagged_ ==
               { Tag(name) \o << Word, "white" >>,
                 Tag(name) \o << "\"", Word, "white", ":", ")", "\"" >>,
                 Tag(name) \o << "white", "(", Word, "\"", ")" >>,
                 Tag(name) \o << "\"", Word, "\\", "\"", "\"" >>, Tag(name) }
  <2>1. \A p \in Tagged_ : p \in Seq(Words)
    BY <1>2, <1>3, <1>5
  <2>2. \E p \in Tagged_ : \E v, r : it = Field(p, name, v, r)
    BY <1>6, Zenon DEF FieldsOf
  <2> HIDE DEF Tagged_
  <2>3. PICK p \in Tagged_ : \E v, r : it = Field(p, name, v, r)
    BY <2>2
  <2>4. it.pieces = p
    <3>1. PICK v, r : it = Field(p, name, v, r)
      BY <2>3
    <3>2. QED
      BY <1>4, <3>1, Zenon
  <2>5. QED
    BY <2>1, <2>4
<1>7. Junk_.pieces \in Seq(Words) /\ Close.pieces \in Seq(Words)
  <2>1. Junk_.pieces = << Word, "white" >>
    BY <1>4, Zenon DEF Junk_
  <2>2. Close.pieces = << ")" >>
    BY <1>4, Zenon DEF Close
  <2>3. QED
    BY <1>3, <2>1, <2>2, Zenon
<1>8. QED
  <2>1. CASE it \in { Junk_, Close }
    BY <1>7, <2>1, Zenon
  <2>2. CASE it \in UNION { FieldsOf(name) : name \in FieldNames }
    <3>1. PICK name \in FieldNames : it \in FieldsOf(name)
      BY <2>2
    <3>2. QED
      BY <1>6, <3>1, Zenon
  <2>3. QED
    BY <2>1, <2>2, Zenon

-----------------------------------------------------------------------------
(* A stream that begins with a call of its own. *)
LEMMA MadeCall ==
  ASSUME NEW method \in { "put_character", "put_string", "write" },
         NEW chars \in Chars,
         method = "put_character" => Len(chars) = 1,
         method = "put_string"    => Len(chars) = 2
  PROVE  Call(method, chars) \in Made
BY DEF Call, Made

(* A call of a single character. *)
LEMMA OneIsMade ==
  ASSUME NEW c \in Int
  PROVE  One(c) \in Made /\ << c >> \in Chars /\ One(c).method = "put_character"
<1>1. << c >> \in Chars /\ Len(<< c >>) = 1
  BY DEF Chars
<1>2. One(c) \in Made
  BY <1>1, MadeCall DEF One
<1>3. QED
  BY <1>1, <1>2 DEF One, Call

(* A call for each character of a text. *)
LEMMA OneByOneIsMade ==
  ASSUME NEW text \in Chars
  PROVE  OneByOne(text) \in Seq(Made) /\ Len(OneByOne(text)) = Len(text)
<1>1. Len(text) \in Nat /\ DOMAIN text = 1 .. Len(text)
  BY LenProperties DEF Chars
<1>2. \A i \in 1 .. Len(text) : One(text[i]) \in Made
  BY OneIsMade, ElementOfSeq DEF Chars
<1>3. OneByOne(text) = [ i \in 1 .. Len(text) |-> One(text[i]) ]
  BY <1>1 DEF OneByOne
<1>4. QED
  BY <1>1, <1>2, <1>3

(* The calls a stream begins with. *)
LEMMA PrefixFits ==
  ASSUME NEW class
  PROVE  PrefixOf(class) \in Seq(Made)
<1>1. Begun \in Chars /\ Len(Begun) = 2
  BY DEF Begun, Chars
<1>2. Call("put_string", Begun) \in Made
  BY <1>1, MadeCall
<1>3. << Call("put_string", Begun) >> \in Seq(Made) /\ << >> \in Seq(Made)
  BY <1>2, PutTogether
<1>4. QED
  BY <1>3 DEF PrefixOf

(* The stack with another last stream. *)
LEMMA EnteredFits ==
  ASSUME NEW it \in StreamRecords, NEW class \in Classes
  PROVE  /\ Entered(it, class) \in StreamRecords
         /\ Entered(it, class).last = LastOf(class)
         /\ Entered(it, class).copy = it.copy
         /\ LastOf(class) = "none" <=> class = "none"
         /\ LastOf(class) = "MIMEParser" <=> class = "MIMEParser"
         /\ LastOf(class) = "WSRCParser" <=> class = "WSRCParser"
         /\ LastOf(class) \in { "none", "MIMEParser" } => PrefixOf(class) = << >>
<1>1. LastOf(class) \in Classes
  BY DEF LastOf, Classes
<1>2. PrefixOf(class) \in Seq(Made)
  BY PrefixFits
<1>3. /\ Entered(it, class) \in StreamRecords
      /\ Entered(it, class).last = LastOf(class)
      /\ Entered(it, class).copy = it.copy
  BY <1>1, <1>2 DEF Entered, StreamRecords
<1>4. QED
  BY <1>3 DEF LastOf, PrefixOf

(* What a stack is asked for. *)
LEMMA OpeningFits ==
  ASSUME NEW it \in Openings
  PROVE  /\ it \in StreamRecords /\ it.rep_out \in Wanted /\ it.rep_out # "none"
         /\ it.sink \in SinkClasses /\ it.rep_in \in AllFormats
         /\ it.copy = "NetToText" => it.rep_in = Html
<1>1. \A rep_in \in AllFormats, rep_out \in Wanted, sink \in SinkClasses,
         copy \in { "HTCopy", "NetToText", "HTCopyNoCR", "HTMLGenerator" } :
        LET s == Stream(rep_in, rep_out, sink, copy)
        IN  /\ s \in StreamRecords /\ s.rep_out = rep_out /\ s.sink = sink
            /\ s.copy = copy /\ s.rep_in = rep_in
  BY PutTogether DEF Stream, StreamRecords, Classes
<1>2. PICK rep_in, rep_out, sink, copy :
        /\ it = Stream(rep_in, rep_out, sink, copy)
        /\ rep_in \in AllFormats /\ rep_out \in { Source, Present, Html }
        /\ sink \in SinkClasses
        /\ copy \in { "HTCopy", "NetToText", "HTCopyNoCR", "HTMLGenerator" }
        /\ copy = "NetToText" => rep_in = Html
  <2>1. \A rep_out : Sinks(rep_out) \subseteq SinkClasses
    BY DEF Sinks, SinkClasses
  <2>2. \/ it \in UNION { Copied(rep_out) : rep_out \in { Source, Present, Html } }
        \/ it \in { Generated(rep_out) : rep_out \in { Source, Html } }
    BY Zenon DEF Openings
  <2>3. CASE it \in { Generated(rep_out) : rep_out \in { Source, Html } }
    BY <2>3 DEF Generated, AllFormats, SinkClasses
  <2>4. ASSUME NEW rep_out \in { Source, Present, Html }, it \in Copied(rep_out)
        PROVE  \E rep \in { << Mime, "HTCopy" >>, << Html, "NetToText" >>,
                            << Plain, "HTCopyNoCR" >>, << Wais, "HTCopyNoCR" >> },
                  sink \in SinkClasses : it = Stream(rep[1], rep_out, sink, rep[2])
    BY <2>1, <2>4 DEF Copied
  <2>5. ASSUME NEW rep_out \in { Source, Present, Html }, it \in Copied(rep_out)
        PROVE  \E rep_in \in AllFormats, sink \in SinkClasses,
                  copy \in { "HTCopy", "NetToText", "HTCopyNoCR" } :
                 /\ it = Stream(rep_in, rep_out, sink, copy)
                 /\ copy = "NetToText" => rep_in = Html
    <3>1. PICK rep \in { << Mime, "HTCopy" >>, << Html, "NetToText" >>,
                         << Plain, "HTCopyNoCR" >>, << Wais, "HTCopyNoCR" >> },
               sink \in SinkClasses : it = Stream(rep[1], rep_out, sink, rep[2])
      BY <2>4, <2>5, Zenon
    <3>2. /\ rep[1] \in AllFormats
          /\ rep[2] \in { "HTCopy", "NetToText", "HTCopyNoCR" }
          /\ rep[2] = "NetToText" => rep[1] = Html
      BY <3>1 DEF AllFormats
    <3>3. QED
      BY <3>1, <3>2, Zenon
  <2>6. CASE it \in UNION { Copied(rep_out) : rep_out \in { Source, Present, Html } }
    <3>1. PICK rep_out \in { Source, Present, Html } : it \in Copied(rep_out)
      BY <2>6
    <3>2. QED
      BY <2>5, <3>1
  <2>7. QED
    BY <2>2, <2>3, <2>6
<1>3. rep_out \in Wanted /\ rep_out # "none"
  BY <1>2 DEF Wanted, Source, Present, Html
<1>4. QED
  BY <1>1, <1>2, <1>3

(* What the stack is begun with, and whether a file could be opened. *)
LEMMA ClassFits ==
  ASSUME TableFits, NEW it \in Openings,
         NEW class \in Outcomes(Class(it))
  PROVE  /\ class \in Classes
         /\ it.copy = "NetToText" =>
              class \notin { "MIMEParser", "WSRCParser", "PlainToHTML" }
<1>1. it.sink \in SinkClasses /\ (it.copy = "NetToText" => it.rep_in = Html)
  BY OpeningFits
<1>2. class \in { Class(it), "none" }
  BY DEF Outcomes
<1>3. \/ Class(it) = it.sink
      \/ Class(it) = HTStreamStack(Presentations, it.rep_in, it.rep_out)
  BY DEF Class
<1> DEFINE stack == HTStreamStack(Presentations, it.rep_in, it.rep_out)
<1>4. /\ stack \in Classes
      /\ stack = "MIMEParser"  => Mime  \in { it.rep_in, Source }
      /\ stack = "WSRCParser"  => Wais  \in { it.rep_in, Source }
      /\ stack = "PlainToHTML" => Plain \in { it.rep_in, Source }
  BY PresentationsFit, StackIsKnown
<1> HIDE DEF stack
<1>5. Mime \notin { Html, Source } /\ Wais \notin { Html, Source }
      /\ Plain \notin { Html, Source }
  BY DEF Mime, Wais, Plain, Html, Source
<1>6. QED
  BY <1>1, <1>2, <1>3, <1>4, <1>5 DEF SinkClasses, Classes, stack

-----------------------------------------------------------------------------
(* Nothing is lost of what does not change. *)
LEMMA SocketKept ==
  ASSUME SocketFits, UNCHANGED << writer, wire, given >>,
         \/ stream'.last = stream.last
         \/ stream.last # "SocketWriter" /\ given = << >>
  PROVE  SocketFits'
<1>1. CASE stream'.last = stream.last
  BY <1>1 DEF SocketFits
<1>2. CASE stream.last # "SocketWriter" /\ given = << >>
  <2>1. writer' = HTWriter_new /\ wire' = << >> /\ given' = << >>
    BY <1>2 DEF SocketFits
  <2>2. QED
    BY <2>1, NewWriter, Nothing DEF SocketFits
<1>3. QED
  BY <1>1, <1>2

(* At first nothing is set up. *)
LEMMA InitFits ==
  ASSUME StreamsInit
  PROVE  Inv
<1>1. /\ HTPresentations = NULL /\ writer = HTWriter_new /\ wire = << >>
      /\ mime = NoMime /\ wsrc = HTWSRCConvert
      /\ stream = Stream("none", "none", "none", "none")
      /\ phase = "define" /\ had_cr = FALSE /\ line = << >> /\ lines = 0
      /\ fed = << >> /\ calls = << >> /\ given = << >>
  BY DEF StreamsInit, InitialFormats, InitialWriter
<1>2. stream \in StreamRecords /\ stream.last = "none"
  BY <1>1, PutTogether DEF Stream, StreamRecords, Wanted, SinkClasses, Classes
<1>3. DocFits
  BY <1>1, <1>2, PutTogether, Nothing DEF DocFits, TableFits
<1>4. ParsersFit
  BY <1>1, <1>2, NoMimeFits, NewWsrc DEF ParsersFit
<1>5. SocketFits
  BY <1>1, <1>2, NewWriter, Nothing DEF SocketFits
<1>6. QED
  BY <1>3, <1>4, <1>5 DEF Inv

(* A step that changes nothing. *)
LEMMA StutterFits ==
  ASSUME Inv, UNCHANGED streamsVars
  PROVE  Inv'
<1>1. DocFits'
  BY DEF Inv, DocFits, TableFits, streamsVars, formats, doc
<1>2. ParsersFit'
  BY DEF Inv, ParsersFit, streamsVars, doc
<1>3. SocketFits'
  BY SocketKept DEF Inv, streamsVars, doc
<1>4. QED
  BY <1>1, <1>2, <1>3 DEF Inv

-----------------------------------------------------------------------------
(* Definitions of the client's or the library's add to the table. *)
LEMMA DefineFits ==
  ASSUME Inv, Define \/ DefineLibrarys
  PROVE  Inv'
<1>1. UNCHANGED << mime, wsrc, writer, wire, doc >>
  BY DEF Define, DefineLibrarys
<1>2. /\ Conversion(Html, Present, "SaveAndExecute") \in Known
      /\ Conversion(Html, Wildcard, "HTMLToC") \in Known
  BY KnownConversion DEF AllFormats, Classes
<1>3. HTPresentations' \in Seq(Known)
  <2>1. TheList \in Seq(Known) /\ HTFormatInit \in Seq(Known)
    BY PresentationsFit DEF Inv, DocFits
  <2>2. CASE HTPresentations' \in { HTFormatInit, TheList }
    BY <2>1, <2>2
  <2>3. CASE \E c \in Known : HTPresentations' = << c >> \o TheList
    BY <2>1, <2>3, Tuples, PutTogether
  <2>4. ASSUME NEW c, HTSetConversion(c)
        PROVE  \/ HTPresentations' = TheList
               \/ c.rep # Wildcard /\ HTPresentations' = << c >> \o TheList
    BY <2>4 DEF HTSetConversion, HTList_addObject
  <2>5. CASE HTSetConversion(Conversion(Html, Wildcard, "HTMLToC"))
    BY <1>2, <2>2, <2>3, <2>4, <2>5
  <2>6. CASE HTSetPresentation(Html)
    BY <1>2, <2>2, <2>3, <2>4, <2>6 DEF HTSetPresentation
  <2>7. CASE HTSetPresentation(Wildcard)
    <3>1. Conversion(Wildcard, Present, "SaveAndExecute").rep = Wildcard
      BY DEF Conversion
    <3>2. QED
      BY <2>2, <2>4, <2>7, <3>1 DEF HTSetPresentation
  <2>8. QED
    BY <2>2, <2>5, <2>6, <2>7 DEF Define, DefineLibrarys
<1>4. DocFits'
  BY <1>1, <1>3 DEF Inv, DocFits, TableFits, doc
<1>5. ParsersFit'
  BY <1>1 DEF Inv, ParsersFit, doc
<1>6. SocketFits'
  BY <1>1, SocketKept DEF Inv, doc
<1>7. QED
  BY <1>4, <1>5, <1>6 DEF Inv

(* A stack is set up, or cannot be. *)
LEMMA OpenFits ==
  ASSUME Inv, NEW it \in Openings, Open(it)
  PROVE  Inv'
<1>1. PICK class \in Outcomes(Class(it)) :
        /\ stream' = Entered(it, class)
        /\ calls' = PrefixOf(class)
        /\ mime' = IF class = "MIMEParser" THEN HTMIMEConvert(it.rep_out, FALSE)
                   ELSE mime
        /\ phase' = CASE class = "none"       -> "failed"
                      [] class = "MIMEParser" -> "header"
                      [] OTHER                -> "body"
        /\ line' = IF class = "WSRCParser" THEN << "(" >> ELSE << >>
  BY DEF Open
<1>2. /\ phase = "define"
      /\ HTPresentations' = HTPresentations \/ HTPresentations' = Presentations
      /\ UNCHANGED << wsrc, writer, wire, had_cr, lines, fed, given >>
  BY DEF Open
<1>3. /\ TableFits /\ stream.last = "none" /\ fed = << >>
      /\ given = << >>
  BY <1>2 DEF Inv, DocFits, ParsersFit
<1>4. class \in Classes
  BY <1>3, ClassFits
<1>5. it \in StreamRecords /\ it.rep_out \in Wanted
  BY OpeningFits
<1>6. /\ stream' \in StreamRecords /\ stream'.last = LastOf(class)
      /\ stream'.last = "none" <=> class = "none"
      /\ stream'.last = "MIMEParser" <=> class = "MIMEParser"
      /\ stream'.last = "WSRCParser" <=> class = "WSRCParser"
      /\ stream'.last \in { "none", "MIMEParser" } => calls' = << >>
  BY <1>1, <1>4, <1>5, EnteredFits
<1>7. DocFits'
  <2>1. TableFits'
    BY <1>2, <1>3, PresentationsFit DEF TableFits
  <2>2. calls' \in Seq(Made)
    BY <1>1, PrefixFits
  <2>3. "(" \in Words
    BY DEF Words, Delimiters
  <2>4. line' \in Seq(Words)
    BY <1>1, <2>3, Tuples, PutTogether
  <2>5. /\ phase' \in { "failed", "header", "body" }
        /\ class = "none" => phase' = "failed"
    BY <1>1
  <2>6. QED
    BY <1>2, <1>6, <2>1, <2>2, <2>4, <2>5 DEF Inv, DocFits
<1>8. ParsersFit'
  <2>1. MimeFits(mime') /\ (class = "MIMEParser" => ~ Transparent(mime'))
    BY <1>1, <1>5, NewMime DEF Inv, ParsersFit
  <2>2. wsrc' = HTWSRCConvert
    BY <1>2, <1>3 DEF Inv, ParsersFit
  <2>3. QED
    BY <1>2, <1>3, <1>6, <2>1, <2>2, NewWsrc DEF ParsersFit
<1>9. SocketFits'
  BY <1>2, <1>3, SocketKept DEF Inv
<1>10. QED
  BY <1>7, <1>8, <1>9 DEF Inv

-----------------------------------------------------------------------------
(* The header. *)
LEMMA PutLineFits ==
  ASSUME Inv, PutLine
  PROVE  Inv'
<1>1. /\ UNCHANGED << formats, mime, wsrc, writer, wire, stream, had_cr, fed, calls,
                      given >>
      /\ phase = "header"
  BY DEF PutLine
<1>2. /\ line' \in Seq(Words) /\ lines' \in Nat
      /\ phase' \in { "header", "body" }
  <2>1. PICK eol \in Eols :
          \/ \E it \in HeaderLines(eol) :
               /\ lines < MaxLines /\ lines' = lines + 1
               /\ line' = it.pieces \o eol /\ Reads(it)
               /\ UNCHANGED phase
          \/ line' = eol /\ Reads(Blank(eol)) /\ phase' = "body" /\ lines' = 0
    BY DEF PutLine
  <2>2. eol \in Seq(Words)
    BY EolsFit
  <2>3. CASE \E it \in HeaderLines(eol) :
               lines' = lines + 1 /\ line' = it.pieces \o eol /\ UNCHANGED phase
    <3>1. PICK it \in HeaderLines(eol) :
            lines' = lines + 1 /\ line' = it.pieces \o eol /\ UNCHANGED phase
      BY <2>3
    <3>2. it.pieces \o eol \in Seq(Words)
      BY <2>2, HeaderLinesFit, PutTogether
    <3>3. lines' \in Nat
      BY <3>1 DEF Inv, DocFits
    <3>4. QED
      BY <1>1, <3>1, <3>2, <3>3
  <2>4. CASE line' = eol /\ phase' = "body" /\ lines' = 0
    BY <2>2, <2>4
  <2>5. QED
    BY <2>1, <2>3, <2>4
<1>3. DocFits'
  BY <1>1, <1>2 DEF Inv, DocFits, TableFits, formats
<1>4. ParsersFit'
  BY <1>1 DEF Inv, ParsersFit
<1>5. SocketFits'
  BY <1>1, SocketKept DEF Inv
<1>6. QED
  BY <1>3, <1>4, <1>5 DEF Inv

(* What the parser makes of a piece, and the stack it asks for when it     *)
(* steps aside.                                                            *)
LEMMA MimeTakes ==
  ASSUME NEW me, Reading(me), NEW piece \in Words, NEW sink \in SinkClasses,
         TableFits
  PROVE  LET next == HTMIME_put_character(me, piece, sink)
         IN  /\ MimeFits(next)
             /\ next.target \in Classes
             /\ Transparent(next) =>
                  next.target \notin { "none", "MIMEParser" }
<1> DEFINE next  == HTMIME_put_character(me, piece, sink)
           stack == IF me.targetRep = Source \/ me.targetRep = me.format THEN sink
                    ELSE HTStreamStack(Presentations, me.format, me.targetRep)
<1>1. next = me \/ next = HeaderPiece(me, piece, stack, sink)
  BY Zenon DEF HTMIME_put_character
<1>2. stack \in Classes /\ stack # "MIMEParser"
  <2>1. sink \in Classes /\ sink # "MIMEParser"
    BY DEF SinkClasses, Classes
  <2>2. me.format # Mime
    BY Literals DEF Reading, MimeFits, MimeRecords
  <2>3. Mime # Source
    BY DEF Mime, Source
  <2> DEFINE found == HTStreamStack(Presentations, me.format, me.targetRep)
  <2>4. found \in Classes /\ (found = "MIMEParser" => Mime \in { me.format, Source })
    BY PresentationsFit, StackIsKnown
  <2> HIDE DEF found
  <2>5. found \in Classes /\ found # "MIMEParser"
    BY <2>2, <2>3, <2>4
  <2>6. QED
    BY <2>1, <2>5 DEF found
<1> HIDE DEF next, stack
<1>3. next = EndOfHeader(me, stack, sink) \/ Reading(next)
  BY <1>1, HeaderPieceFits
<1>4. CASE Reading(next)
  BY <1>4 DEF Reading, MimeFits, MimeRecords, next
<1>5. CASE next = EndOfHeader(me, stack, sink)
  <2> DEFINE target == IF stack = "none" THEN sink ELSE stack
  <2>1. target \in Classes /\ target # "MIMEParser"
    BY <1>2 DEF SinkClasses, Classes
  <2>2. /\ MimeFits(next) /\ next.target = target
        /\ Transparent(next) <=> target # "none"
    BY <1>2, <1>5, EndOfHeaderFits DEF Reading
  <2>3. QED
    BY <2>1, <2>2 DEF next
<1>6. QED
  BY <1>3, <1>4, <1>5

(* The piece is a parser's, which may give way to another stream. *)
LEMMA PutPieceFits ==
  ASSUME Inv, PutPiece
  PROVE  Inv'
<1> DEFINE me == HTMIME_put_character(mime, Head(line), stream.sink)
<1>1. /\ line # << >> /\ stream.last = "MIMEParser"
      /\ line' = IF stream'.last = "WSRCParser" THEN << "(" >> ELSE Tail(line)
      /\ UNCHANGED << formats, wsrc, writer, wire, phase, had_cr, lines, fed, given >>
  BY DEF PutPiece
<1>2. \/ ~ Transparent(me) /\ mime' = me /\ UNCHANGED << stream, calls >>
      \/ /\ Transparent(me)
         /\ \E class \in Outcomes(me.target) :
              LET target == IF class = "none" THEN stream.sink ELSE class
              IN  /\ mime' = EndOfHeader(mime, class, stream.sink)
                  /\ stream' = IF target = "none" THEN stream
                               ELSE Entered(stream, target)
                  /\ calls' = IF target = "none" THEN << >> ELSE PrefixOf(target)
  BY Zenon DEF PutPiece
<1>3. /\ stream \in StreamRecords
      /\ stream.sink \in SinkClasses /\ line \in Seq(Words)
      /\ TableFits /\ Reading(mime) /\ calls \in Seq(Made)
      /\ calls = << >> /\ given = << >>
  BY <1>1 DEF Inv, DocFits, ParsersFit, Reading, StreamRecords
<1>4. Head(line) \in Words /\ Tail(line) \in Seq(Words)
  BY <1>1, <1>3, PutTogether
<1>5. /\ MimeFits(me) /\ me.target \in Classes
      /\ Transparent(me) => me.target \notin { "none", "MIMEParser" }
  BY <1>3, <1>4, MimeTakes
<1> HIDE DEF me
<1>6. /\ MimeFits(mime') /\ stream' \in StreamRecords /\ calls' \in Seq(Made)
      /\ stream'.last # "none"
      /\ stream'.last = "MIMEParser" => ~ Transparent(mime') /\ calls' = << >>
      /\ stream'.copy = stream.copy
  <2>1. CASE ~ Transparent(me) /\ mime' = me /\ UNCHANGED << stream, calls >>
    BY <1>1, <1>3, <1>5, <2>1
  <2>2. CASE Transparent(me)
    <3>1. PICK class \in Outcomes(me.target) :
            LET target == IF class = "none" THEN stream.sink ELSE class
            IN  /\ mime' = EndOfHeader(mime, class, stream.sink)
                /\ stream' = IF target = "none" THEN stream
                             ELSE Entered(stream, target)
                /\ calls' = IF target = "none" THEN << >> ELSE PrefixOf(target)
      BY <1>2, <2>2
    <3> DEFINE target == IF class = "none" THEN stream.sink ELSE class
    <3>2. /\ mime' = EndOfHeader(mime, class, stream.sink)
          /\ stream' = IF target = "none" THEN stream ELSE Entered(stream, target)
          /\ calls' = IF target = "none" THEN << >> ELSE PrefixOf(target)
      BY <3>1
    <3>3. class \in Classes /\ class # "MIMEParser"
      BY <1>5, <2>2 DEF Outcomes, Classes
    <3>4. target \in Classes /\ target # "MIMEParser"
      BY <1>3, <3>3 DEF SinkClasses, Classes
    <3>5. /\ MimeFits(mime')
          /\ Transparent(mime') <=> target # "none"
      BY <1>3, <3>2, <3>3, EndOfHeaderFits DEF Reading
    <3> HIDE DEF target
    <3>6. CASE target = "none"
      BY <1>1, <1>3, <3>2, <3>5, <3>6, PutTogether
    <3>7. CASE target # "none"
      <4>1. /\ stream' \in StreamRecords /\ stream'.last = LastOf(target)
            /\ stream'.copy = stream.copy
            /\ stream'.last # "none" /\ stream'.last # "MIMEParser"
        BY <1>3, <3>2, <3>4, <3>7, EnteredFits
      <4>2. calls' \in Seq(Made)
        BY <3>2, <3>7, PrefixFits
      <4>3. QED
        BY <3>5, <4>1, <4>2
    <3>8. QED
      BY <3>6, <3>7
  <2>3. QED
    BY <1>2, <2>1, <2>2
<1>7. DocFits'
  <2>1. "(" \in Words
    BY DEF Words, Delimiters
  <2>2. line' \in Seq(Words)
    BY <1>1, <1>4, <2>1, Tuples
  <2>3. phase # "define"
    BY <1>1 DEF Inv, DocFits
  <2>4. QED
    BY <1>1, <1>6, <2>2, <2>3 DEF Inv, DocFits, TableFits, formats
<1>8. ParsersFit'
  <2>1. wsrc' = HTWSRCConvert
    BY <1>1 DEF Inv, ParsersFit
  <2>2. QED
    BY <1>1, <1>3, <1>6, <2>1, NewWsrc DEF ParsersFit
<1>9. SocketFits'
  BY <1>1, <1>3, SocketKept DEF Inv
<1>10. QED
  BY <1>7, <1>8, <1>9 DEF Inv

-----------------------------------------------------------------------------
(* A source file. *)
LEMMA PutFieldFits ==
  ASSUME Inv, PutField
  PROVE  Inv'
<1>1. /\ UNCHANGED << formats, mime, wsrc, writer, wire, stream, phase, had_cr, fed,
                      calls, given >>
      /\ lines' = lines + 1
      /\ \E it \in (UNION { FieldsOf(name) : name \in FieldNames })
                     \cup { Junk_, Close } : line' = it.pieces
  BY DEF PutField
<1>2. line' \in Seq(Words)
  BY <1>1, FieldsFit
<1>3. DocFits'
  BY <1>1, <1>2 DEF Inv, DocFits, TableFits, formats
<1>4. ParsersFit'
  BY <1>1 DEF Inv, ParsersFit
<1>5. SocketFits'
  BY <1>1, SocketKept DEF Inv
<1>6. QED
  BY <1>3, <1>4, <1>5 DEF Inv

(* A piece of it is the parser's. *)
LEMMA PutWsrcFits ==
  ASSUME Inv, PutWsrc
  PROVE  Inv'
<1>1. /\ line # << >> /\ stream.last = "WSRCParser"
      /\ wsrc' = WSRCParser_put_character(wsrc, Head(line))
      /\ line' = Tail(line)
      /\ UNCHANGED << formats, mime, writer, wire, stream, phase, had_cr, lines, fed,
                      calls, given >>
  BY DEF PutWsrc
<1>2. Head(line) \in Words /\ Tail(line) \in Seq(Words)
  BY <1>1, PutTogether DEF Inv, DocFits
<1>3. WsrcFits(wsrc')
  BY <1>1, <1>2, WsrcTakes DEF Inv, ParsersFit
<1>4. DocFits'
  BY <1>1, <1>2 DEF Inv, DocFits, TableFits, formats
<1>5. ParsersFit'
  BY <1>1, <1>3 DEF Inv, ParsersFit
<1>6. SocketFits'
  BY <1>1, SocketKept DEF Inv
<1>7. QED
  BY <1>4, <1>5, <1>6 DEF Inv

-----------------------------------------------------------------------------
(* A text. *)
LEMMA CharactersFit ==
  ASSUME fed \in Chars
  PROVE  Ordinary \in Nat /\ \A c \in Characters : c \in Int
<1> DEFINE S == { i \in DOMAIN fed : fed[i] > 0 }
<1>1. Len(fed) \in Nat /\ DOMAIN fed = 1 .. Len(fed)
  BY LenProperties DEF Chars
<1>2. IsFiniteSet(1 .. Len(fed))
  BY <1>1, FS_Interval
<1>3. S \subseteq 1 .. Len(fed)
  BY <1>1
<1>4. IsFiniteSet(S)
  BY <1>2, <1>3, FS_Subset
<1>5. Cardinality(S) \in Nat
  BY <1>4, FS_CardinalityType
<1>6. Ordinary \in Nat
  BY <1>5 DEF Ordinary
<1>7. CR \in Int /\ LF \in Int
  BY DEF CR, LF
<1>8. QED
  BY <1>6, <1>7 DEF Characters

(* Texts of a few characters. *)
LEMMA ShortTexts ==
  \A a, b, c, d \in Int :
    /\ << >> \in Chars /\ << a >> \in Chars /\ << a, b >> \in Chars
    /\ << a, b, c, d >> \in Chars
    /\ Len(<< a >>) = 1 /\ Len(<< a, b >>) = 2
BY DEF Chars

(* NetToText passes on at most two characters. *)
LEMMA PassedFits ==
  ASSUME NEW held \in BOOLEAN, NEW c \in Int
  PROVE  LET it == NetToText_put_character(held, c)
         IN  it.passed \in Chars /\ it.had_cr \in BOOLEAN
<1>1. /\ NetToText_put_character(held, c).had_cr = (c = CR)
      /\ NetToText_put_character(held, c).passed
           \in { << LF >>, << CR >>, << CR, c >>, << >>, << c >> }
  BY DEF NetToText_put_character
<1>2. CR \in Int /\ LF \in Int
  BY DEF CR, LF
<1>3. QED
  BY <1>1, <1>2, ShortTexts

(* The calls for an element. *)
LEMMA TaggedFits ==
  ASSUME NEW n \in Int
  PROVE  Tagged(n) \in Seq(Made)
<1>1. n + 1 \in Int /\ n + 2 \in Int /\ n + 3 \in Int
  OBVIOUS
<1>2. Call("put_string", << n + 1, n + 2 >>) \in Made
  BY <1>1, ShortTexts, MadeCall
<1>3. One(n) \in Made /\ One(n + 3) \in Made
  BY <1>1, OneIsMade
<1>4. QED
  BY <1>2, <1>3, Tuples DEF Tagged

(* What is put, as a text and as calls, whatever puts it. *)
LEMMA PutsFits ==
  ASSUME Inv, PutText, stream.last # "MIMEParser"
  PROVE  \E text \in Chars, made \in Seq(Made), hold \in BOOLEAN :
           Puts(text, made, hold)
<1>1. fed \in Chars /\ had_cr \in BOOLEAN
  BY DEF Inv, DocFits
<1>2. Ordinary \in Nat /\ \A c \in Characters : c \in Int
  BY <1>1, CharactersFit
<1>3. PICK c \in Characters :
        \/ /\ stream.copy = "HTCopy"
           /\ \/ Puts(<< c >>, << One(c) >>, had_cr)
              \/ Puts(<< c >>, << Call("write", << c >>) >>, had_cr)
              \/ Puts(<< c, Ordinary + 1 >>,
                      << Call("write", << c, Ordinary + 1 >>) >>, had_cr)
        \/ Puts(<< c >>, OneByOne(HTCopyNoCR(c)), had_cr)
        \/ Puts(<< c >>, OneByOne(Passed(c).passed), Passed(c).had_cr)
        \/ Puts(<< c, c + 1, c + 2, c + 3 >>, Tagged(c), had_cr)
        \/ Puts(<< c, c + 1 >>, << Call("put_string", << c, c + 1 >>) >>, had_cr)
        \/ Puts(<< c >>, << One(c) >>, had_cr)
  BY Zenon DEF PutText
<1>4. c \in Int /\ c + 1 \in Int /\ c + 2 \in Int /\ c + 3 \in Int
      /\ Ordinary + 1 \in Int
  BY <1>2
<1>5. /\ << c >> \in Chars /\ << c, c + 1 >> \in Chars
      /\ << c, Ordinary + 1 >> \in Chars
      /\ << c, c + 1, c + 2, c + 3 >> \in Chars
      /\ Len(<< c, c + 1 >>) = 2
  BY <1>4, ShortTexts
<1>6. /\ One(c) \in Made /\ Call("write", << c >>) \in Made
      /\ Call("write", << c, Ordinary + 1 >>) \in Made
      /\ Call("put_string", << c, c + 1 >>) \in Made
  BY <1>4, <1>5, OneIsMade, MadeCall
<1>7. /\ << One(c) >> \in Seq(Made)
      /\ << Call("write", << c >>) >> \in Seq(Made)
      /\ << Call("write", << c, Ordinary + 1 >>) >> \in Seq(Made)
      /\ << Call("put_string", << c, c + 1 >>) >> \in Seq(Made)
  BY <1>6, Tuples
<1>8. Tagged(c) \in Seq(Made)
  BY <1>4, TaggedFits
<1>9. OneByOne(HTCopyNoCR(c)) \in Seq(Made)
  <2>1. HTCopyNoCR(c) \in Chars
    BY <1>5, Nothing DEF HTCopyNoCR
  <2>2. QED
    BY <2>1, OneByOneIsMade
<1>10. OneByOne(Passed(c).passed) \in Seq(Made) /\ Passed(c).had_cr \in BOOLEAN
  BY <1>1, <1>4, PassedFits, OneByOneIsMade DEF Passed
<1>11. QED
  BY <1>1, <1>3, <1>5, <1>7, <1>8, <1>9, <1>10, Zenon

(* A parser gets it by pieces, any other stream by calls. *)
LEMMA PutTextFits ==
  ASSUME Inv, PutText
  PROVE  Inv'
<1>1. /\ phase = "body" /\ calls = << >>
      /\ UNCHANGED << formats, mime, wsrc, writer, wire, stream, phase, lines, given,
                      due >>
  BY DEF PutText, Quiet
<1>2. /\ fed' \in Chars /\ calls' \in Seq(Made) /\ had_cr' \in BOOLEAN
      /\ line' \in Seq(Words)
      /\ stream.last = "MIMEParser" => calls' = << >>
  <2>1. CASE stream.last = "MIMEParser"
    <3>1. PICK c \in Characters :
            /\ fed' = Append(fed, c) /\ line' = << PieceOf(c) >>
            /\ UNCHANGED << calls, had_cr >>
      BY <2>1 DEF PutText
    <3>2. c \in Int /\ fed \in Chars
      BY CharactersFit DEF Inv, DocFits
    <3>3. fed' \in Chars
      BY <3>1, <3>2, AppendProperties DEF Chars
    <3>4. PieceOf(c) \in Words
      BY DEF PieceOf, Words, Pieces, White
    <3>5. line' \in Seq(Words)
      BY <3>1, <3>4, Tuples
    <3>6. QED
      BY <1>1, <3>1, <3>3, <3>5, PutTogether DEF Inv, DocFits
  <2>2. CASE stream.last # "MIMEParser"
    <3>1. PICK text \in Chars, made \in Seq(Made), hold \in BOOLEAN :
            Puts(text, made, hold)
      BY <2>2, PutsFits
    <3>2. fed \o text \in Chars
      BY Joined DEF Inv, DocFits
    <3>3. QED
      BY <2>2, <3>1, <3>2 DEF Puts, Inv, DocFits
  <2>3. QED
    BY <2>1, <2>2
<1>3. DocFits'
  BY <1>1, <1>2 DEF Inv, DocFits, TableFits, formats
<1>4. ParsersFit'
  <2>1. stream.last # "none"
    BY <1>1 DEF Inv, DocFits
  <2>2. QED
    BY <1>1, <1>2, <2>1 DEF Inv, ParsersFit
<1>5. SocketFits'
  BY <1>1, SocketKept DEF Inv
<1>6. QED
  BY <1>3, <1>4, <1>5 DEF Inv

-----------------------------------------------------------------------------
(* Sums of lengths. *)
LEMMA Comparable == 2 <= 2 /\ \A a, b, c \in Nat : a + b > c \/ a + b <= c
OBVIOUS

(* The stream that takes a call is a socket's, or takes all there is. *)
LEMMA TakeFits ==
  ASSUME Inv, Take
  PROVE  Inv'
<1> DEFINE it == Head(calls)
<1>1. /\ calls # << >> /\ Ready /\ calls' = Tail(calls)
      /\ given' = given \o it.chars
      /\ UNCHANGED << formats, mime, wsrc, wire, stream, phase, had_cr, line, lines, fed >>
  BY DEF Take
<1>2. it \in Made /\ calls' \in Seq(Made) /\ given \in Chars
  BY <1>1, PutTogether DEF Inv, DocFits
<1>3. IF stream.last = "SocketWriter"
      THEN CASE it.method = "put_character" -> HTWriter_put_character(Head(it.chars))
             [] it.method = "put_string"    -> HTWriter_put_string(it.chars)
             [] it.method = "write"         -> HTWriter_write(it.chars)
      ELSE UNCHANGED writer
  BY DEF Take
<1> HIDE DEF it
<1>4. /\ it.chars \in Chars
      /\ it.method \in { "put_character", "put_string", "write" }
      /\ it.method = "put_character" => Len(it.chars) = 1
      /\ it.method = "put_string" => Len(it.chars) = 2
  BY <1>2 DEF Made
<1>5. given' \in Chars
  BY <1>1, <1>2, <1>4, Joined
<1>6. stream.last \notin { "none", "MIMEParser" }
  BY <1>1 DEF Inv, ParsersFit
<1>7. DocFits'
  BY <1>1, <1>2, <1>5, <1>6 DEF Inv, DocFits, TableFits, formats
<1>8. ParsersFit'
  BY <1>1, <1>6 DEF Inv, ParsersFit
<1>9. SocketFits'
  <2>1. /\ WriterFits(writer) /\ wire \in Chars /\ (BUFFER_SIZE >= 2 => Fills(writer))
        /\ stream.last = "SocketWriter" => Delivers(writer, wire, given)
        /\ stream.last # "SocketWriter" => writer = HTWriter_new /\ wire = << >>
    BY DEF Inv, SocketFits
  <2>2. CASE stream.last # "SocketWriter"
    BY <1>1, <1>3, <2>1, <2>2 DEF SocketFits
  <2>3. CASE stream.last = "SocketWriter"
    <3>1. PICK flush \in BOOLEAN :
            /\ Begin(it.method, it.chars, flush)
            /\ it.method = "put_character" =>
                 flush = (Len(writer.buffer) = BUFFER_SIZE)
            /\ it.method = "put_string" =>
                 flush = (Len(writer.buffer) + Len(it.chars) > BUFFER_SIZE)
            /\ it.method = "write" => flush
      <4>1. CASE it.method = "put_character"
        <5>1. << Head(it.chars) >> = it.chars
          BY <1>4, <4>1 DEF Chars
        <5>2. Begin(it.method, it.chars, Len(writer.buffer) = BUFFER_SIZE)
          BY <1>3, <2>3, <4>1, <5>1 DEF HTWriter_put_character
        <5>3. (Len(writer.buffer) = BUFFER_SIZE) \in BOOLEAN
          OBVIOUS
        <5>4. QED
          BY <4>1, <5>2, <5>3
      <4>2. CASE it.method = "put_string"
        <5>1. Begin(it.method, it.chars,
                    Len(writer.buffer) + Len(it.chars) > BUFFER_SIZE)
          BY <1>3, <2>3, <4>2 DEF HTWriter_put_string
        <5>2. (Len(writer.buffer) + Len(it.chars) > BUFFER_SIZE) \in BOOLEAN
          OBVIOUS
        <5>3. QED
          BY <4>2, <5>1, <5>2
      <4>3. CASE it.method = "write"
        <5>1. Begin(it.method, it.chars, TRUE)
          BY <1>3, <2>3, <4>3 DEF HTWriter_write
        <5>2. QED
          BY <4>3, <5>1
      <4>4. QED
        BY <1>4, <4>1, <4>2, <4>3
    <3>2. WriterFits(writer')
      BY <1>1, <1>4, <2>1, <3>1, BeginFits
    <3>3. BUFFER_SIZE >= 2 => Fills(writer')
      <4>1. Len(writer.buffer) \in Nat /\ Len(it.chars) \in Nat
        BY <1>4, <2>1, Nothing, Parts DEF WriterFits
      <4>2. it.method = "put_character" =>
              Len(it.chars) = 1 /\ (flush \/ Len(writer.buffer) # BUFFER_SIZE)
        BY <1>4, <3>1
      <4>3. it.method = "put_string" =>
              /\ Len(it.chars) <= 2
              /\ flush \/ Len(writer.buffer) + Len(it.chars) <= BUFFER_SIZE
        <5>1. Len(writer.buffer) + Len(it.chars) > BUFFER_SIZE
              \/ Len(writer.buffer) + Len(it.chars) <= BUFFER_SIZE
          BY <4>1, BufferAssumption, Comparable, Zenon
        <5>2. it.method = "put_string" => Len(it.chars) <= 2
          BY <1>4, Comparable, Zenon
        <5>3. QED
          BY <3>1, <5>1, <5>2, Zenon
      <4>4. QED
        BY <1>1, <1>4, <2>1, <3>1, <4>2, <4>3, BeginFills
    <3>4. Delivers(writer', wire, given \o it.chars)
      BY <1>1, <1>2, <1>4, <2>1, <2>3, <3>1, BeginDelivers
    <3>5. QED
      BY <1>1, <2>1, <2>3, <3>2, <3>3, <3>4 DEF SocketFits
  <2>4. QED
    BY <2>2, <2>3
<1>10. QED
  BY <1>7, <1>8, <1>9 DEF Inv

(* A writer that is freed flushes first. *)
LEMMA FreeFits ==
  ASSUME Inv, Free
  PROVE  Inv'
<1>1. /\ phase \in { "header", "body" } /\ Ready /\ phase' = "freed"
      /\ IF stream.last = "SocketWriter" THEN HTWriter_free ELSE UNCHANGED writer
      /\ wsrc' = IF stream.last = "WSRCParser" THEN WSRCParser_free(wsrc) ELSE wsrc
      /\ UNCHANGED << formats, mime, wire, stream, had_cr, line, lines, fed, calls,
                      given >>
  BY DEF Free, Quiet
<1>2. DocFits'
  BY <1>1 DEF Inv, DocFits, TableFits, formats
<1>3. ParsersFit'
  BY <1>1, WsrcFreed DEF Inv, ParsersFit
<1>4. SocketFits'
  <2>1. /\ WriterFits(writer) /\ wire \in Chars /\ (BUFFER_SIZE >= 2 => Fills(writer))
        /\ stream.last = "SocketWriter" => Delivers(writer, wire, given)
        /\ given \in Chars
    BY DEF Inv, SocketFits, DocFits
  <2>2. CASE stream.last # "SocketWriter"
    BY <1>1, <2>2 DEF Inv, SocketFits
  <2>3. CASE stream.last = "SocketWriter"
    <3>1. Begin("free", << >>, TRUE) /\ << >> \in Chars
      BY <1>1, <2>3, Nothing DEF HTWriter_free
    <3>2. WriterFits(writer')
      BY <1>1, <2>1, <3>1, BeginFits
    <3>3. BUFFER_SIZE >= 2 => Fills(writer')
      BY <1>1, <2>1, <3>1, BeginFills
    <3>4. Delivers(writer', wire, given \o << >>)
      BY <1>1, <2>1, <2>3, <3>1, BeginDelivers
    <3>5. given \o << >> = given
      BY <2>1, Nothing
    <3>6. QED
      BY <1>1, <2>1, <2>3, <3>2, <3>3, <3>4, <3>5 DEF SocketFits
  <2>4. QED
    BY <2>2, <2>3
<1>5. QED
  BY <1>2, <1>3, <1>4 DEF Inv

(* Only a socket's writer has anything to write. *)
LEMMA WriteFits ==
  ASSUME Inv, Write
  PROVE  Inv'
<1>1. WriterNext /\ UNCHANGED << formats, mime, wsrc, doc >>
  BY DEF Write
<1>2. stream.last = "SocketWriter"
  BY <1>1, NewWriterWaits DEF Inv, SocketFits
<1>3. DocFits'
  BY <1>1 DEF Inv, DocFits, TableFits, formats, doc
<1>4. ParsersFit'
  BY <1>1 DEF Inv, ParsersFit, doc
<1>5. SocketFits'
  <2>1. /\ WriterFits(writer) /\ wire \in Chars /\ given \in Chars
        /\ BUFFER_SIZE >= 2 => Fills(writer)
        /\ Delivers(writer, wire, given)
    BY <1>2 DEF Inv, SocketFits, DocFits
  <2>2. /\ WriterFits(writer') /\ wire' \in Chars
        /\ BUFFER_SIZE >= 2 => Fills(writer')
        /\ Delivers(writer', wire', given)
    BY <1>1, <2>1, WriterStep
  <2>3. UNCHANGED << stream, given >>
    BY <1>1 DEF doc
  <2>4. QED
    BY <1>2, <2>2, <2>3 DEF SocketFits
<1>6. QED
  BY <1>3, <1>4, <1>5 DEF Inv

-----------------------------------------------------------------------------
(* NetToText: the places of a text whose characters are passed on. *)
KeptOf(f) == { i \in DOMAIN f : f[i] = CR => i < Len(f) /\ f[i + 1] # LF }

(* A text is made of the characters at these places, in their order. *)
Shows(text, f, K) ==
  \E places \in [ DOMAIN text -> DOMAIN f ] :
    /\ Lists(places, K)
    /\ text = [ k \in DOMAIN places |-> f[places[k]] ]

HoldsReturn(f) == f # << >> /\ f[Len(f)] = CR

(* What a call of one character waits to put. *)
PutSingly(cs) == [ k \in DOMAIN cs |-> Head(cs[k].chars) ]

TextFits ==
  /\ phase = "define" => ~ had_cr
  /\ stream.copy = "NetToText" =>
       /\ stream.last \notin { "MIMEParser", "WSRCParser" }
       /\ \A k \in 1 .. Len(calls) : calls[k].method = "put_character"
       /\ had_cr = HoldsReturn(fed)
       /\ Shows(given \o PutSingly(calls), fed, KeptOf(fed))

(* An empty text shows all there is of it. *)
LEMMA ShowsNothing == Shows(<< >>, << >>, KeptOf(<< >>))
<1>1. DOMAIN << >> = {} /\ KeptOf(<< >>) = {}
  BY DEF KeptOf
<1> DEFINE places == [ i \in {} |-> i ]
<1>2. places \in [ DOMAIN << >> -> DOMAIN << >> ] /\ DOMAIN places = {}
  BY <1>1
<1>3. Lists(places, {})
  BY <1>2 DEF Lists
<1>4. << >> = [ k \in DOMAIN places |-> << >>[places[k]] ]
  BY <1>2
<1>5. QED
  BY <1>1, <1>2, <1>3, <1>4 DEF Shows

(* A place beyond all others comes last. *)
LEMMA ShowsMore ==
  ASSUME NEW text \in Chars, NEW f \in Chars, NEW K, Shows(text, f, K),
         NEW g \in Chars, Len(f) <= Len(g), \A i \in 1 .. Len(f) : g[i] = f[i],
         NEW x \in 1 .. Len(g), \A i \in K : i < x
  PROVE  /\ Append(text, g[x]) \in Chars
         /\ Shows(Append(text, g[x]), g, K \cup { x })
<1>1. PICK places \in [ DOMAIN text -> DOMAIN f ] :
        Lists(places, K) /\ text = [ k \in DOMAIN places |-> f[places[k]] ]
  BY DEF Shows
<1>2. /\ Len(text) \in Nat /\ DOMAIN text = 1 .. Len(text)
      /\ Len(f) \in Nat /\ DOMAIN f = 1 .. Len(f)
      /\ Len(g) \in Nat /\ DOMAIN g = 1 .. Len(g)
  BY LenProperties DEF Chars
<1> DEFINE n == Len(text)
           more == Append(text, g[x])
           all == [ k \in 1 .. n + 1 |-> IF k <= n THEN places[k] ELSE x ]
<1>3. g[x] \in Int
  BY <1>2 DEF Chars
<1>4. /\ more \in Chars /\ Len(more) = n + 1
      /\ \A k \in 1 .. n : more[k] = text[k]
      /\ more[n + 1] = g[x]
  BY <1>3, AppendProperties DEF Chars
<1>5. DOMAIN more = 1 .. n + 1
  BY <1>4, LenProperties DEF Chars
<1>6. \A k \in 1 .. n : places[k] \in 1 .. Len(f) /\ places[k] \in 1 .. Len(g)
  BY <1>1, <1>2
<1>7. all \in [ DOMAIN more -> DOMAIN g ]
  BY <1>2, <1>5, <1>6
<1>8. Lists(all, K \cup { x })
  <2>1. /\ { places[k] : k \in 1 .. n } = K
        /\ \A j, k \in 1 .. n : j < k => places[j] < places[k]
    BY <1>1, <1>2 DEF Lists
  <2>2. \A k \in 1 .. n : all[k] = places[k] /\ places[k] < x
    BY <1>2, <2>1
  <2>3. all[n + 1] = x /\ DOMAIN all = 1 .. n + 1
    BY <1>2
  <2>4. \A k \in 1 .. n + 1 : k \in 1 .. n \/ k = n + 1
    BY <1>2
  <2> HIDE DEF all
  <2>5. { all[k] : k \in 1 .. n + 1 } = K \cup { x }
    <3>1. ASSUME NEW k \in 1 .. n + 1
          PROVE  all[k] \in K \cup { x }
      BY <2>1, <2>2, <2>3, <2>4
    <3>2. ASSUME NEW i \in K
          PROVE  \E k \in 1 .. n + 1 : all[k] = i
      <4>1. PICK k \in 1 .. n : places[k] = i
        BY <2>1
      <4>2. k \in 1 .. n + 1
        BY <1>2
      <4>3. QED
        BY <2>2, <4>1, <4>2
    <3>3. n + 1 \in 1 .. n + 1
      BY <1>2
    <3>4. QED
      BY <2>3, <3>1, <3>2, <3>3
  <2>6. ASSUME NEW j \in 1 .. n + 1, NEW k \in 1 .. n + 1, j < k
        PROVE  all[j] < all[k]
    <3>1. j \in 1 .. n
      BY <1>2, <2>6
    <3>2. CASE k \in 1 .. n
      BY <2>1, <2>2, <2>6, <3>1, <3>2
    <3>3. CASE k = n + 1
      BY <2>2, <2>3, <3>1, <3>3
    <3>4. QED
      BY <2>4, <3>2, <3>3
  <2>7. QED
    BY <2>3, <2>5, <2>6 DEF Lists
<1>9. more = [ k \in DOMAIN all |-> g[all[k]] ]
  <2>1. \A k \in 1 .. n : more[k] = g[all[k]]
    <3>1. \A k \in 1 .. n : text[k] = f[places[k]] /\ all[k] = places[k]
      BY <1>1, <1>2
    <3>2. \A k \in 1 .. n : more[k] = text[k] /\ g[places[k]] = f[places[k]]
      BY <1>4, <1>6
    <3> HIDE DEF more, all
    <3>3. QED
      BY <3>1, <3>2
  <2>2. more[n + 1] = g[all[n + 1]]
    BY <1>2, <1>4
  <2>3. \A k \in 1 .. n + 1 : more[k] = g[all[k]]
    <3>1. \A k \in 1 .. n + 1 : k \in 1 .. n \/ k = n + 1
      BY <1>2
    <3>2. QED
      BY <2>1, <2>2, <3>1
  <2>4. more = [ k \in DOMAIN more |-> more[k] ]
    BY <1>4 DEF Chars
  <2>5. DOMAIN all = DOMAIN more
    BY <1>5
  <2> HIDE DEF more, all
  <2>6. QED
    BY <1>5, <2>3, <2>4, <2>5
<1> HIDE DEF all, more
<1>10. QED
  BY <1>4, <1>7, <1>8, <1>9 DEF Shows, more

(* What follows does not change what is shown. *)
LEMMA ShowsAsWell ==
  ASSUME NEW text \in Chars, NEW f \in Chars, NEW K, Shows(text, f, K),
         NEW g \in Chars, Len(f) <= Len(g), \A i \in 1 .. Len(f) : g[i] = f[i]
  PROVE  Shows(text, g, K)
<1>1. PICK places \in [ DOMAIN text -> DOMAIN f ] :
        Lists(places, K) /\ text = [ k \in DOMAIN places |-> f[places[k]] ]
  BY DEF Shows
<1>2. /\ Len(f) \in Nat /\ DOMAIN f = 1 .. Len(f)
      /\ Len(g) \in Nat /\ DOMAIN g = 1 .. Len(g)
  BY LenProperties DEF Chars
<1>3. DOMAIN f \subseteq DOMAIN g
  BY <1>2
<1>4. places \in [ DOMAIN text -> DOMAIN g ]
  BY <1>1, <1>3
<1>5. \A k \in DOMAIN places : g[places[k]] = f[places[k]]
  BY <1>1, <1>2
<1>6. [ k \in DOMAIN places |-> f[places[k]] ] = [ k \in DOMAIN places |-> g[places[k]] ]
  BY <1>5
<1>7. QED
  BY <1>1, <1>4, <1>6 DEF Shows

(* The next character decides on a return before it, and shows unless it   *)
(* is one itself.                                                          *)
LEMMA KeptMore ==
  ASSUME NEW f \in Chars, NEW c \in Int
  PROVE  LET g == f \o << c >>
             n == Len(f)
         IN  /\ g \in Chars /\ Len(g) = n + 1 /\ g[n + 1] = c
             /\ \A i \in 1 .. n : g[i] = f[i]
             /\ KeptOf(g) = KeptOf(f)
                  \cup (IF HoldsReturn(f) /\ c # LF THEN { n } ELSE {})
                  \cup (IF c # CR THEN { n + 1 } ELSE {})
             /\ HoldsReturn(g) = (c = CR)
             /\ \A i \in KeptOf(f) : i \in 1 .. n /\ (HoldsReturn(f) => i < n)
             /\ HoldsReturn(f) => n \in 1 .. n /\ f[n] = CR
<1> DEFINE g == f \o << c >>
           n == Len(f)
<1>1. << c >> \in Chars /\ Len(<< c >>) = 1 /\ << c >>[1] = c
  BY ShortTexts
<1>2. n \in Nat /\ DOMAIN f = 1 .. n /\ (f # << >> => n # 0)
  BY LenProperties, EmptySeq DEF Chars
<1>3. /\ g \in Chars /\ Len(g) = n + 1
      /\ \A i \in 1 .. n + 1 : g[i] = IF i <= n THEN f[i] ELSE << c >>[i - n]
  BY <1>1, ConcatProperties DEF Chars
<1> HIDE DEF g
<1>4. g[n + 1] = c /\ \A i \in 1 .. n : g[i] = f[i]
  BY <1>1, <1>2, <1>3
<1>5. DOMAIN g = 1 .. n + 1
  BY <1>2, <1>3, LenProperties DEF Chars
<1>6. \A i \in KeptOf(f) : i \in 1 .. n /\ (HoldsReturn(f) => i < n)
  BY <1>2 DEF KeptOf, HoldsReturn
<1>7. HoldsReturn(f) => n \in 1 .. n /\ f[n] = CR
  BY <1>2 DEF HoldsReturn
<1>8. HoldsReturn(g) = (c = CR)
  <2>1. g # << >>
    BY <1>2, <1>3, Nothing
  <2>2. QED
    BY <1>3, <1>4, <2>1 DEF HoldsReturn
<1>9. ASSUME NEW i \in 1 .. n, i < n
      PROVE  i \in KeptOf(g) <=> i \in KeptOf(f)
  <2>1. i + 1 \in 1 .. n /\ i < n + 1 /\ i \in 1 .. n + 1
    BY <1>2, <1>9
  <2>2. g[i] = f[i] /\ g[i + 1] = f[i + 1]
    BY <1>4, <2>1
  <2>3. QED
    BY <1>2, <1>3, <1>5, <1>9, <2>1, <2>2 DEF KeptOf
<1>10. ASSUME n # 0
       PROVE  n \in KeptOf(g) <=> n \in KeptOf(f) \/ (HoldsReturn(f) /\ c # LF)
  <2>1. n \in 1 .. n /\ n \in 1 .. n + 1 /\ n < n + 1 /\ ~ (n < n)
    BY <1>2, <1>10
  <2>2. g[n] = f[n] /\ g[n + 1] = c /\ f # << >>
    BY <1>2, <1>4, <1>10, <2>1, Nothing
  <2>3. n \in KeptOf(g) <=> (f[n] = CR => c # LF)
    BY <1>3, <1>5, <2>1, <2>2 DEF KeptOf
  <2>4. n \in KeptOf(f) <=> f[n] # CR
    BY <1>2, <2>1 DEF KeptOf
  <2>5. HoldsReturn(f) <=> f[n] = CR
    BY <2>2 DEF HoldsReturn
  <2>6. QED
    BY <2>3, <2>4, <2>5
<1>11. n + 1 \in KeptOf(g) <=> c # CR
  <2>1. n + 1 \in 1 .. n + 1 /\ ~ (n + 1 < n + 1)
    BY <1>2
  <2>2. QED
    BY <1>3, <1>4, <1>5, <2>1 DEF KeptOf
<1>12. KeptOf(g) = KeptOf(f)
                     \cup (IF HoldsReturn(f) /\ c # LF THEN { n } ELSE {})
                     \cup (IF c # CR THEN { n + 1 } ELSE {})
  <2> DEFINE kept == KeptOf(f)
                       \cup (IF HoldsReturn(f) /\ c # LF THEN { n } ELSE {})
                       \cup (IF c # CR THEN { n + 1 } ELSE {})
  <2>1. KeptOf(g) \subseteq 1 .. n + 1
    BY <1>5 DEF KeptOf
  <2>2. kept \subseteq 1 .. n + 1
    BY <1>2, <1>6, <1>7
  <2>3. ASSUME NEW i \in 1 .. n + 1
        PROVE  i \in KeptOf(g) <=> i \in kept
    <3>1. i \in kept <=>
            \/ i \in KeptOf(f)
            \/ (i = n /\ HoldsReturn(f) /\ c # LF)
            \/ (i = n + 1 /\ c # CR)
      <4>1. i \in (IF HoldsReturn(f) /\ c # LF THEN { n } ELSE {}) <=>
              i = n /\ HoldsReturn(f) /\ c # LF
        OBVIOUS
      <4>2. i \in (IF c # CR THEN { n + 1 } ELSE {}) <=> i = n + 1 /\ c # CR
        OBVIOUS
      <4>3. QED
        BY <4>1, <4>2, Zenon
    <3> HIDE DEF kept, n
    <3>2. CASE i \in 1 .. n /\ i < n
      <4>1. i # n /\ i # n + 1
        BY <1>2, <3>2
      <4>2. i \in KeptOf(g) <=> i \in KeptOf(f)
        BY <1>9, <3>2
      <4>3. QED
        BY <3>1, <4>1, <4>2, Zenon
    <3>3. CASE i = n /\ n # 0
      <4>1. i # n + 1
        BY <1>2, <3>3
      <4>2. i \in KeptOf(g) <=> i \in KeptOf(f) \/ (HoldsReturn(f) /\ c # LF)
        BY <1>10, <3>3, Zenon
      <4>3. QED
        BY <3>1, <3>3, <4>1, <4>2, Zenon
    <3>4. CASE i = n + 1
      <4>1. i \notin KeptOf(f) /\ i # n
        BY <1>2, <1>6, <3>4
      <4>2. QED
        BY <1>11, <3>1, <3>4, <4>1, Zenon
    <3>5. (i \in 1 .. n /\ i < n) \/ (i = n /\ n # 0) \/ i = n + 1
      BY <1>2
    <3>6. QED
      BY <3>2, <3>3, <3>4, <3>5
  <2>4. QED
    BY <2>1, <2>2, <2>3
<1>13. QED
  BY <1>3, <1>4, <1>6, <1>7, <1>8, <1>12 DEF g

-----------------------------------------------------------------------------
(* Two characters. *)
LEMMA Pairs == \A a, b \in Int : << a >> \o << b >> = << a, b >>
<1>1. SUFFICES ASSUME NEW a \in Int, NEW b \in Int
               PROVE  << a >> \o << b >> = << a, b >>
  OBVIOUS
<1>2. /\ << a >> \in Seq(Int) /\ << b >> \in Seq(Int) /\ << a, b >> \in Seq(Int)
      /\ Len(<< a >>) = 1 /\ Len(<< b >>) = 1 /\ Len(<< a, b >>) = 2
      /\ << a >>[1] = a /\ << b >>[1] = b
      /\ << a, b >>[1] = a /\ << a, b >>[2] = b
  OBVIOUS
<1> DEFINE s == << a >>
           t == << b >>
           u == << a, b >>
<1> HIDE DEF s, t, u
<1>3. /\ s \in Seq(Int) /\ t \in Seq(Int) /\ u \in Seq(Int)
      /\ Len(s) = 1 /\ Len(t) = 1 /\ Len(u) = 2
      /\ s[1] = a /\ t[1] = b /\ u[1] = a /\ u[2] = b
  BY <1>2 DEF s, t, u
<1>4. /\ s \o t \in Seq(Int) /\ Len(s \o t) = 2
      /\ \A i \in 1 .. 2 : (s \o t)[i] = IF i <= 1 THEN s[i] ELSE t[i - 1]
  <2>1. /\ s \o t \in Seq(Int) /\ Len(s \o t) = Len(s) + Len(t)
        /\ \A i \in 1 .. Len(s) + Len(t) :
             (s \o t)[i] = IF i <= Len(s) THEN s[i] ELSE t[i - Len(s)]
    BY <1>3, ConcatProperties, Zenon
  <2>2. Len(s) + Len(t) = 2
    BY <1>3
  <2>3. QED
    BY <1>3, <2>1, <2>2, Zenon
<1>5. \A i \in 1 .. 2 : (s \o t)[i] = u[i]
  BY <1>3, <1>4
<1>6. s \o t = u
  BY <1>3, <1>4, <1>5, SeqEqual
<1>7. QED
  BY <1>6 DEF s, t, u

(* Whatever NetToText holds, what it passes on for the next character are  *)
(* the characters of the places that are decided by it.                    *)
LEMMA ShowsNext ==
  ASSUME NEW text \in Chars, NEW f \in Chars, NEW c \in Int,
         Shows(text, f, KeptOf(f))
  PROVE  Shows(text \o NetToText_put_character(HoldsReturn(f), c).passed,
               f \o << c >>, KeptOf(f \o << c >>))
<1> DEFINE g == f \o << c >>
           n == Len(f)
           passed == NetToText_put_character(HoldsReturn(f), c).passed
<1>1. /\ g \in Chars /\ Len(g) = n + 1 /\ g[n + 1] = c
      /\ \A i \in 1 .. n : g[i] = f[i]
      /\ KeptOf(g) = KeptOf(f)
           \cup (IF HoldsReturn(f) /\ c # LF THEN { n } ELSE {})
           \cup (IF c # CR THEN { n + 1 } ELSE {})
      /\ \A i \in KeptOf(f) : i \in 1 .. n /\ (HoldsReturn(f) => i < n)
      /\ HoldsReturn(f) => n \in 1 .. n /\ f[n] = CR
  BY KeptMore
<1>2. n \in Nat
  BY Nothing
<1>3. CR \in Int /\ LF \in Int /\ CR # LF
  BY DEF CR, LF
<1>4. HoldsReturn(f) \in BOOLEAN
  BY DEF HoldsReturn
<1>5. /\ HoldsReturn(f) /\ c = LF => passed = << LF >>
      /\ HoldsReturn(f) /\ c = CR => passed = << CR >>
      /\ HoldsReturn(f) /\ c # CR /\ c # LF => passed = << CR, c >>
      /\ ~ HoldsReturn(f) /\ c = CR => passed = << >>
      /\ ~ HoldsReturn(f) /\ c # CR => passed = << c >>
  BY <1>3, <1>4 DEF NetToText_put_character
<1>6. \A t \in Chars, a \in Int : Append(t, a) = t \o << a >>
  BY AppendIsConcat DEF Chars
<1> HIDE DEF g, passed
<1>7. n <= Len(g) /\ n + 1 \in 1 .. Len(g) /\ Len(g) <= Len(g)
  BY <1>1, <1>2
<1>8. Shows(text, g, KeptOf(f))
  BY <1>1, <1>7, ShowsAsWell
<1>9. \A i \in KeptOf(f) : i < n + 1
  BY <1>1, <1>2
<1>10. CASE c = CR /\ ~ HoldsReturn(f)
  <2>1. KeptOf(g) = KeptOf(f) /\ passed = << >>
    BY <1>1, <1>5, <1>10
  <2>2. text \o passed = text
    BY <2>1, Nothing
  <2>3. QED
    BY <1>8, <2>1, <2>2 DEF g, passed
<1>11. CASE c # CR /\ (~ HoldsReturn(f) \/ c = LF)
  <2>1. KeptOf(g) = KeptOf(f) \cup { n + 1 } /\ passed = << c >>
    BY <1>1, <1>5, <1>11
  <2>2. Shows(Append(text, g[n + 1]), g, KeptOf(f) \cup { n + 1 })
    BY <1>1, <1>7, <1>9, ShowsMore
  <2>3. Append(text, g[n + 1]) = text \o passed
    BY <1>1, <1>6, <2>1
  <2>4. QED
    BY <2>1, <2>2, <2>3 DEF g, passed
<1>12. CASE HoldsReturn(f) /\ c # LF
  <2>1. n \in 1 .. n /\ n \in 1 .. Len(g) /\ g[n] = CR
    BY <1>1, <1>2, <1>12
  <2>2. \A i \in KeptOf(f) : i < n
    BY <1>1, <1>12
  <2>3. /\ Append(text, g[n]) \in Chars
        /\ Shows(Append(text, g[n]), g, KeptOf(f) \cup { n })
    BY <1>1, <1>7, <2>1, <2>2, ShowsMore
  <2>4. Append(text, g[n]) = text \o << CR >>
    BY <1>3, <1>6, <2>1
  <2>5. CASE c = CR
    <3>1. KeptOf(g) = KeptOf(f) \cup { n } /\ passed = << CR >>
      BY <1>1, <1>5, <1>12, <2>5
    <3>2. QED
      BY <2>3, <2>4, <3>1 DEF g, passed
  <2>6. CASE c # CR
    <3>1. /\ KeptOf(g) = (KeptOf(f) \cup { n }) \cup { n + 1 }
          /\ passed = << CR, c >>
      BY <1>1, <1>5, <1>12, <2>6
    <3>2. \A i \in KeptOf(f) \cup { n } : i < n + 1
      BY <1>2, <1>9
    <3>3. Shows(Append(text \o << CR >>, g[n + 1]), g,
                (KeptOf(f) \cup { n }) \cup { n + 1 })
      BY <1>1, <1>7, <2>3, <2>4, <3>2, ShowsMore
    <3>4. Append(text \o << CR >>, g[n + 1]) = text \o passed
      <4>1. << CR >> \in Chars /\ << c >> \in Chars
        BY <1>3, ShortTexts
      <4>2. Append(text \o << CR >>, c) = (text \o << CR >>) \o << c >>
        BY <1>6, <2>3, <2>4
      <4>3. (text \o << CR >>) \o << c >> = text \o (<< CR >> \o << c >>)
        BY <4>1, Joining
      <4>4. << CR >> \o << c >> = << CR, c >>
        BY <1>3, Pairs
      <4>5. QED
        BY <1>1, <3>1, <4>2, <4>3, <4>4
    <3>5. QED
      BY <3>1, <3>3, <3>4 DEF g, passed
  <2>7. QED
    BY <2>5, <2>6
<1>13. QED
  BY <1>3, <1>10, <1>11, <1>12, Zenon

(* Calls of single characters wait to put those characters. *)
LEMMA PutSinglyText ==
  ASSUME NEW text \in Chars
  PROVE  /\ PutSingly(OneByOne(text)) = text
         /\ \A k \in 1 .. Len(OneByOne(text)) : OneByOne(text)[k].method = "put_character"
<1>1. /\ Len(text) \in Nat /\ DOMAIN text = 1 .. Len(text)
      /\ Len(OneByOne(text)) = Len(text)
  BY OneByOneIsMade, LenProperties DEF Chars
<1>2. DOMAIN OneByOne(text) = DOMAIN text
  BY DEF OneByOne
<1>3. \A k \in DOMAIN text :
        /\ OneByOne(text)[k].method = "put_character"
        /\ Head(OneByOne(text)[k].chars) = text[k]
  BY DEF OneByOne, One, Call
<1>4. PutSingly(OneByOne(text)) = [ k \in DOMAIN text |-> text[k] ]
  BY <1>2, <1>3 DEF PutSingly
<1>5. text = [ k \in DOMAIN text |-> text[k] ]
  BY DEF Chars
<1>6. QED
  BY <1>1, <1>3, <1>4, <1>5

(* Taking such a call hands its character on. *)
LEMMA PutSinglyTaken ==
  ASSUME NEW cs \in Seq(Made), cs # << >>, NEW g \in Chars,
         \A k \in 1 .. Len(cs) : cs[k].method = "put_character"
  PROVE  /\ (g \o Head(cs).chars) \o PutSingly(Tail(cs)) = g \o PutSingly(cs)
         /\ \A k \in 1 .. Len(Tail(cs)) : Tail(cs)[k].method = "put_character"
<1>1. /\ Head(cs) = cs[1] /\ Tail(cs) \in Seq(Made)
      /\ Len(Tail(cs)) = Len(cs) - 1 /\ Len(cs) \in Nat /\ Len(cs) # 0
      /\ \A k \in 1 .. Len(Tail(cs)) : Tail(cs)[k] = cs[k + 1]
  BY HeadTailProperties, LenProperties, EmptySeq
<1> DEFINE t == Tail(cs)
           n == Len(cs)
<1>2. \A s \in Seq(Made) : Len(s) \in Nat /\ DOMAIN s = 1 .. Len(s)
  BY LenProperties
<1>3. \A k \in 1 .. n : cs[k] \in Made
  BY ElementOfSeq
<1>4. \A c \in Made : c.method = "put_character" =>
        c.chars \in Chars /\ c.chars = << Head(c.chars) >> /\ Head(c.chars) \in Int
  BY DEF Made, Chars
<1>5. \A k \in 1 .. n : Head(cs[k].chars) \in Int
  BY <1>3, <1>4
<1> HIDE DEF t
<1>6. t \in Seq(Made) /\ Len(t) = n - 1 /\ n \in Nat /\ n # 0
      /\ \A k \in 1 .. n - 1 : t[k] = cs[k + 1]
  BY <1>1 DEF t
<1>7. \A k \in 1 .. n - 1 : k + 1 \in 1 .. n
  BY <1>6
<1>8. PutSingly(cs) \in Chars /\ Len(PutSingly(cs)) = n
      /\ \A k \in 1 .. n : PutSingly(cs)[k] = Head(cs[k].chars)
  <2>1. PutSingly(cs) = [ k \in 1 .. n |-> Head(cs[k].chars) ]
    BY <1>2 DEF PutSingly
  <2>2. QED
    BY <1>5, <1>6, <2>1 DEF Chars
<1>9. PutSingly(t) \in Chars /\ Len(PutSingly(t)) = n - 1
      /\ \A k \in 1 .. n - 1 : PutSingly(t)[k] = Head(cs[k + 1].chars)
  <2>1. PutSingly(t) = [ k \in 1 .. n - 1 |-> Head(t[k].chars) ]
    BY <1>2, <1>6 DEF PutSingly
  <2>2. \A k \in 1 .. n - 1 : Head(t[k].chars) = Head(cs[k + 1].chars)
                              /\ Head(t[k].chars) \in Int
    BY <1>5, <1>6, <1>7
  <2>3. PICK m \in Nat : m = n - 1
    BY <1>6
  <2> HIDE DEF n
  <2>4. PutSingly(t) = [ k \in 1 .. m |-> Head(t[k].chars) ]
        /\ \A k \in 1 .. m : Head(t[k].chars) \in Int
    BY <2>1, <2>2, <2>3
  <2>5. PutSingly(t) \in Chars /\ Len(PutSingly(t)) = m
        /\ \A k \in 1 .. m : PutSingly(t)[k] = Head(t[k].chars)
    BY <2>4 DEF Chars
  <2>6. QED
    BY <2>2, <2>3, <2>5
<1>10. 1 \in 1 .. n
  BY <1>6
<1> DEFINE h == << Head(cs[1].chars) >>
<1>11. /\ h \in Chars /\ Len(h) = 1 /\ h[1] = Head(cs[1].chars)
       /\ Head(cs).chars = h
  <2>1. cs[1] \in Made /\ cs[1].method = "put_character"
    BY <1>3, <1>10
  <2>2. cs[1].chars = h /\ Head(cs[1].chars) \in Int
    BY <1>4, <2>1
  <2>3. QED
    BY <1>1, <2>2, ShortTexts
<1> HIDE DEF h
<1>12. h \o PutSingly(t) = PutSingly(cs)
  <2>1. /\ h \o PutSingly(t) \in Chars
        /\ Len(h \o PutSingly(t)) = 1 + (n - 1)
        /\ \A k \in 1 .. 1 + (n - 1) :
             (h \o PutSingly(t))[k] = IF k <= 1 THEN h[k] ELSE PutSingly(t)[k - 1]
    <3>1. h \in Seq(Int) /\ PutSingly(t) \in Seq(Int)
          /\ Len(h) = 1 /\ Len(PutSingly(t)) = n - 1
      BY <1>9, <1>11 DEF Chars
    <3>2. /\ h \o PutSingly(t) \in Seq(Int)
          /\ Len(h \o PutSingly(t)) = Len(h) + Len(PutSingly(t))
          /\ \A k \in 1 .. Len(h) + Len(PutSingly(t)) :
               (h \o PutSingly(t))[k]
                 = IF k <= Len(h) THEN h[k] ELSE PutSingly(t)[k - Len(h)]
      BY <3>1, ConcatProperties, Zenon
    <3>3. QED
      BY <3>1, <3>2, Zenon DEF Chars
  <2>2. 1 + (n - 1) = n
    BY <1>6
  <2>3. \A k \in 1 .. n : (h \o PutSingly(t))[k] = PutSingly(cs)[k]
    <3>1. SUFFICES ASSUME NEW k \in 1 .. n
                   PROVE  (h \o PutSingly(t))[k] = PutSingly(cs)[k]
      OBVIOUS
    <3>2. CASE k = 1
      BY <1>8, <1>10, <1>11, <2>1, <2>2, <3>2
    <3>3. CASE k # 1
      <4>1. k - 1 \in 1 .. n - 1 /\ (k - 1) + 1 = k /\ ~ (k <= 1)
        BY <1>6, <3>1, <3>3
      <4>2. (h \o PutSingly(t))[k] = PutSingly(t)[k - 1]
        BY <2>1, <2>2, <3>1, <4>1
      <4>3. PutSingly(t)[k - 1] = Head(cs[k].chars)
        BY <1>9, <4>1
      <4>4. QED
        BY <1>8, <3>1, <4>2, <4>3
    <3>4. QED
      BY <3>2, <3>3
  <2>4. QED
    BY <1>8, <2>1, <2>2, <2>3, SeqEqual DEF Chars
<1>13. (g \o h) \o PutSingly(t) = g \o (h \o PutSingly(t))
  BY <1>9, <1>11, Joining
<1>14. \A k \in 1 .. Len(t) : t[k].method = "put_character"
  BY <1>6, <1>7
<1>15. QED
  BY <1>11, <1>12, <1>13, <1>14 DEF t

(* No text has been put at first. *)
LEMMA InitText ==
  ASSUME StreamsInit
  PROVE  TextFits
BY DEF StreamsInit, Stream, TextFits

(* A step that is not about the text. *)
LEMMA StutterText ==
  ASSUME TextFits, UNCHANGED << stream, phase, had_cr, fed, calls, given >>
  PROVE  TextFits'
BY DEF TextFits

(* Nothing of a text has been put before its stack is set up. *)
LEMMA OpenText ==
  ASSUME Inv, TextFits, NEW it \in Openings, Open(it)
  PROVE  TextFits'
<1>1. PICK class \in Outcomes(Class(it)) :
        stream' = Entered(it, class) /\ calls' = PrefixOf(class)
  BY DEF Open
<1>2. /\ phase = "define" /\ phase' # "define"
      /\ UNCHANGED << had_cr, fed, given >>
  BY DEF Open
<1>3. /\ TableFits
      /\ fed = << >> /\ given = << >> /\ ~ had_cr
  BY <1>2 DEF Inv, DocFits, ParsersFit, TextFits
<1>4. /\ class \in Classes
      /\ it.copy = "NetToText" =>
           class \notin { "MIMEParser", "WSRCParser", "PlainToHTML" }
  BY <1>3, ClassFits
<1>5. stream'.copy = it.copy /\ stream'.last = LastOf(class)
  BY <1>1, <1>4, EnteredFits, OpeningFits
<1>6. ASSUME it.copy = "NetToText"
      PROVE  /\ stream'.last \notin { "MIMEParser", "WSRCParser" }
             /\ calls' = << >>
  BY <1>1, <1>4, <1>5, <1>6 DEF LastOf, PrefixOf
<1>7. ASSUME calls' = << >>
      PROVE  Shows((given \o PutSingly(calls))', fed', KeptOf(fed'))
  <2>1. PutSingly(calls') = << >>
    BY <1>7 DEF PutSingly
  <2>2. (given \o PutSingly(calls))' = << >>
    BY <1>2, <1>3, <2>1, Nothing
  <2>3. QED
    BY <1>2, <1>3, <2>2, ShowsNothing
<1>8. ~ HoldsReturn(fed') /\ ~ had_cr'
  BY <1>2, <1>3 DEF HoldsReturn
<1>9. ASSUME calls' = << >>
      PROVE  \A k \in 1 .. Len(calls') : calls'[k].method = "put_character"
  BY <1>9, Nothing
<1>10. HoldsReturn(fed') \in BOOLEAN /\ had_cr' \in BOOLEAN
  BY <1>2 DEF HoldsReturn, Inv, DocFits
<1>11. had_cr' = HoldsReturn(fed')
  BY <1>8, <1>10
<1>12. QED
  BY <1>2, <1>5, <1>6, <1>7, <1>9, <1>11 DEF TextFits

(* A parser never gets what NetToText passes on. *)
LEMMA ParsedText ==
  ASSUME Inv, TextFits, PutPiece
  PROVE  TextFits'
<1>1. stream.last = "MIMEParser" /\ UNCHANGED << phase, had_cr >>
  BY DEF PutPiece
<1>2. stream.copy # "NetToText" /\ stream \in StreamRecords
  BY <1>1 DEF Inv, DocFits, TextFits
<1>3. \/ stream' = stream
      \/ \E target : stream' = Entered(stream, target)
  BY Zenon DEF PutPiece
<1>4. stream'.copy = stream.copy
  BY <1>2, <1>3 DEF Entered, StreamRecords
<1>5. QED
  BY <1>1, <1>2, <1>4 DEF TextFits

(* NetToText is put another character. *)
LEMMA PutTextText ==
  ASSUME Inv, TextFits, PutText
  PROVE  TextFits'
<1>1. /\ phase = "body" /\ calls = << >> /\ UNCHANGED << stream, phase, given >>
  BY DEF PutText, Quiet
<1>2. CASE stream.copy # "NetToText"
  BY <1>1, <1>2 DEF TextFits
<1>3. CASE stream.copy = "NetToText"
  <2>1. /\ stream.last \notin { "MIMEParser", "WSRCParser" }
        /\ had_cr = HoldsReturn(fed)
        /\ Shows(given \o PutSingly(calls), fed, KeptOf(fed))
        /\ fed \in Chars /\ given \in Chars
    BY <1>3 DEF TextFits, Inv, DocFits
  <2>2. PICK c \in Characters :
          Puts(<< c >>, OneByOne(Passed(c).passed), Passed(c).had_cr)
    BY <1>3, <2>1, Zenon DEF PutText
  <2>3. c \in Int
    BY <2>1, CharactersFit
  <2> DEFINE it == NetToText_put_character(HoldsReturn(fed), c)
  <2>4. /\ fed' = fed \o << c >> /\ calls' = OneByOne(it.passed)
        /\ had_cr' = it.had_cr
    BY <2>1, <2>2, Zenon DEF Puts, Passed
  <2>5. it.passed \in Chars /\ it.had_cr = (c = CR)
    <3>1. HoldsReturn(fed) \in BOOLEAN
      BY DEF HoldsReturn
    <3>2. it.passed \in Chars
      BY <2>3, <3>1, PassedFits, Zenon
    <3>3. it.had_cr = (c = CR)
      BY DEF NetToText_put_character
    <3>4. QED
      BY <3>2, <3>3
  <2>6. PutSingly(calls) = << >> /\ given \o << >> = given
    BY <1>1, <2>1, Nothing DEF PutSingly
  <2>7. Shows(given \o it.passed, fed \o << c >>, KeptOf(fed \o << c >>))
    BY <2>1, <2>3, <2>6, ShowsNext
  <2> HIDE DEF it
  <2>8. /\ PutSingly(calls') = it.passed
        /\ \A k \in 1 .. Len(calls') : calls'[k].method = "put_character"
    BY <2>4, <2>5, PutSinglyText
  <2>9. HoldsReturn(fed \o << c >>) = (c = CR)
    BY <2>1, <2>3, KeptMore
  <2>10. QED
    BY <1>1, <2>1, <2>4, <2>5, <2>7, <2>8, <2>9 DEF TextFits
<1>4. QED
  BY <1>2, <1>3

(* The last stream takes one of its characters. *)
LEMMA TakeText ==
  ASSUME Inv, TextFits, Take
  PROVE  TextFits'
<1>1. /\ calls # << >> /\ calls' = Tail(calls)
      /\ given' = given \o Head(calls).chars
      /\ UNCHANGED << stream, phase, had_cr, fed >>
  BY DEF Take
<1>2. CASE stream.copy # "NetToText"
  BY <1>1, <1>2 DEF TextFits
<1>3. CASE stream.copy = "NetToText"
  <2>1. calls \in Seq(Made) /\ given \in Chars
    BY DEF Inv, DocFits
  <2>2. \A k \in 1 .. Len(calls) : calls[k].method = "put_character"
    BY <1>3 DEF TextFits
  <2>3. /\ given' \o PutSingly(calls') = given \o PutSingly(calls)
        /\ \A k \in 1 .. Len(calls') : calls'[k].method = "put_character"
    BY <1>1, <2>1, <2>2, PutSinglyTaken
  <2>4. QED
    BY <1>1, <1>3, <2>3 DEF TextFits
<1>4. QED
  BY <1>2, <1>3

-----------------------------------------------------------------------------
InvWithText == Inv /\ TextFits

(* Each action keeps the invariant. *)
LEMMA NextFits ==
  ASSUME InvWithText, [StreamsNext]_streamsVars
  PROVE  InvWithText'
<1>1. Inv /\ TextFits
  BY DEF InvWithText
<1>2. CASE UNCHANGED streamsVars
  BY <1>1, <1>2, StutterFits, StutterText DEF streamsVars, doc, InvWithText
<1>3. CASE Define \/ DefineLibrarys
  <2>1. UNCHANGED << stream, phase, had_cr, fed, calls, given >>
    BY <1>3 DEF Define, DefineLibrarys, doc
  <2>2. QED
    BY <1>1, <1>3, <2>1, DefineFits, StutterText DEF InvWithText
<1>4. ASSUME NEW it \in Openings, Open(it)
      PROVE  InvWithText'
  BY <1>1, <1>4, OpenFits, OpenText DEF InvWithText
<1>5. CASE PutLine
  <2>1. /\ phase = "header" /\ phase' \in { "header", "body" }
        /\ UNCHANGED << stream, had_cr, fed, calls, given >>
    BY <1>5 DEF PutLine
  <2>2. TextFits'
    BY <1>1, <2>1 DEF TextFits
  <2>3. QED
    BY <1>1, <1>5, <2>2, PutLineFits DEF InvWithText
<1>6. CASE PutPiece
  BY <1>1, <1>6, PutPieceFits, ParsedText DEF InvWithText
<1>7. CASE PutField
  <2>1. UNCHANGED << stream, phase, had_cr, fed, calls, given >>
    BY <1>7 DEF PutField
  <2>2. QED
    BY <1>1, <1>7, <2>1, PutFieldFits, StutterText DEF InvWithText
<1>8. CASE PutWsrc
  <2>1. UNCHANGED << stream, phase, had_cr, fed, calls, given >>
    BY <1>8 DEF PutWsrc
  <2>2. QED
    BY <1>1, <1>8, <2>1, PutWsrcFits, StutterText DEF InvWithText
<1>9. CASE PutText
  BY <1>1, <1>9, PutTextFits, PutTextText DEF InvWithText
<1>10. CASE Take
  BY <1>1, <1>10, TakeFits, TakeText DEF InvWithText
<1>11. CASE Free
  <2>1. /\ phase' # "define"
        /\ UNCHANGED << stream, had_cr, fed, calls, given >>
    BY <1>11 DEF Free
  <2>2. TextFits'
    BY <1>1, <2>1 DEF TextFits
  <2>3. QED
    BY <1>1, <1>11, <2>2, FreeFits DEF InvWithText
<1>12. CASE Write
  <2>1. UNCHANGED << stream, phase, had_cr, fed, calls, given >>
    BY <1>12 DEF Write, doc
  <2>2. QED
    BY <1>1, <1>12, <2>1, WriteFits, StutterText DEF InvWithText
<1>13. QED
  BY <1>2, <1>3, <1>4, <1>5, <1>6, <1>7, <1>8, <1>9, <1>10, <1>11, <1>12
     DEF StreamsNext

(* The invariant holds in every state. *)
LEMMA AlwaysFits == StreamsSpec => []InvWithText
<1>1. StreamsInit => InvWithText
  BY InitFits, InitText DEF InvWithText
<1>2. InvWithText /\ [StreamsNext]_streamsVars => InvWithText'
  BY NextFits
<1>3. QED
  BY <1>1, <1>2, PTL DEF StreamsSpec

-----------------------------------------------------------------------------
(* Whatever is set up and put down it, the parsers, the writer and the     *)
(* stack keep to the states their code has, and a MIME parser that steps   *)
(* aside has a target.                                                     *)
THEOREM StreamsTyped == StreamsSpec => []TypeOK
<1>1. Inv => TypeOK
  <2>1. SUFFICES ASSUME Inv
                 PROVE  TypeOK
    OBVIOUS
  <2>2. MimeOK
    BY <2>1 DEF Inv, ParsersFit, MimeFits, MimeRecords, MimeOK, Fields
  <2>3. WsrcOK
    BY <2>1 DEF Inv, ParsersFit, WsrcFits, WsrcRecords, WsrcOK
  <2>4. WriterOK
    <3>1. WriterFits(writer) /\ wire \in Chars
      BY <2>1 DEF Inv, SocketFits
    <3>2. /\ writer.job \in Jobs /\ writer.past \in Nat
          /\ writer.buffer \in Chars /\ writer.chars \in Chars
          /\ writer.read \in Nat /\ writer.read <= Len(writer.buffer)
      BY <3>1 DEF WriterFits, WriterRecords
    <3>3. { writer.flushing, writer.short, writer.failed } \subseteq BOOLEAN
      <4>1. /\ writer.flushing \in BOOLEAN /\ writer.short \in BOOLEAN
            /\ writer.failed \in BOOLEAN
        BY <3>1, Zenon DEF WriterFits, WriterRecords
      <4>2. QED
        BY <4>1, Zenon
    <3>4. writer.read \in 0 .. Len(writer.buffer)
      BY <3>2, Nothing
    <3>5. QED
      BY <3>1, <3>2, <3>3, <3>4 DEF WriterOK, Chars
  <2>5. QED
    BY <2>1, <2>2, <2>3, <2>4 DEF Inv, DocFits, ParsersFit, TypeOK
<1>2. QED
  BY <1>1, AlwaysFits, PTL DEF InvWithText

(* HTWriter: with a buffer of any size, whatever characters, strings and   *)
(* blocks take turns: as long as the system takes the buffer whole, the    *)
(* other end receives what the stream was given, in order and once, and    *)
(* all of it once it is freed.                                             *)
THEOREM AlwaysSentInOrder == StreamsSpec => []SentInOrder
<1>1. Inv => SentInOrder
  <2>1. SUFFICES ASSUME Inv, ~ writer.failed, ~ writer.short
                 PROVE  /\ stream.last = "SocketWriter" => wire \o Unsent = given
                        /\ writer.job = "freed" => wire = given
    BY DEF SentInOrder
  <2>2. /\ writer.buffer \in Chars /\ writer.chars \in Chars /\ wire \in Chars
        /\ writer.job = "freed" => writer.chars = << >> /\ ~ writer.flushing
    BY <2>1 DEF Inv, SocketFits, WriterFits, WriterRecords, Idle
  <2>3. CASE stream.last = "SocketWriter"
    <3>1. Delivers(writer, wire, given)
      BY <2>1, <2>3 DEF Inv, SocketFits
    <3>2. /\ writer.read = 0 \/ writer.read = Len(writer.buffer)
          /\ writer.read = 0 => wire \o (writer.buffer \o writer.chars) = given
          /\ writer.read = Len(writer.buffer) => wire \o writer.chars = given
      BY <2>1, <3>1 DEF Delivers
    <3>3. Len(writer.buffer) \in Nat
      BY <2>2, Nothing
    <3>4. wire \o Unsent = given
      <4>1. CASE writer.read = 0
        <5>1. SubSeq(writer.buffer, writer.read + 1, Len(writer.buffer)) = writer.buffer
          BY <2>2, <4>1, SubSeqFull DEF Chars
        <5>2. QED
          BY <3>2, <4>1, <5>1 DEF Unsent
      <4>2. CASE writer.read = Len(writer.buffer)
        <5>1. SubSeq(writer.buffer, writer.read + 1, Len(writer.buffer)) = << >>
          BY <3>3, <4>2, SubSeqEmpty
        <5>2. << >> \o writer.chars = writer.chars
          BY <2>2, Nothing
        <5>3. QED
          BY <3>2, <4>2, <5>1, <5>2 DEF Unsent
      <4>3. QED
        BY <3>2, <4>1, <4>2
    <3>5. ASSUME writer.job = "freed"
          PROVE  wire = given
      <4>1. writer.buffer = << >> /\ writer.read = 0
        BY <2>1, <2>2, <3>1, <3>5 DEF Delivers
      <4>2. wire \o (<< >> \o << >>) = given
        BY <2>2, <3>2, <3>5, <4>1
      <4>3. wire \o (<< >> \o << >>) = wire
        BY <2>2, Nothing
      <4>4. QED
        BY <4>2, <4>3
    <3>6. QED
      BY <3>4, <3>5
  <2>4. CASE stream.last # "SocketWriter"
    BY <2>1, <2>4 DEF Inv, SocketFits, HTWriter_new
  <2>5. QED
    BY <2>3, <2>4
<1>2. QED
  BY <1>1, AlwaysFits, PTL DEF InvWithText

(* HTWriter: with a buffer at least as large as every string that is put   *)
(* (HTWriter.c: "Strings must be smaller than this buffer size"), nothing  *)
(* but the terminator of a string is ever stored beyond its end, unless a  *)
(* write failed.                                                           *)
THEOREM OverrunAlwaysTheTerminatorOnly ==
  ASSUME BUFFER_SIZE >= 2
  PROVE  StreamsSpec => []OverrunIsTheTerminatorOnly
<1>1. Inv => OverrunIsTheTerminatorOnly
  BY DEF Inv, SocketFits, Fills, OverrunIsTheTerminatorOnly
<1>2. QED
  BY <1>1, AlwaysFits, PTL DEF InvWithText

(* HTFormat: for a text of any length, NetToText passes on all that is put *)
(* but the returns before a newline, and one at the very end.              *)
THEOREM NewlinesAlwaysTranslated == StreamsSpec => []NewlinesAreTranslated
<1>1. TextFits => NewlinesAreTranslated
  <2>1. SUFFICES ASSUME TextFits, stream.copy = "NetToText"
                 PROVE  Shows(given \o Waiting, fed, Kept)
    BY Zenon DEF NewlinesAreTranslated, Shows
  <2>2. Waiting = PutSingly(calls) /\ Kept = KeptOf(fed)
    BY Zenon DEF Waiting, PutSingly, Kept, KeptOf
  <2>3. QED
    BY <2>1, <2>2 DEF TextFits
<1>2. QED
  BY <1>1, AlwaysFits, PTL DEF InvWithText

=============================================================================
