-------------------------------- MODULE HTWriter --------------------------------
(***************************************************************************)
(* The stream that writes to a socket (HTWriter.c).  Each write() of the   *)
(* system is a step: it takes all it is given, or only a part, or fails.   *)
(*                                                                         *)
(* The buffer is what stands between its start and the write pointer.      *)
(* `read' is how far flush believes it has got.  `past' is how many bytes  *)
(* were ever written beyond the end of the buffer, `short' and `failed'    *)
(* whether a write while flushing took only a part, or any write failed.   *)
(***************************************************************************)
EXTENDS Integers, SequencesExt, FiniteSetsExt

CONSTANT BUFFER_SIZE

ASSUME BufferAssumption == BUFFER_SIZE \in Nat \ { 0 }

VARIABLES
  writer,   \* the stream
  wire      \* what the other end of its socket has received

Jobs == { "none", "put_character", "put_string", "write", "free", "freed" }

HTWriter_new ==
  [ buffer |-> << >>, read |-> 0, flushing |-> FALSE, job |-> "none",
    chars |-> << >>, past |-> 0, short |-> FALSE, failed |-> FALSE ]

Ready == writer.job = "none"

InitialWriter == writer = HTWriter_new /\ wire = << >>

(* A method is called; what it does first is to flush, if it has to.       *)
Begin(job, chars, flush) ==
  writer' = [ writer EXCEPT !.job = job, !.chars = chars,
                            !.flushing = flush, !.read = 0 ]

HTWriter_put_character(c) ==
  Begin("put_character", << c >>, Len(writer.buffer) = BUFFER_SIZE)

HTWriter_put_string_late(s) ==
  Begin("put_string", s, Len(writer.buffer) + Len(s) > BUFFER_SIZE + 1)

HTWriter_put_string(s) ==
  Begin("put_string", s, Len(writer.buffer) + Len(s) > BUFFER_SIZE)

HTWriter_write_first(s) == Begin("write", s, FALSE)

HTWriter_write(s) == Begin("write", s, TRUE)

HTWriter_free == Begin("free", << >>, TRUE)

----------------------------------------------------------------------------

Remaining == Len(writer.buffer) - writer.read

(* Each write of flush is from the start of the buffer.                    *)
FlushWrites ==
  /\ writer.flushing /\ Remaining > 0
  /\ \E n \in 1 .. Remaining :
       /\ wire' = wire \o SubSeq(writer.buffer, 1, n)
       /\ writer' = [ writer EXCEPT !.read = @ + n,
                                    !.short = @ \/ n < Remaining ]

(* It gives up with the buffer as it was, and its caller goes on. *)
FlushFails ==
  /\ writer.flushing /\ Remaining > 0
  /\ writer' = [ writer EXCEPT !.flushing = FALSE, !.failed = TRUE ]
  /\ UNCHANGED wire

Flushed ==
  /\ writer.flushing /\ Remaining = 0
  /\ writer' = [ writer EXCEPT !.flushing = FALSE, !.buffer = << >>, !.read = 0 ]
  /\ UNCHANGED wire

(* What is beyond the end, once `more' bytes follow those in the buffer.   *)
Beyond(more) == Max({ 0, Len(writer.buffer) + more - BUFFER_SIZE })

Store ==
  [ writer EXCEPT !.buffer = @ \o writer.chars, !.chars = << >>, !.job = "none",
                  !.read = 0 ]

StoreCharacter ==
  /\ ~ writer.flushing /\ writer.job = "put_character"
  /\ writer' = [ Store EXCEPT !.past = Max({ @, Beyond(1) }) ]
  /\ UNCHANGED wire

(* strcpy copies the terminator too. *)
Terminated == Len(writer.chars) + 1

StoreString ==
  /\ ~ writer.flushing /\ writer.job = "put_string"
  /\ writer' = [ Store EXCEPT !.past = Max({ @, Beyond(Terminated) }) ]
  /\ UNCHANGED wire

(* A block goes to the socket directly, and a part of it that was taken    *)
(* is not sent again.                                                      *)
BlockWrites ==
  /\ ~ writer.flushing /\ writer.job = "write" /\ writer.chars # << >>
  /\ \E n \in 1 .. Len(writer.chars) :
       /\ wire' = wire \o SubSeq(writer.chars, 1, n)
       /\ writer' = [ writer EXCEPT !.chars = SubSeq(@, n + 1, Len(@)) ]

BlockFails ==
  /\ ~ writer.flushing /\ writer.job = "write" /\ writer.chars # << >>
  /\ writer' = [ writer EXCEPT !.chars = << >>, !.job = "none", !.failed = TRUE ]
  /\ UNCHANGED wire

BlockWritten ==
  /\ ~ writer.flushing /\ writer.job = "write" /\ writer.chars = << >>
  /\ writer' = [ writer EXCEPT !.job = "none" ]
  /\ UNCHANGED wire

Freed ==
  /\ ~ writer.flushing /\ writer.job = "free"
  /\ writer' = [ writer EXCEPT !.job = "freed" ]
  /\ UNCHANGED wire

WriterNext ==
  \/ FlushWrites \/ FlushFails \/ Flushed
  \/ StoreCharacter \/ StoreString
  \/ BlockWrites \/ BlockFails \/ BlockWritten
  \/ Freed

(* What was given and is still to be sent. *)
Unsent == SubSeq(writer.buffer, writer.read + 1, Len(writer.buffer)) \o writer.chars

WriterOK ==
  /\ writer.job \in Jobs /\ writer.read \in 0 .. Len(writer.buffer)
  /\ writer.past \in Nat
  /\ { writer.flushing, writer.short, writer.failed } \subseteq BOOLEAN
  /\ writer.buffer \in Seq(Int) /\ writer.chars \in Seq(Int) /\ wire \in Seq(Int)

=============================================================================
