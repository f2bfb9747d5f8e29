-------------------------------- MODULE Streams --------------------------------
(***************************************************************************)
(* A document on its way from the net or from a protocol module through a  *)
(* stack of streams: the client defines conversions of its own or not, a   *)
(* stack is set up (HTStreamStack), and HTCopy, HTCopyNoCR, NetToText or   *)
(* the generator of HTML put the document down it, which is then freed or  *)
(* aborted.  What comes is a header for the MIME parser, a WAIS source     *)
(* file, or a text; what is at the end is a socket to write to, or a text, *)
(* a file, a parser, which take all there is.                              *)
(*                                                                         *)
(* The methods of a stream call those of the next one: calls that are made *)
(* and not yet taken are in `calls', and nothing more is put until then.   *)
(***************************************************************************)
EXTENDS HTMIME, HTWSRC, HTWriter

CONSTANTS
  MaxDefined,  \* conversions the client defines
  MaxLines,    \* lines of a header, or fields of a source file
  MaxChars     \* characters of a text, but for those of generated elements

VARIABLES
  stream,   \* what the stack is for, and what is at its end
  phase,    \* "define", "header", "body", "end", "freed" or "failed"
  had_cr,   \* of NetToText
  line,     \* pieces of a line or field that are still to come
  lines,    \* how many there have been
  fed,      \* the text put down the stack
  calls,    \* made to the last stream and not yet taken
  given,    \* what it was given
  due       \* what a reader of the header or the fields takes them for

doc  == << stream, phase, had_cr, line, lines, fed, calls, given, due >>
streamsVars ==
  << formats, mime, wsrc, writer, wire, doc >>

Stream(rep_in, rep_out, sink, copy) ==
  [ rep_in |-> rep_in, rep_out |-> rep_out, sink |-> sink, copy |-> copy,
    last |-> "none", prefix |-> << >> ]

(* HTTP sends a full reply to the MIME parser and an old one, which is     *)
(* HTML, through NetToText; the other protocols' texts lose their returns. *)
(* Lists of files and of articles are generated as HTML.                   *)
Sinks(rep_out) ==
  IF rep_out = Present THEN { "none", "SocketWriter" } ELSE { "SocketWriter" }

Copied(rep_out) ==
  { Stream(rep[1], rep_out, sink, rep[2]) :
      rep \in { << Mime, "HTCopy" >>, << Html, "NetToText" >>,
               << Plain, "HTCopyNoCR" >>, << Wais, "HTCopyNoCR" >> },
      sink \in Sinks(rep_out) }

Generated(rep_out) == Stream(Html, rep_out, "SocketWriter", "HTMLGenerator")

Openings ==
  (UNION { Copied(rep_out) : rep_out \in { Source, Present, Html } }) \cup
  { Generated(rep_out) : rep_out \in { Source, Html } }

StreamsInit ==
  /\ InitialFormats /\ InitialWriter
  /\ mime = NoMime /\ wsrc = HTWSRCConvert
  /\ stream = Stream("none", "none", "none", "none")
  /\ phase = "define" /\ had_cr = FALSE
  /\ line = << >> /\ lines = 0
  /\ fed = << >> /\ calls = << >> /\ given = << >>
  /\ due = [ regular |-> TRUE, format |-> Plain, closed |-> FALSE,
             par |-> [ p \in Parameters |-> NotGiven ] ]

Call(method, chars) == [ method |-> method, chars |-> chars ]

(***************************************************************************)
(* Definitions, and the stack.                                             *)
(***************************************************************************)
Own == { i \in DOMAIN TheList : TheList[i] \notin Range(Library) }

Define ==
  /\ phase = "define"
  /\ Cardinality(Own) < MaxDefined /\ default_presentation = NoConversion
  /\ \/ \E rep \in { Html, Wildcard } : HTSetPresentation(rep)
     \/ HTSetConversion(Conversion(Html, Wildcard, "HTMLToC"))
  /\ UNCHANGED << mime, wsrc, writer, wire, doc >>

(* HTFormatInit, called by the client before or after its own definitions. *)
DefineLibrarys ==
  /\ phase = "define" /\ Len(TheList) = Cardinality(Own)
  /\ HTPresentations' = HTFormatInit
  /\ UNCHANGED << default_presentation, mime, wsrc, writer, wire, doc >>

(* A stream that converts plain text to HTML begins with two elements, and *)
(* hands all else to its sink.                                             *)
Begun == << -2, -3 >>
LastOf(class)   == IF class = "PlainToHTML" THEN "SocketWriter" ELSE class
PrefixOf(class) == IF class = "PlainToHTML" THEN << Call("put_string", Begun) >> ELSE << >>

Entered(it, class) ==
  [ it EXCEPT !.last = LastOf(class), !.prefix = PrefixOf(class) ]

Class(it) ==
  IF Trivial(it.rep_in, it.rep_out) THEN it.sink
  ELSE HTStreamStack(Presentations, it.rep_in, it.rep_out)

(* The streams that write a file cannot always open one. *)
Outcomes(class) ==
  { class } \cup (IF class \in { "SaveLocally", "SaveAndExecute" } THEN { "none" } ELSE {})

Open(it) ==
  /\ phase = "define"
  /\ \E class \in Outcomes(Class(it)) :
       /\ stream' = Entered(it, class)
       /\ calls' = PrefixOf(class)
       /\ mime' = IF class = "MIMEParser" THEN HTMIMEConvert(it.rep_out, FALSE) ELSE mime
       /\ phase' = CASE class = "none"       -> "failed"
                     [] class = "MIMEParser" -> "header"
                     [] OTHER                -> "body"
       /\ line' = IF class = "WSRCParser" THEN << "(" >> ELSE << >>
  /\ HTPresentations' = IF Trivial(it.rep_in, it.rep_out) THEN HTPresentations ELSE Presentations
  /\ UNCHANGED << default_presentation, wsrc, writer, wire, had_cr, lines, fed,
                  given, due >>

(***************************************************************************)
(* The header.  Each line is what it reads as: the format it gives, if it  *)
(* is one that gives it, and whether it is of a form that is understood.   *)
(***************************************************************************)
Type == << "c", "ontent-t", "ype:" >>
Eols == { << "\n" >>, << "\r", "\n" >> }

HeaderLine(pieces, format, regular) ==
  [ pieces |-> pieces, format |-> format, regular |-> regular ]

HeaderLines(eol) ==
  { HeaderLine(Type \o << " ", f >>, f, TRUE) : f \in { Html, Plain } } \cup
  { HeaderLine(Type \o << " ", Wais, " " >>, Wais, TRUE),
    HeaderLine(Type \o eol \o << " ", Html >>, Html, TRUE),
    HeaderLine(<< "c", "ontent-t", "ransfer-encoding:", " ", "other" >>, "", TRUE),
    HeaderLine(<< "c", "other" >>, "", TRUE),
    HeaderLine(<< "c", "ontent-t", "other" >>, "", TRUE),
    HeaderLine(<< "other" >>, "", TRUE),
    HeaderLine(<< " ", "other" >>, "", TRUE),
    HeaderLine(Type \o << " ", "long" >>, "", TRUE),
    HeaderLine(Type \o << " ", Html, " ", "other" >>, Html, FALSE),
    HeaderLine(<< "c", "ontent-t" >>, "", FALSE),
    HeaderLine(Type, "", FALSE),
    HeaderLine(<< " " >> \o Type \o << " ", Html >>, "", FALSE) }

(* An empty header is one blank line only if it has no return. *)
Blank(eol) == HeaderLine(<< >>, "", lines > 0 \/ eol = << "\n" >>)

Quiet == line = << >> /\ calls = << >> /\ Ready

Reads(it) ==
  due' = [ due EXCEPT !.regular = @ /\ it.regular,
                      !.format = IF it.format = "" THEN @ ELSE it.format ]

PutLine ==
  /\ phase = "header" /\ Quiet
  /\ \E eol \in Eols :
       \/ \E it \in HeaderLines(eol) :
            /\ lines < MaxLines /\ lines' = lines + 1
            /\ line' = it.pieces \o eol /\ Reads(it)
            /\ UNCHANGED phase
       \/ line' = eol /\ Reads(Blank(eol)) /\ phase' = "body" /\ lines' = 0
  /\ UNCHANGED << formats, mime, wsrc, writer, wire, stream, had_cr, fed, calls, given >>

(* The parser takes the next piece; when that ends the header the stack    *)
(* for the rest is set up.                                                 *)
PutPiece ==
  /\ line # << >> /\ stream.last = "MIMEParser"
  /\ LET me == HTMIME_put_character(mime, Head(line), stream.sink)
     IN  IF ~ Transparent(me)
         THEN mime' = me /\ UNCHANGED << stream, calls >>
         ELSE \E class \in Outcomes(me.target) :
                LET target == IF class = "none" THEN stream.sink ELSE class
                IN  /\ mime' = EndOfHeader(mime, class, stream.sink)
                    /\ stream' = IF target = "none" THEN stream ELSE Entered(stream, target)
                    /\ calls' = IF target = "none" THEN << >> ELSE PrefixOf(target)
  /\ line' = IF stream'.last = "WSRCParser" THEN << "(" >> ELSE Tail(line)
  /\ UNCHANGED << formats, wsrc, writer, wire, phase, had_cr, lines, fed, given, due >>

(***************************************************************************)
(* A source file: its fields.                                              *)
(***************************************************************************)
FieldNames == { "ip-name", "database-name", "source" }
Word       == IF lines % 2 = 0 THEN "a" ELSE "b"

Field(pieces, name, value, regular) ==
  [ pieces |-> pieces, name |-> name, value |-> value, regular |-> regular ]

Tag(name) == << ":", name, "white" >>

FieldsOf(name) ==
  { Field(Tag(name) \o << Word, "white" >>, name, << Word >>, TRUE),
    Field(Tag(name) \o << "\"", Word, "white", ":", ")", "\"" >>, name,
          << Word, "white", ":", ")" >>, TRUE),
    Field(Tag(name) \o << "white", "(", Word, "\"", ")" >>, name,
          << "(", Word, "\"" >>, TRUE),
    Field(Tag(name) \o << "\"", Word, "\\", "\"", "\"" >>, name,
          << Word, "\"" >>, FALSE),
    Field(Tag(name), name, NotGiven, FALSE) }

Junk_ == Field(<< Word, "white" >>, "none", NotGiven, TRUE)
Close == Field(<< ")" >>, "none", NotGiven, TRUE)

ReadsField(it) ==
  LET p == NumberOf(<< it.name >>)
  IN  due' = IF due.closed THEN due
             ELSE [ due EXCEPT !.regular = @ /\ it.regular,
                               !.closed = it = Close,
                               !.par[p] = IF it \in { Junk_, Close } THEN @ ELSE it.value ]

PutField ==
  /\ phase = "body" /\ Quiet /\ stream.last = "WSRCParser" /\ lines < MaxLines
  /\ \E it \in (UNION { FieldsOf(name) : name \in FieldNames }) \cup { Junk_, Close } :
       line' = it.pieces /\ ReadsField(it)
  /\ lines' = lines + 1
  /\ UNCHANGED << formats, mime, wsrc, writer, wire, stream, phase, had_cr, fed,
                  calls, given >>

PutWsrc ==
  /\ line # << >> /\ stream.last = "WSRCParser"
  /\ wsrc' = WSRCParser_put_character(wsrc, Head(line))
  /\ line' = Tail(line)
  /\ UNCHANGED << formats, mime, writer, wire, stream, phase, had_cr, lines, fed,
                  calls, given, due >>

(***************************************************************************)
(* A text: its characters by number, returns and newlines.                 *)
(***************************************************************************)
Ordinary == Cardinality({ i \in DOMAIN fed : fed[i] > 0 }) + 1

PieceOf(c) == CASE c = CR -> "\r" [] c = LF -> "\n" [] OTHER -> "other"

(* Line ends are put where somebody looks at them. *)
Characters ==
  IF stream.last = "MIMEParser" \/ stream.copy \in { "NetToText", "HTCopyNoCR" }
  THEN { CR, LF, Ordinary } ELSE { Ordinary }

(* The calls that putting `text' makes to the last stream, and whether     *)
(* NetToText then holds a return.  HTCopy puts a block, which a MIME       *)
(* parser that was still at the header hands on by characters.             *)
One(c)        == Call("put_character", << c >>)
OneByOne(text) == [ i \in DOMAIN text |-> One(text[i]) ]

Passed(c) == NetToText_put_character(had_cr, c)

(* An element of generated HTML: its bracket, its name, the other bracket. *)
Tagged(n) == << One(n), Call("put_string", << n + 1, n + 2 >>), One(n + 3) >>

Puts(text, made, hold) ==
  /\ fed' = fed \o text /\ calls' = made /\ had_cr' = hold
  /\ UNCHANGED line

PutText ==
  /\ phase = "body" /\ Quiet /\ stream.last # "WSRCParser"
  /\ Len(fed) < MaxChars
  /\ \E c \in Characters :
       IF stream.last = "MIMEParser"
       THEN fed' = Append(fed, c) /\ line' = << PieceOf(c) >> /\ UNCHANGED << calls, had_cr >>
       ELSE \/ /\ stream.copy = "HTCopy"
               /\ \/ Puts(<< c >>, << One(c) >>, had_cr)
                  \/ Puts(<< c >>, << Call("write", << c >>) >>, had_cr)
                  \/ Puts(<< c, Ordinary + 1 >>,
                          << Call("write", << c, Ordinary + 1 >>) >>, had_cr)
            \/ /\ stream.copy = "HTCopyNoCR"
               /\ Puts(<< c >>, OneByOne(HTCopyNoCR(c)), had_cr)
            \/ /\ stream.copy = "NetToText"
               /\ Puts(<< c >>, OneByOne(Passed(c).passed), Passed(c).had_cr)
            \/ /\ stream.copy = "HTMLGenerator" /\ c = Ordinary
               /\ \/ Puts(<< c, c + 1, c + 2, c + 3 >>, Tagged(c), had_cr)
                  \/ Puts(<< c, c + 1 >>, << Call("put_string", << c, c + 1 >>) >>, had_cr)
                  \/ Puts(<< c >>, << One(c) >>, had_cr)
  /\ UNCHANGED << formats, mime, wsrc, writer, wire, stream, phase, lines, given, due >>

(***************************************************************************)
(* The calls to the last stream, and the end of it all.                    *)
(***************************************************************************)
Take ==
  /\ calls # << >> /\ Ready
  /\ LET it == Head(calls)
     IN  /\ given' = given \o it.chars
         /\ IF stream.last = "SocketWriter"
            THEN CASE it.method = "put_character" -> HTWriter_put_character(Head(it.chars))
                   [] it.method = "put_string"    -> HTWriter_put_string(it.chars)
                   [] it.method = "write"         -> HTWriter_write(it.chars)
            ELSE UNCHANGED writer
  /\ calls' = Tail(calls)
  /\ UNCHANGED << formats, mime, wsrc, wire, stream, phase, had_cr, line, lines, fed, due >>

(* Freeing a stream frees the next one; a MIME parser that has no target   *)
(* yet does not free its sink.  Aborting comes to the same.                *)
Free ==
  /\ phase \in { "header", "body" } /\ Quiet
  /\ phase' = "freed"
  /\ IF stream.last = "SocketWriter" THEN HTWriter_free ELSE UNCHANGED writer
  /\ wsrc' = IF stream.last = "WSRCParser" THEN WSRCParser_free(wsrc) ELSE wsrc
  /\ UNCHANGED << formats, mime, wire, stream, had_cr, line, lines, fed, calls, given, due >>

Write ==
  /\ WriterNext
  /\ UNCHANGED << formats, mime, wsrc, doc >>

StreamsNext ==
  \/ Define \/ DefineLibrarys
  \/ \E it \in Openings : Open(it)
  \/ PutLine \/ PutPiece \/ PutField \/ PutWsrc \/ PutText \/ Take \/ Free
  \/ Write

StreamsSpec == StreamsInit /\ [][StreamsNext]_streamsVars

----------------------------------------------------------------------------

(* The streams' states are those their code has; a parser has a target     *)
(* once it steps aside, and an unconverted format is not set up.           *)
TypeOK ==
  /\ MimeOK /\ WsrcOK /\ WriterOK
  /\ phase \in { "define", "header", "body", "freed", "failed" }
  /\ had_cr \in BOOLEAN /\ lines \in Nat
  /\ phase \in { "header", "body", "freed" } => stream.last # "none"
  /\ stream.last = "WSRCParser" \/ wsrc = HTWSRCConvert

(* HTWriter: as long as the system takes the buffer whole, the other end   *)
(* receives what the stream was given, in order and once, however          *)
(* characters, strings and blocks take turns, and all of it once the       *)
(* stream is freed.                                                        *)
SentInOrder ==
  ~ writer.failed /\ ~ writer.short =>
    /\ stream.last = "SocketWriter" => wire \o Unsent = given
    /\ writer.job = "freed" => wire = given

(* HTWriter: unless a write failed, nothing but the terminator of a string *)
(* that fits exactly is ever stored beyond the end of the buffer.          *)
OverrunIsTheTerminatorOnly == ~ writer.failed => writer.past <= 1

PutBy(made) == FlattenSeq([ i \in DOMAIN made |-> made[i].chars ])

(* HTMIME: once a header of understood lines is over, the format of the    *)
(* rest is the last one the header gave, folded or not and whatever other  *)
(* fields stood between; the stack was set up for it, and gets the whole   *)
(* of what follows and nothing else.                                       *)
HeaderIsUnderstood ==
  mime # NoMime /\ phase = "body" /\ line = << >> /\ due.regular /\
  stream.last \notin { "MIMEParser", "WSRCParser" } =>
    /\ mime.format = due.format
    /\ given \o PutBy(calls) = PutBy(stream.prefix) \o fed

(* HTWSRC: as long as every field has a value and no quote is escaped, the *)
(* parameters are those of the fields of their names up to the end of the  *)
(* list, with all their delimiters, and so is the link that is shown.      *)
ParametersAreOfTheirFields ==
  stream.last = "WSRCParser" /\ line = << >> /\ due.regular =>
    /\ wsrc.par_value = due.par
    /\ wsrc.link # << >> =>
         wsrc.link = << due.par["ip-name"], due.par["tcp-port"],
                        due.par["database-name"] >>

(* HTFormat: NetToText passes on all that is put but the returns before a  *)
(* newline, and one at the very end, of which it cannot know yet.          *)
Kept == { i \in DOMAIN fed : fed[i] = CR => i < Len(fed) /\ fed[i + 1] # LF }

(* The places of `fed' in S, in their order.                               *)
Lists(places, S) ==
  /\ { places[k] : k \in DOMAIN places } = S
  /\ \A j, k \in DOMAIN places : j < k => places[j] < places[k]

(* NetToText puts one character at a time.                                 *)
Waiting == [ k \in DOMAIN calls |-> Head(calls[k].chars) ]

NewlinesAreTranslated ==
  stream.copy = "NetToText" =>
    \E places \in [ DOMAIN (given \o Waiting) -> DOMAIN fed ] :
      /\ Lists(places, Kept)
      /\ given \o Waiting = [ k \in DOMAIN places |-> fed[places[k]] ]

=============================================================================
