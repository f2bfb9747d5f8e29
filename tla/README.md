# libwww93 in TLA+

A verification project for libwww93, the CERN World-Wide Web library of 1993
revised as C89 (`src/Library/Implementation/`): what the library's components
do, as TLA+ modules translated from their code, what TLC finds on small
instances of them, and what TLAPS proves of them for instances of every size.

The library is sequential: one thread, blocking input and output, state in
static variables and in objects handed from call to call. What makes it hard is
therefore not concurrency but long sequences of legal calls: objects that call
each other character by character, state that outlives the document it was
meant for, tables that must be in order, arrays at their limit, connections
that are kept and reused, and errors reported in one of several conventions.

## The system

How the parts work on one document: `HTAccess` turns an address into an anchor
(`HTAnchor`) and calls the protocol module registered for it (`HTTP`, `HTFTP`,
`HTNews`, `HTGopher`, `HTFile`, ...). The protocol module opens a connection,
asks `HTFormat` for a stack of streams from the format it receives to the one
wanted, and copies the connection into it. For HTML that stack is the parser
(`SGML` with the tables of `HTMLDTD`), which calls a structured object
(`HTML`), which writes styled text (`HText`, supplied by the application).
`HTHistory` remembers the anchors visited.

| Component | State | Operations | What makes it correct |
|---|---|---|---|
| DTD tables, `HTMLDTD.c`, and their search, in `SGML.c` | constant tables; the bounds of a bisection | find an element, an attribute, an entity | every name of a table is found, no other is, the search ends |
| SGML parser, `SGML.c` | one of 16 states, the word being read, the stack of open elements, the attribute slots, the current tag | one character; free, abort, new | the target hears of properly nested elements whatever the markup; attributes are those of their own tag; literal text is whole |
| HTML object, `HTML.c` | a text made on demand, a pending change of style, the style stack (at most 20), the title | start and end of an element, character, entity, free, abort | style follows the innermost element; the stack follows the open elements; nothing is written to a text that does not exist; anchors end |
| Anchors, `HTAnchor.c` | parents by address, their children, links and their reverse | find, link, delete, set document and address | an anchor with a loaded document or an incoming link is not deleted; sources and destinations agree; a deleted anchor is never found again |
| Lists, `HTList.c`, and history, `HTHistory.c` | list of anchors, newest first | record, back, recall, move to the next or previous link | the current document is the newest entry; "can move" agrees with "moves" |
| Access, `HTAccess.c`, `HTInit.c` | registered protocols, the output stream | load, search, home page | every status a protocol module returns is one the loader expects |
| FTP, `HTFTP.c` | cached control connections, the one in use, one listening socket | connect, command and reply, transfer | replies are read from the connection the command went to; a refused command is an error |
| Formats, `HTFormat.c` | registered conversions with their cost; an input buffer shared by all connections | build a stack, cost of a stack, copy | the stack built is the one whose cost was asked; no byte of one connection is read on another |
| MIME parser, `HTMIME.c` | header state, the value being read, the body's stream | one character, free, abort | fields as the header says them, folded lines included; the body's stream is freed once |
| Writers, `HTWriter.c`, `HTFWriter.c` | buffer and position | put, flush, free | what is written is what was put, once and in order, also after a short write; the buffer is not overrun |
| Balanced tree, `HTBTree.c` | nodes with the depths of both subtrees | insert, next | sorted, balanced, each object visited once |
| Addresses, `HTParse.c`, `HTRules.c` | rules | parse, simplify, relate, escape, translate | resolving a relative address gives back the one it was made from; rules apply in order |
| News, `HTNews.c`; HTTP, `HTTP.c` | a connection kept between requests; one request with a retry | load | a lost connection is retried once and its failure reported; what is opened or allocated is released once |
| Gopher, Telnet, WAIS, local files, styles, atoms, chunks, alerts, TCP helpers | little or none between calls | | used as values or as the environment of the others |

How the parts interact, and how the model keeps that:

- `SGML.c` calls the object's `start_element`, `end_element`, `put_character`,
  `put_entity`, `free` and `abort` synchronously through a table of functions
  (`HTStructuredClass`, SGML.h:128-139). The model queues the calls one
  character of input causes and makes them one at a time; the parser takes no
  character in between. The same protocol of calls is a module of its own
  (`HTStructured`), which the parser is shown to implement and under which the
  HTML object is checked and proved.
- The protocol modules share the process's sockets and **one** input buffer
  (`HTFormat.c`: `input_file_number`, `input_buffer`, set by `HTInitInput`), and
  keep connections between loads in static variables. `HTInput` is that shared
  state; `HTFTP`, `HTNews`, `HTTP`, `HTGopher`, `HTFile` are instances over it,
  composed by `HTAccess`, in which loads follow one another for ever.
- Streams call the next stream synchronously. `Streams` sets up each stack that
  `HTFormat` can build and puts a document into it; the calls to the last stream
  are queued like the parser's.
- The tree, history, address and rule routines are called by the client and by
  nothing else in the library; `Client` runs each of these parts by itself.

## Modules

| Module | Models | Correspondence |
|---|---|---|
| `HTMLDTD` | the tables of `HTMLDTD.c`, `strcasecomp` of `HTString.c` | the tables in the order they are written in; `Lookup` is the result of the bisection on them, so a name the code cannot find is not found in the model |
| `SGMLLookup` | the loop written three times in `SGML.c` (95-117, 149-161, 262-273) | `low`, `high` are the variables of the loop, `Probe` is one round, `GiveUp` its exit; names are their ranks in the comparison's order |
| `MCSGMLLookup` | instances: every small table, and the tables of the library | |
| `SGML` | `SGML.c` | `state`, `string`, `element_stack`, `current_tag`, `current_attribute_number`, `present`, `value` are the fields of `struct _HTStream`; `S_text` ... `S_junk_tag` the cases of `SGML_character`'s switch, helpers under the names of the code; a whole run of letters and digits is one character of the model, because the parser treats its members alike |
| `HTStructured` | `HTStructuredClass` of `SGML.h` and the contents of `SGMLContent` | the abstract specification: which call may follow which |
| `SGMLStream` | the parser with a target that notes the calls it receives | `Parse(c)` is `SGML_character`, `Receive` one call arriving, `EndDocument` `SGML_free` or `SGML_abort`, `NewDocument` `SGML_new` |
| `HTML` | `HTML.c` | the object is a record with the fields of `struct _HTStructured`; every routine an operator from the object before to the object after; HText, which the application supplies, is a record of what the calls on it mean (made, ended, style, open anchors, in a comment) |
| `HTMLObject` | the object fed with every stream of calls `HTStructured` allows | `Step(c)` is one call |
| `MCHTMLObject` | instances: sets of elements of each kind the code tells apart | |
| `HTAnchor` | `HTAnchor.c` | a pointer is a position of `heap`, never used twice; lists newest first as in `HTList`; the operations are atomic, except deletion, whose two mutually recursive routines run segment by segment on a stack of activations (`calls`), so that what a nested call did to the caller's objects is seen |
| `MCHTAnchor` | instances: documents that share an entry of the hash table | |
| `SGMLLookup_proofs`, `SGMLStream_proofs`, `HTMLObject_proofs` | theorems about the search, the tables and the parser, the object | |
| `HTAnchor_proofs`, `HTHistory_proofs`, `Streams_proofs`, `HTAccess_proofs`, `HTAccessKept_proofs` | theorems about the anchors, the history, the streams, the loads, the connections kept between loads | |
| `HTInput` | the sockets, `HTInitInput` and `HTGetChararcter` of `HTFormat.c` | `net` holds the sockets under the numbers the system gives them (the lowest free one, so a number kept too long is somebody else's later) and the input's file number and buffer; what the other side sends is a sequence of replies, lines and notices, and a read takes all that has come |
| `HTFTP` | `HTFTP.c` | `connections`, `control`, `master_socket`, the fields of `struct _connection`; one action for each exchange of command and reply and for each step of a transfer, at the place `pc` names; the server's part is in the same actions: what it may answer to the command |
| `HTNews` | `HTNews.c` | `s`, the retry counter; greeting, command, article, list and group |
| `HTTP` | `HTTP.c` | the socket, the repetition in the old protocol, the three kinds of answer |
| `HTGopher` | `HTGopher.c` | menus taken apart by fields, searches, directories of people, files |
| `HTFile` | `HTFile.c` (as far as it is compiled), `HTTelnet` | the ways out of `HTLoadFile` |
| `HTAccess` | `HTAccess.c` | `HTLoadAnchor` and `HTLoad`: what is made of the address, the call of the protocol, the status it returns, the text that must be there; and servers that close what is kept |
| `MCHTAccess` | instances: one or two FTP hosts, a request of every kind | |
| `HTFormat` | `HTFormat.c`, `HTInit.c` | `HTPresentations` as a list of conversions, newest first, or NULL until it is made; `HTStreamStack`, `HTStackValue`, `HTCopyNoCR`, `NetToText` |
| `HTMIME` | `HTMIME.c` | the states of the parser; a header line is a sequence of whole words and marks |
| `HTWSRC` | `HTWSRC.c` | the states of the parser of WAIS sources, its parameters, the text it shows |
| `HTWriter` | `HTWriter.c` | buffer and write position, `flush` as a loop of writes which the system takes whole, in part or not at all; `wire` is what the other end has received |
| `Streams` | the stacks `HTStreamStack` builds and the loops that feed them (`HTCopy`, `HTCopyNoCR`, `HTParseSocket`, the generator of `HTMLGen.c`, the presentation of `HTPlain.c`) | one document through one stack; `given` what reaches the last stream, `due` what a reader of the header would take it for |
| `HTBTree` | `HTBTree.c` | nodes are numbers, with the fields of `HTBTElement`; insertion, both rotations, the depths as the code computes them; reading a son that is not there is the state "crashed" |
| `MCHTBTree` | instance: ten names of which the first six come in a fixed order | |
| `HTList` | `HTList.c` | a list is a sequence, newest first |
| `HTHistory` | `HTHistory.c`, with the lists of links of `HTAnchor.c` | `history` is the list; an anchor is its document and the number of its link; `returned` is history of the model: the last answer |
| `Browsing` | the abstract specification of `HTHistory` | a trail of places, oldest first; documents whose links are in the order of the text |
| `HTParse` | `HTParse.c` | addresses are sequences of delimiters and words; `scan`, `HTParse`, `HTSimplify`, `HTRelative` as functions; `here`, `there` the last two addresses followed |
| `HTRules` | `HTRules.c` | rules as a list, oldest first (`PUT_ON_HEAD` is not defined), `HTAddRule`, `HTClearRules`, `HTTranslate`, `HTSetConfiguration` |
| `Client`, `MCClient` | the five parts, each by itself (`part` is chosen at the beginning) | |

The parser and its object are composed by assume and guarantee. The parser guarantees the protocol
(`KeepsToTheProtocol`, the abstract specification `HTStructured!Spec` as a
property of `SGMLStream` under the mapping of variables of the same name), and
`HTMLObject` assumes exactly it. Neither module needs the other's state, which
is what makes both checkable. The protocol modules, on the other hand, are
composed over the state they share, because what goes wrong between them goes
wrong through it: a reply left in the buffer by one load is read by the next.

`Browsing` is what a user takes a history for, and `HTHistory` is shown to
implement it (`HistoryIsATrail`, with `Trail == INSTANCE Browsing WITH` the list
read from its other end, and each list of links likewise). What makes the
refinement worth stating is that everything counts from the wrong end: entries
are numbered from the oldest but stored newest first, a link's position changes
with each link added after it, and `moveBy` replaces two entries at once. The
answers are part of the abstract state, so that each call shows the same anchor
in both.

## Runs

| Run | Question | Bounds, and why they are enough |
|---|---|---|
| `lookup_small` | Is the bisection exact on ordered tables, never wrong on others, and does it end? | every table, ordered or not, of at most 4 entries out of 5 ranks, every key with one below and one above all ranks: empty, odd, even, repeated entries and both ends occur; and the library's own tables of elements and attributes, of which HEAD and SRC are out of place and must hide no other name. 348,000 states; the theorems cover every length |
| `stream` | Does the parser keep to the protocol, agree with its target on what is open, give each element its own attributes and pass literal text through whole? | documents of any length over 15 symbols: elements of content MIXED (DL), LITERAL (XMP), CDATA (TITLE) and EMPTY (NEXTID), two attributes that share slot 0, an entity, every mark the switch distinguishes (one of the two quotes, which have the same code) and white space. Bound: `MaxDepth` = 2 open elements, which is the least at which end tags can cross and at which an unmatched end tag pops something |
| `object_styles` | Under every stream of the protocol: right style, stack equal to open elements, text there when needed, anchors ended? | 16 elements: one or more of each branch of `HTML_start_element`; anchors with each combination of attributes the code asks for; `MaxDepth` = 3 below `MAX_NESTING` = 4, so that a pending style can be replaced twice |
| `object_deep` | Nested beyond the stack, does a push leave the array? And is what HTMLToC shows outside preformatted elements in a comment? | `MAX_NESTING` = 3 (two elements), `MaxDepth` = 4, so that up to two elements are refused |
| `object_overflow` | Does a pop leave the array? | **It does** (HTML.c:487): an element that was refused by the full stack (448-454) is popped all the same when it ends, so the last ends of the document pop the bottom entry. HTML.c:39 says of the limit "Should be checked by parser"; the parser does not check it |
| `anchors` | Is what the collection of documents goes by right, are families whole, is there one anchor per address, and where is deletion safe? | `MaxAnchors` = 4 anchors (3 documents and a place, or fewer documents and more places), `MaxLinks` = 2 links at a time, made again after deletion, `MaxCalls` = 6 activations, two for each document; addresses are symmetric, all in one entry of the hash table |
| `anchors_delete` | Do the links of an anchor that exists lead to anchors that exist? | **They do not**: `deleteLinks` leaves the main link set (HTAnchor.c:240), see below |
| `loads` | Do kept connections stay in step with their servers, are losses repaired, is every socket accounted for, do loads end, where can they wait in vain, and what ends the program? | `MaxSockets` = 3: a kept connection, a data or second connection, and the listening socket, so that running out of sockets occurs too; one FTP host in both transfer modes, a news server with `MaxArticles` = 1, menus of `MaxLines` = 2, one request of every kind; servers answer or close. `MaxUnread` = 0: no load starts while a kept connection holds a reply that an earlier load left unread (see below: those are lost for the next one); `Mixed` = FALSE: while a protocol keeps a connection another one that reads the shared input is not asked. 298,000 states |
| `loads_host` | Does a document come from the host it was asked of? | two FTP hosts, `MaxSockets` = 4. **It does not** (HTFTP.c:362): the cached connection is found but `control` still is the other host's |
| `client` | What comes out of every stack of streams? Is the tree in order? Is the history a trail? Do relative names lead back? Do the wildcards of rules stand for what they say? | Streams: each stack over a writer's buffer of `BUFFER_SIZE` = 3, `MaxChars` = 3, one presentation of the client's (`MaxDefined`), headers and fields of `MaxLines` = 2 lines, so that a value is folded, a line ignored, and the buffer filled exactly, overfilled and flushed twice. Tree: six names out of four, so that all rotations occur, at the top and below. History: two documents, `MaxHistory` = 3, `MaxLinks` = 2, one step sideways either way. Names: 15 references, every address they lead to up to `MaxAddress` = 13 delimiters and words, which is three directories. Rules: every list of `MaxRules` = 2 rules of all kinds, with the wildcard at either end, in the middle or missing, and names shorter than the pattern. 1.1 million states |
| `tree_ten` | Is the tree still in order at ten names? | the first six in a fixed order, the others in any. **It is not**: the insertion reads a son that is not there (HTBTree.c:241, 320). No order of nine names goes wrong; for the order TLC finds, 1 8 7 6 5 3 2 4 9 10, the C program crashes as well |
| `rules_order` | Is the most recent of the rules that match applied first? | the rules alone, `MaxRules` = 2. **It is not**: HTRules.c:121 says "The most recently defined rules are applied first.", and HTRules.h:111-112 that new rules are loaded on top; they are appended (HTRules.c:84), so the oldest applies first, and the first that passes or refuses decides |

The bounds of depth stand in guards (`Len(element_stack) <= MaxDepth` in
`start_element`, `Len(open') <= MaxDepth` in `Step`); documents, words and
repetitions are not bounded otherwise. Words are not bounded either: outside
literal elements only a word's being a name matters, so a string of more than
one run is represented by `Longer`. `loads` has no bound on the number of loads.

CHECK_DEADLOCK is FALSE in all runs. A lookup is one call and ends, and so do a
document and the filling of a tree or a list; the others model errors of memory
as states in which nothing more happens ("crashed" in the parser and the tree,
"null anchor" and "stack underrun" in the object, "use after free" and "stack
overflow" of the anchors, "exit", "double free", "null text" and "null pointer" of
loads). A load also really stops: it reads without a timeout, so it waits for
ever for what the server does not send, or sent and was thrown away.

Each property of a passing run has a mutant, named in `PROJECT.json`: a slip
written next to the routine it spoils (a dropped guard, a reported wrong name, a
lost character, a style passed on once only), under which TLC finds the property
violated.

## Fairness

`EveryLookupEnds` of `SGMLLookup` assumes weak fairness of the loop's rounds,
which a single-threaded loop without calls satisfies.

`HTAccess` assumes `WF_vars(pc # "idle" /\ HTLoadAnchor)`: once a load is under
way the program, which is one thread, goes on with it as long as there is a next
step; a read with nothing to read is no step. Nothing is assumed of users, who
may stop asking. A server's answer, or the loss of the connection, is part of the
step that writes the command, so its being late is not modelled and is not
waited for; a server need not close a kept connection ever. Under that
`LoadsEndOrWait` says that each load ends, or blocks in a read for good: the loops
that try again (a lost connection in FTP and News, the old protocol in HTTP) do
not go round for ever.

The other specifications assume no fairness: documents may stop anywhere, and
nothing in the parser, the object, the streams or the client's parts waits.

## Proofs

Checked by TLAPS, for every value of the constants.

Each specification is proved about through one inductive invariant: the initial
states satisfy it, every action preserves it (a lemma per action or routine),
and the properties follow. No property below is inductive by itself; what the
invariant adds is what the code relies on without saying so.

*The bisection* (`SGMLLookup_proofs`, for every set of tables and keys).
`LookupTypeOK`: the bounds stay in order and within the table.
`EntriesInPlaceAreAlwaysFound`: an entry with nothing but smaller names before it
and nothing but larger ones after it is found, however these are ordered among
themselves. `KnownNamesAreAlwaysFound` follows: in a table in order no name it
holds is reported unknown. `FoundNameIsAlwaysTheKey`: whatever the order, the index
returned is that of the name looked for. The invariant that carries the second
theorem says that while the search goes on an entry in place with the name looked
for lies between the bounds; its being in place is what makes discarding a half
preserve it.

*The tables* (`SGMLStream_proofs`, for the tables of `HTMLDTD.c` and every name).
`NumberedAttributeIsTheNamed`: what the search numbers as the attribute of a tag
is an attribute of that tag, at that place, with that name, or nothing. The
result of the bisection is a recursive function of its bounds, which the proof
first has to show to exist (by running the rounds often enough).

*The parser* (`SGMLStream_proofs`, for every set of characters, entities and every
`MaxDepth`). `StreamTypeOK`. `TargetAlwaysAgrees`: when no call is under way the
target has open what the parser has on its stack. `AttributesAlwaysOfThisTag`:
`start_element` is told the attributes of the tag just read, values included,
though several share a slot and slots are used again. `LiteralTextIsAlwaysWhole`:
what a literal element shows, with what the parser holds back of a possible end
tag, is what was read. `StreamImplementsProtocol`: `SGMLStream` implements
`HTStructured`, step by step. The invariant `IInv` says how the calls still
queued lead from the elements the target knows of to those on the stack (an
element inserted, elements popped down to the one that ends, text, an entity),
in which content each state of the parser can be, that literal elements are
only ever innermost, and what the slots hold while a tag is read. The protocol
is what the object below assumes, so both halves of assume and guarantee are
proved.

*The HTML object* (`HTMLObject_proofs`, for every `MAX_NESTING`, every set
`Calls` and every `MaxDepth`). Whatever the depth of nesting: `ObjectTyped`;
`TextAlwaysExistsWhenUsed`: no call is made on a text that does not exist;
`FreeTextAlwaysInStyleDue`: text outside literal elements is in the style due;
`AnchorsAlwaysEndWithTheirElement`; `FreedDocumentAlwaysHasText` (only proved);
`PlainTextAlwaysCommentedOut`. Under `MaxDepth < MAX_NESTING`:
`StackAlwaysMatchesElements`, `NestingAlwaysStaysInStack` and
`StyleAlwaysOfInnermostElement`, the comment of HTML.c that ending an element
returns to the style in effect before it. That hypothesis is what the code
expects of the parser ("Should be checked by parser"); `object_overflow` shows
it is needed. What carries the text is that until it exists, and is in the
style wanted, a change of style is pending (`Settled`): routines that append
unconditionally do so only after `UPDATE_STYLE`, or inside elements whose start
has set a style. Most routines leave the stack alone, so the proof has a lemma
per routine (it `Keeps` the object) and a step per call. The proof of the last
theorem showed that the property as it stood was false of one element that no
run had: DLC is an element (HTMLDTD.c:146), but the style filed under that name
(HTML.c:584) is that of a compact DL, and `HTML_start_element` has no case for DLC.
The property now says so, and `object_styles` has the element.

*The anchors* (`HTAnchor_proofs`, for any addresses, tags and hash, and any
bounds on anchors, links and activations). `AnchorsTyped`.
`SourcesAlwaysTheLinksMade`: what a document has heard of is the links made to
it. `ChildrenAlwaysHaveTheirParent`: the list of children is the set of the
places that exist, each once. `AlwaysOneAnchorPerAddress`. All are about
moments between operations; the invariant is about the middle of a deletion,
with any number of activations of its two routines on the stack: a place that
has left its parent's list but is not yet freed is named by exactly one
activation; while an anchor's links are deleted, its destinations have heard of
it no more often than links are left; freed documents stay in the table. After
a use of freed memory, which the model can reach (below), nothing but the types
is claimed.

*The history* (`HTHistory_proofs`, for any documents, any number of links and any
length of the history, in which only `MaxHistory \in Nat`, `Offsets \subseteq Int`
and that NULL is no anchor are assumed). `HistoryImplementsTrail`: the list of
`HTHistory.c` implements `Browsing`. The refinement needs an invariant: a
document's links are numbered from the end of their list
(`children[d][i]` is link `Len + 1 - i`), the links that exist are exactly those
numbers, and the history and the links hold anchors or nothing, so that NULL
answers mean what they seem to. Lemmas tell what adding, removing and reading do
to a list read from its other end; then there is one lemma for each routine.
`moveBy` is the long one: the position of a link and its number add up to the
length of the list, so the offset changes its sign, and both ends of the list
agree with both ends of the numbers. The theorem is about the history by itself;
in `Client` the other parts leave it alone.

*The streams* (`Streams_proofs`, for a buffer, texts, headers and tables of any
length). `StreamsTyped`. `AlwaysSentInOrder`: as long as writes are whole, what
was given to the writer is what has arrived followed by what it still holds.
`OverrunAlwaysTheTerminatorOnly`: as long as no write fails, nothing but the
terminator of a string is stored past the buffer, and only one place past it.
`NewlinesAlwaysTranslated`: what `NetToText` has passed on is the text without
the returns before a newline, in its order, up to a last return of which it
cannot know yet. The writer's methods flush in the
middle, and a flush goes on in rounds; the invariant relates buffer, the part
of it that is sent and the characters the method still holds to both ends
(`Fills`, `Delivers`), before, during and after a flush. The overrun is bounded
only for strings that are shorter than the buffer, as the comment at the
buffer's size says ("Strings must be smaller than this buffer size",
HTWriter.c); the strings of the model have at most two characters, so the theorem assumes
`BUFFER_SIZE >= 2`. The theorems are about `StreamsSpec`, which is the streams'
part of `Client` by itself.

*The loads* (`HTAccess_proofs`, for any hosts, any requests, any number of
sockets, and whether or not protocols share the input). `AccessTyped`: the state
of the loader, of the five protocol modules and of the sockets stays in range.
`LoadsLeakNoSocket`: a load that succeeds has closed what it opened, but for the
connections that are kept, the listening socket and a directory's data.
`OneConnectionToAHost`: FTP's list never has two connections to one host.
`LinksAreOfTheirLine`: a Gopher menu's links, but for those to the Web, are of
their line. The assumptions: `RequestAssumption` (what is asked for by FTP is on
this host or one that has a server for it), `HostAssumption` (hosts are no
placeholders of the model, and memory for a connection to each FTP host and one
more can be had), `BoundAssumption` (numbers are numbers). The invariant says who
owns a socket: while a load runs, whatever is open was open before, or is named
by a connection on FTP's list, by `master_socket`, or by the `s` of News, HTTP or
Gopher. HTTP and Gopher name one only at the labels at which they use it, so
nothing is left of it when the load returns. Three things make that inductive.
First, `close_connection` may take a connection off the list before, while or
after its socket is closed, and which connection that is depends on `control`:
the one in use, if listed, is the first. Second, a new connection needs an entry
that is not listed; there is one because a list with one connection to a host is
no longer than there are hosts, which `FreeConnection` proves by counting. Third,
a failed load may lose sockets, so the claim for the load after it starts from
what was open when that began. A step of the proof is a routine of one of
the protocol modules; `HTGetChararcter` and the reading of a reply are proved about once
(`GetFits`, `FtpReplySteps`, `NewsReplySteps`). TLC checked the invariant with
one FTP host to the end, and with two for the first 30 million states.
`LostOnesAreTriedAgain` (for one FTP host) is the action property
`IdleLossIsRetried`: a load gives up at the port command only on a connection it
has made itself. Its invariant (`Again`) is that the list is empty or just the
connection in use, that losing it empties the list, and that a load which has
been sent round once either has not connected yet or is on a new connection.

*The kept connections* (`HTAccessKept_proofs`, for one FTP host and `Mixed` = FALSE,
and any number of sockets, articles, lines and requests, whatever earlier loads
left unread). `KeptOnesAreTheirOwn` and `EarlierRepliesAreRead`: between loads what
is kept is open, to its host, in the type its flag says, and no reply is left on
it but those of an abandoned transfer. Both hypotheses are needed: with two
hosts, `control` may be another host's connection (HTFTP.c:362, the run
`loads_host`), and what is read or forgotten is then that one's; and when protocols share
the input while one keeps a connection, TLC finds `RepliesAreAllRead` violated
(below). The invariant, `KeptNow`, says at each label at which a load can be what
may still be due on its connection, in the buffer and on the wire together: one reply
of those the server can give to the command sent there, two of a transfer, a reply
and the lines of a text, the notice of a server that has gone, or nothing. The type
of transfer needs care, because between the type command and its reply the server
has the new one and the flag the old: `InMode` says which of the two by whether
the reply that is due is a good one. A connection whose transfer was abandoned
(`owes`) is left out; the flag
stays until the connection is closed. What remains is that other
protocols do no harm: `Apart` says that only one of FTP and News keeps a
connection at a time, that no other protocol reading the shared input runs then,
and that HTTP's and Gopher's sockets are neither it nor the listening socket.

Where an argument needs induction (on the rounds of the bisection, the depth of the
style stack, the length of a list of links) it takes the least counterexample:
the library's induction theorems have an operator as a parameter, which the
provers cannot instantiate.

Only model-checked:

- `EveryLookupEnds` and `LoadsEndOrWait`: liveness is out of the prover's reach.
- `TreeIsInOrder` and `RelativeNamesLeadBack`: `HTBTree` and `HTParse` have
  recursive operators, and the prover proves nothing in a module with one or
  above it (`Client`). What the recursion computes for every input would need
  induction over data.
- `WildcardsStandForText`, `HeaderIsUnderstood`, `ParametersAreOfTheirFields` and
  `OrderlyDeletionIsSafe` are stated with folds over the input (a list of rules,
  a header flattened to words, a graph); the same holds of them.
- Every safety property of the loads that a run checks is proved, but for
  `NoOtherWaitIsInVain` and `OnlyLossesEndTheProgram`. Three of them,
  `KeptConnectionsAreTheirOwn`, `RepliesAreAllRead` and `IdleLossIsRetried`, are
  proved and checked for one FTP host only; for several the code does not keep
  them, and only `OneConnectionToAHost` is left.

What the less obvious of these properties rest on:

- `KeptConnectionsAreTheirOwn` and `RepliesAreAllRead` (between loads) are about
  the list of connections on one side and sockets and wires on the other. They
  need each other: a connection whose replies are not all read answers the next
  command with the reply to the one before, and its mode is then unknown (`owes`
  marks the transfers that were abandoned).
- `IdleLossIsRetried`: a connection lost between loads shows at the port
  command, and only one that this load opened itself may fail there.
- `NoOtherWaitIsInVain`: a load that is blocked waits for the reply that ends a
  transfer (HTFTP.c:920-928), and nowhere else, given that servers answer each
  command or close. So no routine reads more replies, lines or notices than the
  other side sends, at any of the places where a reply may come early, late or
  with another one.
- `OnlyLossesEndTheProgram`: when the loader exits on a status it does not know
  (HTAccess.c:326), that status was a lost connection's, negated twice.
- `SuccessLeaksNoSocket` compares the sockets open at the end of a load with
  those at its beginning. It excepts the data socket of FTP directories, which is
  never closed; loads that fail leak more (below).
- `HeaderIsUnderstood` compares the parser with a reader who sees the header by
  lines. `due.regular` leaves out headers the code misreads (below).

## Known disagreements

Five are runs (above). HTAnchor.c:228 says of deletion "All outgoing links from
parent and children are deleted", but `deleteLinks` follows the main link and
never clears it. In `anchors_delete` a document that is still referred to, so
not freed, keeps its place with a main link to a document that is freed later.
The same line makes deletion itself unsafe as soon as documents that are not
loaded refer to each other or to themselves in a circle (it recurses without end
or frees its own caller's objects), or a document that refers to others is
referred to twice (the second visit follows links the first has freed).
`OrderlyDeletionIsSafe` says where that cannot happen: documents in memory cut
the graph, and what is left has to be a forest, apart from leaves. A freed
document also stays in `adult_table`, so that the next search of its entry reads
freed memory; the model ends there too.

HTRules.c:121 is about the order of rules, above. The property of `rules_order`
compares the rules with a reader who goes through them from the last defined.

Others met while modelling, which the model reproduces and
no run is spent on:

- HTAnchor.c:94 compares the names of places with `equivalent`, which ignores
  case, under the comment "Case sensitive 920226".
- HTMLDTD.c:129 "Must be in alphabetical order.": HEAD stands before H1 (149),
  while the comparison puts digits before letters, and HEAD is never found.
- HTMLDTD.c:89 "Lists must be in alphatbetical order by attribute name": the
  list of IMG has SRC before ISMAP (105-109), and SRC is never found.
- SGML.h:33 of literal content "Recognised excat close tag only": for `<>`
  SGML.c:355 reads `name[-1]`, and ends the element when that byte is zero.
- SGML.h:35 of CDATA "recognize </ only": in a TITLE `<` opens any tag
  (SGML.c:335), and elements start.
- SGML.h:57-59 "tag openers are ignored except for that which opens a matching
  closing tag": in `<</XMP>` the second `<` is consumed by the mismatch
  (SGML.c:362) and the closing tag is text.
- HTML.c:230 of literal text "We guarrantee that the style is up-to-date in
  begin_literal": a heading that ends inside PRE leaves its change of style
  pending while literal text is appended.
- HText.h:68 "Anchors may not be nested": an A inside an A begins a second one
  (HTML.c:348).
- SGML.c:580: `</>` with no element open reads through a null pointer (state
  "crashed"). SGML.c:661-677: `SGML_new` leaves `present` uninitialized, which
  the model starts with all flags clear or all set; the flags are cleared before
  they are used, which is part of what `AttributesAreOfThisTag` shows.
- HTML.c:340-345: an A with HREF but no value, or with TITLE but no HREF,
  reaches a null pointer (status "null anchor").

In the loads and the client's parts:

- *FTP.* A closed head of the list stays `control` (HTFTP.c:168-170). The reply
  that ends a transfer may be read into the buffer together with the one before,
  and is thrown away when `HTInitInput` is called for the data (920): the program
  then waits for ever. A failed accept leaves that reply to the next load (904).
  `return -status` of a status that is already negative is positive (877, 892),
  which `HTLoad`'s caller takes for an impossible value and exits
  (HTAccess.c:326), whereas HTFTP.c:765-766 says "<0 if bad". CWD's first reply
  of class 1 is taken for the beginning of a transfer. The socket of a
  directory's data is never closed.
- *The shared input.* A socket number that Gopher leaked or FTP closed can be the
  one News holds: bytes that one protocol left in the buffer answer another.
  With `Mixed` = TRUE TLC finds `RepliesAreAllRead` violated.
- *News* reports a connection lost a second time as HT_LOADED (HTNews.c:1000,
  1031), after which `HTLoadAnchor` selects an anchor in a text that is NULL.
- *HTTP.* The socket stays open on two ways out (HTTP.c:141, 227) and a buffer is
  freed twice on another (449-450, 479-480).
- *Gopher.* A menu line that leads to a WWW address needs no port, so it may have
  no address either: it is written with a null address or with the name and
  address of an earlier line (HTGopher.c:215); without a name, a null text is
  appended. A line of a directory of people without a colon is searched through a
  null pointer (340). The socket stays open when the command cannot be written
  (611, 636).
- *Streams.* The continuation of a header line that is ignored is read as a line
  of its own (HTMIME.c:239), though line 30 says "Ignore the rest of this folded
  line". A newline in the middle of a field name that is still being compared
  is swallowed, and the line after it is ignored too (HTMIME.c:166-175), an empty header that ends in CR LF is not recognised, and the words of
  a value are joined (HTMIME.c:211-235). A WSRC escape is never left, and a field
  without a value takes the next field's name for it; without ip-name the text
  written is a null pointer (HTWSRC.c:364). After a short write the rest is sent
  from the buffer's beginning (HTWriter.c:47), and after a failed one the buffer
  is written past its end (75); a string's terminator goes one past the end when
  the string fits exactly. `NetToText` keeps a return at the end of a text for ever
  (HTFormat.c:578), whereas HTMIME.c:87 asks for one "which preserves single '\r'
  or '\n'". A MIME parser freed in its header does not free its sink.
  `HTPlain_free` does not end the text. Defining a
  presentation before the first use keeps the library's own from ever being
  defined, one for "*" too, which leaves the list empty but made (HTFormat.c:94,
  126); an HTML document for a format that has no sink ends the program.
- *Formats.* HTFormat.c:282 says of `HTStackValue` "Must return the cost of the
  same stack which StreamStack would set up." It takes the newest match, whether
  exact or to any format; `HTStreamStack` takes the newest exact one, and the
  oldest to any format if there is none.
- *Tree*: above. *History*: `HTHistory_canMoveBy` says yes though `moveBy` then
  answers none, if the neighbour leads nowhere; `moveBy` takes the entry before
  for the link the document was reached by (HTHistory.c:50), also if it was
  reached by a recall. `Browsing` says so too.
- *Names.* HTParse.c:311-316 promises a name that leads back. It does not for
  the same host with different ports (330, 344), for the directory a document is
  in, whose relative name is empty, and for a search that has a slash in it;
  `RelativeNamesLeadBack` leaves these out. Resolving "." or ".." on the top of a
  host leaves an address without a path ("http://h", 281-294), and the next
  relative name is then glued to the host's ("http://hb", 225).
- *Rules.* `HTSetConfiguration`
  accepts "map x" without an equivalent (260), and translating by it returns
  nothing or reads through a null pointer (172-176).

## Plan

Done, in this order: DTD and search, parser, protocol, HTML object, and their
proofs; anchors with deletion; the protocol modules over their shared input and
the loader; formats, MIME, WSRC and writer in stacks of streams; tree, lists,
history with its abstract specification, addresses, rules; and the history's proof.

Then the proofs of the parser and its refinement, the rest of the object, the
anchors, the streams, and of the loads what holds with any number of hosts. Last came what holds with one host: the connections
kept between loads.

Left, all about proof: what is said with folds (deletion in an orderly way, MIME
headers, WSRC parameters), once the provers can do induction over data.

## Not modelled

Whole components: name and port resolution (`HTTCP.c`: depends on the resolver),
alerts (terminal input and output), style sheet files (`HTStyle.c`), atoms,
chunks and strings (used as values), and the WAIS gateway (`HTWAIS.c`), which
calls a library that is not in the repository.

Within modelled components: the fields of anchors that are only stored (format,
title, methods, protocol, physical address) and `HTAnchor_setAddress`, which
nothing calls; `HTStartAnchor` of `HTMLDTD.c`, the choice of generator and the
error page in `HTML_new` and `HTLoadError`, contents of documents beyond what the
parser and the object tell apart, and character sets. Suffix tables of `HTFile.c`
and its directory listing, which the build leaves out (GOT_READ_DIR is not
defined). Search and home page of `HTAccess.c`. `HTStrip` and the escaping of
characters. Quality and cost of a conversion, which the code keeps and never
compares. `HTList_removeFirstObject`, which has no caller, and the freeing of
trees and lists. The byte 0xFF at which `HTCopyNoCR` stops, and names of a MIME
or WSRC field longer than their buffers. How the lines of news lists, FTP
directories and Gopher's directories of people are turned into links: the model
keeps where each line ends and what ends the list.
