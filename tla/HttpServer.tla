----------------------------- MODULE HttpServer -----------------------------
(* The web server of the application: one thread (HttpTask) accepts a      *)
(* connection, reads the header of the request word by word from the       *)
(* socket, answers with a redirection, a file or an error, and closes the  *)
(* connection before it accepts the next one.                              *)
(*                                                                         *)
(* A request is a sequence of characters, of which those that separate     *)
(* words ("sp", "cr", "lf", ":", "?") or mean something in a path ("/",    *)
(* "\\", ".", "%") are told apart; any other one stands for the letters of *)
(* a word.  It reaches the server cut into segments anywhere.  The clients are the environment: they connect, send,*)
(* hang up after any character, or reset the connection.  What a client    *)
(* sends is modelled from accept() on; nobody looks at it before.          *)
EXTENDS FiniteSets, FiniteSetsExt, Queues

CONSTANTS Clients,
          Texts,     \* the requests a client may send
          Methods,   \* the words the server takes for a method
          Known,     \* header names whose value is kept
          Hex,       \* [pair of hex digits -> the character they stand for]
          Files,     \* [file name -> size], the ROM image
          Siz,       \* HTTP_MAX_REQUEST_SIZE
          SkipSiz,   \* how much of an unknown header is skipped, 9999
          Chunk,     \* bytes read from a file at a time, 1460
          Backlog,   \* connections that may wait for accept()
          NoClient

ASSUME HttpAssumption ==
  /\ NoClient \notin Clients
  /\ \A t \in Texts : t \in Seq(STRING)
  /\ DOMAIN Hex \subseteq STRING \X STRING /\ Range(Hex) \subseteq STRING
  /\ Siz \in Nat \ {0} /\ SkipSiz \in Nat \ {0} /\ Chunk \in Nat \ {0}
  /\ Backlog \in Nat \ {0}
  /\ \A f \in DOMAIN Files : Files[f] \in Nat

VARIABLES link,     \* state of each connection
          backlog,  \* connections not accepted yet
          pc,       \* what the server thread does
          cl,       \* the connection it serves, or served last
          text,     \* the request on this connection
          sent,     \* how many of its characters have arrived
          ipos,     \* strm_ipos, as a position in the request
          ilen,     \* strm_ilen, likewise
          word,     \* the call of StreamReadUntilChars that runs
          req,      \* hs->s_req
          out,      \* what has been sent to the client
          todo,     \* what the response function has still to send
          file      \* the open file and the read position

stream == <<ipos, ilen>>
client == <<link, backlog, text, sent>>
answer == <<out, todo, file>>
vars   == <<client, pc, cl, stream, word, req, answer>>

NoFile == [name |-> <<>>, pos |-> 0, open |-> FALSE]
NoReq  == [url |-> <<>>, hdr |-> [n \in Known |-> <<>>]]
NoWord == [is |-> "none", key |-> <<>>, rc |-> 0, skip |-> FALSE, done |-> FALSE,
           eof |-> FALSE, buf |-> <<>>]

Init ==
  /\ text = <<>> /\ sent = 0
  /\ link = [c \in Clients |-> "idle"]
  /\ backlog = <<>>
  /\ pc = "accept" /\ cl = NoClient
  /\ ipos = 0 /\ ilen = 0
  /\ word = NoWord /\ req = NoReq
  /\ out = <<>> /\ todo = <<>> /\ file = NoFile

-----------------------------------------------------------------------------
(* The clients. *)

Connect(c) ==
  /\ link[c] \in {"idle", "closed", "aborted"} /\ Len(backlog) < Backlog
  /\ link' = [link EXCEPT ![c] = "open"]
  /\ backlog' = Append(backlog, c)
  /\ UNCHANGED <<pc, cl, text, sent, stream, word, req, answer>>

(* Some more of the request arrives. *)
Send ==
  /\ pc # "accept" /\ link[cl] = "open"
  /\ sent' \in sent + 1 .. Len(text)
  /\ UNCHANGED <<link, backlog, text, pc, cl, stream, word, req, answer>>

(* The client closes its half ("fin"), or the connection breaks ("reset").  *)
HangUp(c) ==
  /\ link[c] = "open"
  /\ \E how \in {"fin", "reset"} : link' = [link EXCEPT ![c] = how]
  /\ UNCHANGED <<backlog, text, sent, pc, cl, stream, word, req, answer>>

-----------------------------------------------------------------------------
(* Reading: StreamReadUntilChars. *)

Delim(is)  == CASE is \in {"method", "uri"} -> {"sp", "lf"}
                [] is = "name" -> {":", "lf"}
                [] OTHER -> {"lf"}
Ignore(is) == CASE is = "version" -> {"sp", "cr"}
                [] is = "skip" -> {}
                [] OTHER -> {"cr"}
Limit(is)  == IF is = "skip" THEN SkipSiz ELSE Siz

(* The call is made; nothing is read yet. *)
StartWord(is, key) ==
  /\ word' = [NoWord EXCEPT !.is = is, !.key = key]
  /\ pc' = "read"

(* What the call returns. *)
Got(w) == w.rc + (IF w.skip THEN 1 ELSE 0)

(* Mutation: refills one character early, and loses it. *)
EmptyAhead(pos, len) == pos + 1 >= len
Empty(pos, len) == pos = len

(* The buffer of the stream is empty: recv() returns what has arrived, 0   *)
(* after the last character of a client that has closed, or an error; it   *)
(* waits otherwise.                                                        *)
Fill ==
  /\ pc = "read" /\ ~word.done /\ Empty(ipos, ilen)
  /\ IF link[cl] = "reset"
     THEN /\ word' = [word EXCEPT !.done = TRUE, !.eof = TRUE, !.rc = 0, !.skip = FALSE]
          /\ UNCHANGED stream
     ELSE IF sent > ilen
     THEN /\ ipos' = ilen /\ ilen' = sent
          /\ UNCHANGED word
     ELSE /\ link[cl] = "fin"
          /\ word' = [word EXCEPT !.done = TRUE, !.eof = TRUE]
          /\ UNCHANGED stream
  /\ UNCHANGED <<client, pc, cl, req, answer>>

(* The loop takes one character: leading spaces do not count, a delimiter  *)
(* and the last character there is room for end the word.                  *)
TakeChar ==
  /\ pc = "read" /\ ~word.done /\ ~Empty(ipos, ilen)
  /\ LET ch == text[ipos + 1]
     IN  IF word.rc = 0 /\ ch = "sp"
         THEN word' = [word EXCEPT !.skip = TRUE]
         ELSE word' = [word EXCEPT
                !.rc = @ + 1,
                !.done = ch \in Delim(word.is) \/ word.rc + 1 = Limit(word.is),
                !.buf = IF \/ ch \in Delim(word.is) \cup Ignore(word.is)
                           \/ word.is = "skip"
                        THEN @ ELSE Append(@, ch)]
  /\ ipos' = ipos + 1
  /\ UNCHANGED <<client, pc, cl, ilen, req, answer>>

-----------------------------------------------------------------------------
(* Parsing: HttpParseHeader, one action per word. *)

Parsed(is) == pc = "read" /\ word.done /\ word.is = is

(* The response functions, as the pieces they send one after the other.    *)
(* Only pages the server makes up announce a length: for a file fstat()    *)
(* fails, the size stays -1 and the client knows the end by the close.     *)
Piece(what, val) == [what |-> what, val |-> val]
HttpSendError(status) == <<Piece("status", status), Piece("length", 1), Piece("body", 1)>>
HttpSendRedirection   ==
  <<Piece("status", 301), Piece("location", 0), Piece("length", 1), Piece("body", 1)>>
FileHeader            == <<Piece("status", 200)>>

Respond(pieces) == todo' = pieces /\ pc' = "send" /\ word' = NoWord

GotMethod ==
  /\ Parsed("method")
  /\ \/ /\ Got(word) = 0
        /\ pc' = "close" /\ word' = NoWord
        /\ UNCHANGED todo
     \/ /\ Got(word) # 0 /\ word.buf \notin Methods
        /\ Respond(HttpSendError(501))
     \/ /\ Got(word) # 0 /\ word.buf \in Methods
        /\ StartWord("uri", <<>>)
        /\ UNCHANGED todo
  /\ UNCHANGED <<client, cl, stream, req, out, file>>

(* What precedes the question mark of the second word. *)
Path(w) == SubSeq(w, 1, Min({i \in 1..Len(w) : w[i] = "?"} \cup {Len(w) + 1}) - 1)

(* The character that stands at i: a pair of hex digits behind '%' names   *)
(* one ("nul" for 00), and a backslash is taken for a '/'.                 *)
Escape(w, i) == w[i] = "%" /\ i + 2 <= Len(w) /\ <<w[i + 1], w[i + 2]>> \in DOMAIN Hex
Stands(w, i) ==
  LET ch == IF Escape(w, i) THEN Hex[w[i + 1], w[i + 2]] ELSE w[i]
  IN  IF ch = "\\" THEN "/" ELSE ch

(* The file name a path gives: up to an escaped NUL, without the '/' it    *)
(* starts with and every '/' or '.' that follows another one.  A path that *)
(* does not start with '/' gives NULL, and the lookup reads address 0:     *)
(* there the vector table starts with the aligned end of the main stack,   *)
(* whose low byte is 0, an empty name.                                     *)
UriUnescape(w) ==
  LET rest[i \in 2 .. Len(w) + 1, mark \in BOOLEAN] ==
        LET ch   == Stands(w, i)
            this == ch \in {"/", "."}
            more == rest[IF Escape(w, i) THEN i + 3 ELSE i + 1, this]
        IN  IF i > Len(w) \/ ch = "nul" THEN <<>>
            ELSE IF mark /\ this THEN more ELSE <<ch>> \o more
  IN  IF w # <<>> /\ Head(w) = "/" THEN rest[2, TRUE] ELSE <<>>

GotUri ==
  /\ Parsed("uri")
  /\ req' = [req EXCEPT !.url = UriUnescape(Path(word.buf))]
  /\ StartWord("version", <<>>)
  /\ UNCHANGED <<client, cl, stream, answer>>

(* Any version will do. *)
GotVersion ==
  /\ Parsed("version")
  /\ StartWord("name", <<>>)
  /\ UNCHANGED <<client, cl, stream, req, answer>>

(* Mutation: the end of the input, which leaves the buffer as it was, does *)
(* not end the header.                                                     *)
EndOfHeaderBlank(w) == Got(w) # 0 /\ w.buf = <<>>
(* An empty line, or nothing more to read, ends the header. *)
EndOfHeader(w) == Got(w) = 0 \/ w.buf = <<>>

GotName ==
  /\ Parsed("name")
  /\ \/ /\ EndOfHeader(word)
        /\ pc' = "serve" /\ word' = NoWord
     \/ /\ ~EndOfHeader(word) /\ word.buf \in Known
        /\ StartWord("value", word.buf)
     \/ /\ ~EndOfHeader(word) /\ word.buf \notin Known
        /\ StartWord("skip", <<>>)
  /\ UNCHANGED <<client, cl, stream, req, answer>>

GotValue ==
  /\ Parsed("value")
  /\ req' = [req EXCEPT !.hdr[word.key] = word.buf]
  /\ StartWord("name", <<>>)
  /\ UNCHANGED <<client, cl, stream, answer>>

GotSkipped ==
  /\ Parsed("skip")
  /\ StartWord("name", <<>>)
  /\ UNCHANGED <<client, cl, stream, req, answer>>

HttpParseHeader ==
  GotMethod \/ GotUri \/ GotVersion \/ GotName \/ GotValue \/ GotSkipped

-----------------------------------------------------------------------------
(* Answering: HttpdClientHandler, the redirection of "", the file handler. *)

Serve ==
  /\ pc = "serve"
  /\ \/ /\ req.url = <<>>
        /\ Respond(HttpSendRedirection)
        /\ UNCHANGED file
     \/ /\ req.url # <<>> /\ req.url \notin DOMAIN Files
        /\ Respond(HttpSendError(404))
        /\ UNCHANGED file
     \/ /\ req.url # <<>> /\ req.url \in DOMAIN Files
        /\ Respond(FileHeader)
        /\ file' = [name |-> req.url, pos |-> 0, open |-> TRUE]
  /\ UNCHANGED <<client, cl, stream, req, out>>

(* One send(): whether the client still listens is not looked at. *)
SendPiece ==
  /\ pc = "send" /\ todo # <<>>
  /\ out' = IF link[cl] = "reset" THEN out ELSE Append(out, Head(todo))
  /\ todo' = Tail(todo)
  /\ UNCHANGED <<client, pc, cl, stream, word, req, file>>

(* Mutation: a short chunk is sent in full. *)
ReadWhole(size, pos) == Chunk
(* _read(): no more than the file still has. *)
Read(size, pos) == Min({Chunk, size - pos})

(* Mutation: a full chunk ends the file. *)
MoreToReadNever(got) == got > Chunk
MoreToRead(got) == got = Chunk

(* MediaTypeHandlerBinary: a chunk is read and sent; a short one is the    *)
(* last.                                                                   *)
SendChunk ==
  /\ pc = "send" /\ todo = <<>> /\ file.open
  /\ LET got == Read(Files[file.name], file.pos)
     IN  /\ todo' = IF got > 0 THEN <<Piece("body", got)>> ELSE <<>>
         /\ file' = IF MoreToRead(got) THEN [file EXCEPT !.pos = @ + got] ELSE NoFile
  /\ UNCHANGED <<client, pc, cl, stream, word, req, out>>

Answered ==
  /\ pc = "send" /\ todo = <<>> /\ ~file.open
  /\ pc' = "close"
  /\ UNCHANGED <<client, cl, stream, word, req, answer>>

-----------------------------------------------------------------------------
(* Connections: StreamClientAccept, StreamClientThread. *)

Accept ==
  /\ pc = "accept" /\ backlog # <<>>
  /\ cl' = Head(backlog) /\ backlog' = Tail(backlog)
  /\ text' \in Texts /\ sent' \in 0..Len(text')
  /\ ipos' = 0 /\ ilen' = 0 /\ req' = NoReq /\ out' = <<>>
  /\ StartWord("method", <<>>)
  /\ UNCHANGED <<link, todo, file>>

(* closesocket(): with characters the program has not received, the stack  *)
(* resets the connection instead of closing it in order (tcp_close).       *)
CloseSocket ==
  /\ pc = "close"
  /\ link' = [link EXCEPT ![cl] =
                IF @ = "reset" \/ sent > ilen THEN "aborted" ELSE "closed"]
  /\ pc' = "accept"
  /\ UNCHANGED <<backlog, text, sent, cl, stream, word, req, answer>>

-----------------------------------------------------------------------------
(* The grammar of a request, told from its lines: what the server should   *)
(* find, however the text is cut.                                          *)

(* The first place from k on that is no space, or that has a character of  *)
(* D; the end of the text if there is none.                                *)
Begin(t, k)  == Min({j \in k..Len(t) : t[j] # "sp"} \cup {Len(t) + 1})
End(t, k, D) == Min({j \in k..Len(t) : t[j] \in D} \cup {Len(t) + 1})

(* The words of the first line. *)
Gap          == {"sp", "lf"}
Clean(w)     == StillIn(w, STRING \ {"cr"})
MethodEnd(t) == End(t, Begin(t, 1), Gap)
UriEnd(t)    == End(t, Begin(t, MethodEnd(t)), Gap)
Word(t, from, to) == Clean(SubSeq(t, Begin(t, from), to - 1))
Method(t)    == Word(t, 1, MethodEnd(t))
Uri(t)       == Word(t, MethodEnd(t), UriEnd(t))

Lines(t) == {l \in (DOMAIN t) \X (DOMAIN t) :
               /\ l[1] <= l[2] /\ (l[1] = 1 \/ t[l[1] - 1] = "lf")
               /\ t[l[2]] = "lf" /\ \A k \in l[1] .. l[2] - 1 : t[k] # "lf"}
BlankLines(t)  == {l \in Lines(t) : l[1] > 1 /\ Word(t, l[1], l[2]) = <<>>}
Complete(t)    == BlankLines(t) # {}
HeadEnd(t)     == Min({l[2] : l \in BlankLines(t)})
HeaderLines(t) == {l \in Lines(t) : l[1] > 1 /\ l[2] < HeadEnd(t)}
Colon(t, l)    == End(t, l[1], {":"})
Name(t, l)     == Word(t, l[1], Colon(t, l))
Value(t, l)    == Word(t, Colon(t, l) + 1, l[2])

(* The header n of t, as the last line with that name has it. *)
Header(t, n) ==
  LET named == {l \in HeaderLines(t) : Name(t, l) = n}
  IN  IF named = {} THEN <<>>
      ELSE Value(t, CHOOSE l \in named : \A k \in named : k[2] <= l[2])

(* A word and its delimiter, at the place "to", have room in the buffer of *)
(* the parser.                                                             *)
Room(t, from, to, limit) == to - Begin(t, from) < limit

(* A word that is taken for a method is not all of its line: the parser    *)
(* would look for the URI in the next one.                                 *)
RequestFits(t) ==
  /\ Room(t, 1, MethodEnd(t), Siz) /\ Room(t, MethodEnd(t), UriEnd(t), Siz)
  /\ MethodEnd(t) <= Len(t) /\ t[MethodEnd(t)] = "lf" => Method(t) \notin Methods

(* The first line has a method, a URI and a version, and every other one   *)
(* up to the empty line a name and a colon.                                *)
HeaderFits(t, l) ==
  /\ Colon(t, l) < l[2] /\ Name(t, l) # <<>>
  /\ Room(t, l[1], Colon(t, l), Siz)
  /\ Room(t, Colon(t, l) + 1, l[2], IF Name(t, l) \in Known THEN Siz ELSE SkipSiz)
Fits(t) ==
  /\ Complete(t) /\ RequestFits(t)
  /\ t[MethodEnd(t)] = "sp" /\ t[UriEnd(t)] = "sp"
  /\ Room(t, UriEnd(t) + 1, End(t, UriEnd(t), {"lf"}), Siz)
  /\ \A l \in HeaderLines(t) : HeaderFits(t, l)
  /\ \A l \in BlankLines(t) : l[2] = HeadEnd(t) => Room(t, l[1], l[2], Siz)
FitTexts == {t \in Texts : Fits(t)}

-----------------------------------------------------------------------------
Environment == Send \/ \E c \in Clients : Connect(c) \/ HangUp(c)
HttpTask == \/ Accept \/ Fill \/ TakeChar \/ HttpParseHeader
            \/ Serve \/ SendPiece \/ SendChunk \/ Answered \/ CloseSocket

Next == Environment \/ HttpTask

Spec == Init /\ [][Next]_vars

(* The server thread runs.  A client sends all of its request or hangs up; *)
(* one whose header has a line the server has no room for waits for the    *)
(* answer only for a while.                                                *)
Finish == \/ Send
          \/ sent < Len(text) /\ HangUp(cl)
          \/ sent = Len(text) /\ text \notin FitTexts /\ HangUp(cl)
Fairness == WF_vars(HttpTask) /\ WF_vars(pc # "accept" /\ Finish)
FairSpec == Spec /\ Fairness

-----------------------------------------------------------------------------
(* Properties. *)

(* Every variable keeps its type, and the server reads only what arrived.  *)
HttpTypeOK ==
  /\ link \in [Clients -> {"idle", "open", "fin", "reset", "closed", "aborted"}]
  /\ pc \in {"accept", "read", "serve", "send", "close"}
  /\ cl \in Clients \/ (cl = NoClient /\ pc = "accept")
  /\ ipos <= ilen /\ ilen <= sent /\ sent <= Len(text)
  /\ \A c \in Clients : (c \in Range(backlog) \/ (c = cl /\ pc # "accept"))
                          <=> link[c] \in {"open", "fin", "reset"}
  /\ word.rc \in 0..Limit(word.is) /\ (word.eof \/ Len(word.buf) <= word.rc)
  /\ todo # <<>> => pc = "send"
  /\ file.open => pc = "send" /\ file.pos <= Files[file.name]

(* A request with room for its words is parsed as its lines say, wherever  *)
(* the segments were cut, and the parser stops behind the empty line: not  *)
(* a character of the header is left or of the body taken                  *)
(* (HttpParseHeader, StreamReadUntilChars).                                *)
HeaderAsSent ==
  pc = "serve" /\ link[cl] # "reset" /\ text \in FitTexts /\ sent >= HeadEnd(text) =>
    /\ ipos = HeadEnd(text)
    /\ \A n \in Known : req.hdr[n] = Header(text, n)

(* What the first line that was received asks for: the pieces of a page,  *)
(* or the header of a file and its bytes.                                  *)
Target(received) == UriUnescape(Path(Uri(received)))
AnswerTo(received) ==
  IF received = <<>> THEN <<>>
  ELSE IF Method(received) \notin Methods THEN HttpSendError(501)
  ELSE IF Target(received) = <<>> THEN HttpSendRedirection
  ELSE IF Target(received) \in DOMAIN Files THEN FileHeader ELSE HttpSendError(404)
FileBytes(received) == IF AnswerTo(received) = FileHeader THEN Files[Target(received)] ELSE 0

(* The sum of the values of a kind of piece. *)
Total(o, what) ==
  LET sum[i \in 0..Len(o)] ==
        IF i = 0 THEN 0 ELSE sum[i - 1] + (IF o[i].what = what THEN o[i].val ELSE 0)
  IN  sum[Len(o)]

(* A connection closed in order got one answer, the one its request line   *)
(* asks for, and every byte of the file if it asks for one: as no length   *)
(* is announced, the client takes an orderly close for the end of it.      *)
(* Also when another client broke off halfway through its answer           *)
(* (HttpdClientHandler, MediaTypeHandlerBinary).                           *)
AnswersMatch ==
  pc = "accept" /\ cl # NoClient /\ link[cl] = "closed" /\ RequestFits(text) =>
    LET received == SubSeq(text, 1, sent)
        due      == AnswerTo(received)
    IN  /\ IsPrefix(due, out)
        /\ \A i \in Len(due) + 1 .. Len(out) : out[i].what = "body"
        /\ Total(out, "body") = Total(due, "body") + FileBytes(received)

(* Every connection is closed in the end, though the one thread serves the *)
(* others first.                                                           *)
EveryoneServed ==
  \A c \in Clients : link[c] # "idle" ~> link[c] \in {"closed", "aborted"}

=============================================================================
