------------------------- MODULE HttpServer_proofs --------------------------
(***************************************************************************)
(* What holds of the web server for any clients, requests and files.       *)
(***************************************************************************)
EXTENDS HttpServer, Queues_proofs

-----------------------------------------------------------------------------
\* The stream: what the program has read, what the stack holds, what arrived.
StreamHolds ==
  /\ text \in Seq(STRING)
  /\ sent \in Nat /\ ipos \in Nat /\ ilen \in Nat
  /\ ipos <= ilen /\ ilen <= sent /\ sent <= Len(text)

States == {"idle", "open", "fin", "reset", "closed", "aborted"}
Alive  == {"open", "fin", "reset"}

\* The connections: those that wait for accept() wait once, and not the one
\* that is served.
LinksHold ==
  /\ link \in [Clients -> States]
  /\ pc \in {"accept", "read", "serve", "send", "close"}
  /\ cl \in Clients \/ (cl = NoClient /\ pc = "accept")
  /\ backlog \in Seq(Clients) /\ IsInjective(backlog)
  /\ pc # "accept" => cl \notin ToSet(backlog)
  /\ \A c \in Clients : (c \in ToSet(backlog) \/ (c = cl /\ pc # "accept")) <=> link[c] \in Alive

Kinds == {"none", "method", "uri", "version", "name", "value", "skip"}
Keys  == Known \cup {<<>>}
Chars == Seq(STRING)
Words == [is : Kinds, key : Keys, rc : Nat, skip : BOOLEAN, done : BOOLEAN,
          eof : BOOLEAN, buf : Chars]

\* A word that is not complete has room for another character.
WordFits(w) ==
  /\ w.rc \in 0..Limit(w.is) /\ (w.rc = Limit(w.is) => w.done)
  /\ w.eof \/ Len(w.buf) <= w.rc

WordHolds == word \in Words /\ WordFits(word)

\* The answer: pieces are left, or a file is open, only while it is sent.
Names  == DOMAIN Files \cup {<<>>}
Places == [name : Names, pos : Nat, open : BOOLEAN]
AnswerHolds ==
  /\ todo # <<>> => pc = "send"
  /\ file \in Places
  /\ file.open => pc = "send" /\ file.name \in DOMAIN Files
                  /\ file.pos <= Files[file.name]

HttpInv == StreamHolds /\ LinksHold /\ WordHolds /\ AnswerHolds

-----------------------------------------------------------------------------
(***************************************************************************)
(* Words.                                                                  *)
(***************************************************************************)

LEMMA Limits ==
  ASSUME NEW is
  PROVE  Limit(is) \in Nat /\ Limit(is) > 0
BY HttpAssumption DEF Limit

LEMMA EmptyString == <<>> \in Chars /\ <<>> \in Keys /\ Len(<<>>) = 0
BY DEF Chars, Keys

LEMMA NoWordFits == NoWord \in Words /\ WordFits(NoWord)
<1>1. "none" \in Kinds
  BY DEF Kinds
<1>2. NoWord \in Words
  BY <1>1, EmptyString DEF NoWord, Words
<1>3. NoWord.rc = 0 /\ NoWord.is = "none" /\ Len(NoWord.buf) = 0
  BY EmptyString DEF NoWord
<1>4. WordFits(NoWord)
  BY <1>3, Limits DEF WordFits
<1> QED
  BY <1>2, <1>4

\* A call that begins has read nothing.
LEMMA FreshWord ==
  ASSUME NEW is \in Kinds, NEW key \in Keys
  PROVE  LET w == [NoWord EXCEPT !.is = is, !.key = key] IN w \in Words /\ WordFits(w)
<1> DEFINE w == [NoWord EXCEPT !.is = is, !.key = key]
<1>1. NoWord \in Words /\ NoWord.rc = 0 /\ Len(NoWord.buf) = 0
  BY NoWordFits, EmptyString DEF NoWord
<1>2. w \in Words /\ w.rc = NoWord.rc /\ w.is = is /\ w.buf = NoWord.buf
  BY <1>1 DEF Words
<1>3. WordFits(w)
  BY <1>1, <1>2, Limits DEF WordFits
<1> QED
  BY <1>2, <1>3

LEMMA StartWordHolds ==
  ASSUME NEW is \in Kinds, NEW key \in Keys, StartWord(is, key)
  PROVE  WordHolds'
BY FreshWord DEF StartWord, WordHolds

\* The buffer ran empty: the word is complete, or more characters are there.
LEMMA FillWord ==
  ASSUME WordHolds, Fill
  PROVE  WordHolds'
<1>1. CASE word' = word
  BY <1>1 DEF WordHolds
<1>2. CASE word' = [word EXCEPT !.done = TRUE, !.eof = TRUE, !.rc = 0, !.skip = FALSE]
  <2>1. word' \in Words /\ word'.rc = 0 /\ word'.eof /\ word'.done /\ word'.is = word.is
    BY <1>2 DEF WordHolds, Words
  <2>2. WordFits(word')
    BY <2>1, Limits DEF WordFits
  <2> QED
    BY <2>1, <2>2 DEF WordHolds
<1>3. CASE word' = [word EXCEPT !.done = TRUE, !.eof = TRUE]
  <2>1. word' \in Words /\ word'.rc = word.rc /\ word'.eof /\ word'.done /\ word'.is = word.is
    BY <1>3 DEF WordHolds, Words
  <2>2. WordFits(word')
    BY <2>1 DEF WordFits, WordHolds
  <2> QED
    BY <2>1, <2>2 DEF WordHolds
<1> QED
  BY <1>1, <1>2, <1>3 DEF Fill

\* A word that may go on has room for the character that is taken.
LEMMA TakeCharWord ==
  ASSUME StreamHolds, WordHolds, TakeChar
  PROVE  WordHolds'
<1> DEFINE ch == text[ipos + 1]
<1>1. ch \in STRING
  <2>1. ipos + 1 \in 1..Len(text)
    BY DEF StreamHolds, TakeChar, Empty
  <2> QED
    BY <2>1 DEF StreamHolds
<1>2. /\ word \in Words /\ word.rc \in Nat /\ word.buf \in Chars
      /\ word.eof \in BOOLEAN /\ word.rc <= Limit(word.is) /\ ~word.done
      /\ word.rc # Limit(word.is)
      /\ word.eof \/ Len(word.buf) <= word.rc
  BY DEF WordHolds, WordFits, Words, TakeChar
<1>3. CASE word' = [word EXCEPT !.skip = TRUE]
  <2>1. /\ word' \in Words /\ word'.rc = word.rc /\ word'.eof = word.eof
        /\ word'.is = word.is /\ word'.done = word.done /\ word'.buf = word.buf
    BY <1>3, <1>2 DEF Words
  <2>2. WordFits(word')
    BY <2>1 DEF WordHolds, WordFits
  <2> QED
    BY <2>1, <2>2 DEF WordHolds
<1>4. CASE ~(word.rc = 0 /\ ch = "sp")
  <2> DEFINE n == word.rc + 1
             d == ch \in Delim(word.is) \/ word.rc + 1 = Limit(word.is)
             b == IF ch \in Delim(word.is) \cup Ignore(word.is) \/ word.is = "skip"
                  THEN word.buf ELSE Append(word.buf, ch)
  <2>1. word' = [word EXCEPT !.rc = n, !.done = d, !.buf = b]
    BY <1>4 DEF TakeChar
  <2>2. b \in Chars /\ Len(b) <= Len(word.buf) + 1 /\ Len(b) \in Nat
    <3>1. /\ Append(word.buf, ch) \in Chars
          /\ Len(Append(word.buf, ch)) = Len(word.buf) + 1 /\ Len(word.buf) \in Nat
      BY <1>1, <1>2 DEF Chars
    <3>2. b = word.buf \/ b = Append(word.buf, ch)
      OBVIOUS
    <3>3. Len(word.buf) \in Nat /\ Len(word.buf) + 1 \in Nat /\ Len(word.buf) <= Len(word.buf) + 1
      BY <3>1
    <3> HIDE DEF b, ch
    <3>4. CASE b = word.buf
      BY <1>2, <3>3, <3>4
    <3>5. CASE b = Append(word.buf, ch)
      BY <3>1, <3>3, <3>5
    <3> QED
      BY <3>2, <3>4, <3>5
  <2>3. d \in BOOLEAN
    OBVIOUS
  <2>4. d \/ word.rc + 1 # Limit(word.is)
    OBVIOUS
  <2>n. n \in Nat
    BY <1>2
  <2> HIDE DEF d, b, n
  <2>r. /\ word' \in Words /\ word'.rc = n /\ word'.done = d /\ word'.buf = b
        /\ word'.eof = word.eof /\ word'.is = word.is
    BY <2>1, <2>2, <2>3, <2>n, <1>2 DEF Words
  <2>5. /\ word' \in Words /\ word'.rc = word.rc + 1 /\ word'.done = d /\ word'.buf = b
        /\ word'.eof = word.eof /\ word'.is = word.is
    BY <2>r DEF n
  <2>6. word'.rc \in 0..Limit(word'.is)
    BY <2>5, <1>2, Limits
  <2>7. word'.rc = Limit(word'.is) => word'.done
    BY <2>5, <2>4
  <2>8. word'.eof \/ Len(word'.buf) <= word'.rc
    <3>1. Len(word.buf) \in Nat
      BY <1>2 DEF Chars
    <3>2. Len(word.buf) <= word.rc => Len(b) <= word.rc + 1
      BY <1>2, <2>2, <3>1
    <3> QED
      BY <1>2, <2>5, <3>2
  <2> QED
    BY <2>5, <2>6, <2>7, <2>8 DEF WordFits, WordHolds
<1> QED
  BY <1>3, <1>4 DEF TakeChar

\* A word that is read is of a kind the parser asks for.
LEMMA ParseWord ==
  ASSUME WordHolds, HttpParseHeader
  PROVE  WordHolds'
<1>1. CASE word' = NoWord
  BY <1>1, NoWordFits DEF WordHolds
<1>2. CASE \E is \in Kinds, key \in Keys : StartWord(is, key)
  BY <1>2, StartWordHolds
<1>3. word' = NoWord \/ \E is \in Kinds, key \in Keys : StartWord(is, key)
  <2> USE DEF Kinds, Keys
  <2>1. CASE GotMethod
    BY <2>1 DEF GotMethod, Respond
  <2>2. CASE GotUri
    BY <2>2 DEF GotUri
  <2>3. CASE GotVersion
    BY <2>3 DEF GotVersion
  <2>4. CASE GotName
    BY <2>4 DEF GotName
  <2>5. CASE GotValue
    BY <2>5 DEF GotValue
  <2>6. CASE GotSkipped
    BY <2>6 DEF GotSkipped
  <2> QED
    BY <2>1, <2>2, <2>3, <2>4, <2>5, <2>6 DEF HttpParseHeader
<1> QED
  BY <1>1, <1>2, <1>3

LEMMA WordKept ==
  ASSUME HttpInv, Next
  PROVE  WordHolds'
<1>1. CASE word' = word
  BY <1>1 DEF HttpInv, WordHolds
<1>2. CASE Fill
  BY <1>2, FillWord DEF HttpInv
<1>3. CASE TakeChar
  BY <1>3, TakeCharWord DEF HttpInv
<1>4. CASE HttpParseHeader
  BY <1>4, ParseWord DEF HttpInv
<1>5. CASE Serve
  <2>1. word' = NoWord
    BY <1>5 DEF Serve, Respond
  <2> QED
    BY <2>1, NoWordFits DEF WordHolds
<1>6. CASE Accept
  <2>1. StartWord("method", <<>>)
    BY <1>6 DEF Accept
  <2>2. "method" \in Kinds /\ <<>> \in Keys
    BY EmptyString DEF Kinds
  <2> QED
    BY <2>1, <2>2, StartWordHolds
<1>7. CASE Environment \/ SendPiece \/ SendChunk \/ Answered \/ CloseSocket
  BY <1>1, <1>7 DEF Environment, Send, Connect, HangUp, SendPiece, SendChunk, Answered, CloseSocket
<1> QED
  BY <1>2, <1>3, <1>4, <1>5, <1>6, <1>7 DEF Next, HttpTask

-----------------------------------------------------------------------------
(***************************************************************************)
(* The stream.                                                             *)
(***************************************************************************)

LEMMA StreamKept ==
  ASSUME HttpInv, Next
  PROVE  StreamHolds'
<1> USE DEF HttpInv
<1>1. CASE UNCHANGED <<text, sent, ipos, ilen>>
  BY <1>1 DEF StreamHolds
<1>2. CASE Send
  BY <1>2 DEF StreamHolds, Send, stream
<1>3. CASE Fill
  BY <1>3, <1>1 DEF StreamHolds, Fill, stream, client
<1>4. CASE TakeChar
  BY <1>4 DEF StreamHolds, TakeChar, Empty, client
<1>5. CASE Accept
  BY <1>5, HttpAssumption DEF StreamHolds, Accept
<1>6. CASE HttpParseHeader
  BY <1>1, <1>6 DEF HttpParseHeader, GotMethod, GotUri, GotVersion, GotName, GotValue,
                    GotSkipped, client, stream
<1>7. CASE \E c \in Clients : Connect(c) \/ HangUp(c)
  BY <1>1, <1>7 DEF Connect, HangUp, stream
<1>8. CASE Serve \/ SendPiece \/ SendChunk \/ Answered \/ CloseSocket
  BY <1>1, <1>8 DEF Serve, SendPiece, SendChunk, Answered, CloseSocket, stream, client
<1> QED
  BY <1>2, <1>3, <1>4, <1>5, <1>6, <1>7, <1>8 DEF Next, Environment, HttpTask

-----------------------------------------------------------------------------
(***************************************************************************)
(* The connections.                                                        *)
(***************************************************************************)

LEMMA ConnectLinks ==
  ASSUME LinksHold, NEW c \in Clients, Connect(c)
  PROVE  LinksHold'
<1>1. link[c] \notin Alive /\ link' = [link EXCEPT ![c] = "open"]
  BY DEF Connect, Alive
<1>2. c \notin ToSet(backlog) /\ ~(c = cl /\ pc # "accept")
  BY <1>1 DEF LinksHold
<1>3. backlog' = Append(backlog, c) /\ pc' = pc /\ cl' = cl
  BY DEF Connect
<1>4. /\ backlog' \in Seq(Clients) /\ IsInjective(backlog')
      /\ ToSet(backlog') = ToSet(backlog) \cup {c}
  BY <1>2, <1>3, AppendNew DEF LinksHold
<1>5. link' \in [Clients -> States]
  BY <1>1 DEF LinksHold, States
<1>6. \A d \in Clients : link'[d] \in Alive <=> d = c \/ link[d] \in Alive
  BY <1>1 DEF LinksHold, Alive
<1> HIDE DEF Alive
<1> QED
  BY <1>2, <1>3, <1>4, <1>5, <1>6 DEF LinksHold

LEMMA HangUpLinks ==
  ASSUME LinksHold, NEW c \in Clients, HangUp(c)
  PROVE  LinksHold'
<1>1. link[c] \in Alive /\ \E how \in {"fin", "reset"} : link' = [link EXCEPT ![c] = how]
  BY DEF HangUp, Alive
<1>2. backlog' = backlog /\ pc' = pc /\ cl' = cl
  BY DEF HangUp
<1>3. link' \in [Clients -> States]
  BY <1>1 DEF LinksHold, States
<1>4. \A d \in Clients : link'[d] \in Alive <=> link[d] \in Alive
  BY <1>1 DEF LinksHold, Alive
<1> QED
  BY <1>2, <1>3, <1>4 DEF LinksHold

LEMMA AcceptLinks ==
  ASSUME LinksHold, Accept
  PROVE  LinksHold'
<1>1. /\ Head(backlog) \in Clients /\ Head(backlog) \in ToSet(backlog)
      /\ Tail(backlog) \in Seq(Clients) /\ IsInjective(Tail(backlog))
      /\ ToSet(Tail(backlog)) = ToSet(backlog) \ {Head(backlog)}
  BY TailQueue DEF LinksHold, Accept
<1>2. /\ cl' = Head(backlog) /\ backlog' = Tail(backlog) /\ link' = link
      /\ pc = "accept" /\ pc' = "read"
  BY DEF Accept, StartWord
<1> QED
  BY <1>1, <1>2 DEF LinksHold

LEMMA CloseLinks ==
  ASSUME LinksHold, CloseSocket
  PROVE  LinksHold'
<1>1. PICK how \in {"aborted", "closed"} : link' = [link EXCEPT ![cl] = how]
  BY DEF CloseSocket
<1>2. pc = "close" /\ pc' = "accept" /\ backlog' = backlog /\ cl' = cl
  BY DEF CloseSocket
<1>3. cl \in Clients /\ cl \notin ToSet(backlog)
  BY <1>2 DEF LinksHold
<1>4. link' \in [Clients -> States]
  BY <1>1 DEF LinksHold, States
<1>5. \A d \in Clients : link'[d] \in Alive <=> d # cl /\ link[d] \in Alive
  BY <1>1, <1>3 DEF LinksHold, Alive
<1> QED
  BY <1>2, <1>3, <1>4, <1>5 DEF LinksHold

LEMMA LinksKept ==
  ASSUME HttpInv, Next
  PROVE  LinksHold'
<1> USE DEF HttpInv
<1>1. CASE UNCHANGED <<link, backlog, pc, cl>>
  BY <1>1 DEF LinksHold
<1>2. CASE /\ UNCHANGED <<link, backlog, cl>> /\ pc # "accept"
           /\ pc' \in {"read", "serve", "send", "close"}
  BY <1>2 DEF LinksHold
<1>3. CASE \E c \in Clients : Connect(c) \/ HangUp(c)
  BY <1>3, ConnectLinks, HangUpLinks
<1>4. CASE Accept
  BY <1>4, AcceptLinks
<1>5. CASE CloseSocket
  BY <1>5, CloseLinks
<1>6. CASE Send \/ Fill \/ TakeChar \/ SendPiece \/ SendChunk
  BY <1>6, <1>1 DEF Send, Fill, TakeChar, SendPiece, SendChunk, client
<1>7. CASE HttpParseHeader
  BY <1>7, <1>2 DEF HttpParseHeader, GotMethod, GotUri, GotVersion, GotName, GotValue,
       GotSkipped, Parsed, StartWord, Respond, client
<1>8. CASE Serve \/ Answered
  BY <1>8, <1>2 DEF Serve, Answered, Respond, client
<1> QED
  BY <1>3, <1>4, <1>5, <1>6, <1>7, <1>8 DEF Next, Environment, HttpTask

-----------------------------------------------------------------------------
(***************************************************************************)
(* The answer.                                                             *)
(***************************************************************************)

\* A chunk ends within the file it is read from.
LEMMA ChunkWithin ==
  ASSUME NEW size \in Nat, NEW pos \in Nat, pos <= size
  PROVE  Read(size, pos) \in Nat /\ pos + Read(size, pos) <= size
<1> DEFINE S == {Chunk, size - pos}
<1>1. Chunk \in Nat /\ size - pos \in Nat
  BY HttpAssumption
<1>2. \E x \in S : \A y \in S : x <= y
  BY <1>1
<1>3. Min(S) \in S /\ \A y \in S : Min(S) <= y
  BY <1>2 DEF Min
<1>4. Read(size, pos) = Min(S)
  BY DEF Read
<1> QED
  BY <1>1, <1>3, <1>4

LEMMA NoPlace == NoFile \in Places /\ ~NoFile.open
<1>1. <<>> \in Names
  BY DEF Names
<1> QED
  BY <1>1 DEF NoFile, Places

LEMMA SendChunkAnswer ==
  ASSUME AnswerHolds, SendChunk
  PROVE  AnswerHolds'
<1> DEFINE got == Read(Files[file.name], file.pos)
<1>1. /\ file.open /\ pc = "send" /\ pc' = "send"
      /\ file' = IF MoreToRead(got) THEN [file EXCEPT !.pos = @ + got] ELSE NoFile
  BY DEF SendChunk
<1>2. /\ file.name \in DOMAIN Files /\ file.pos \in Nat /\ Files[file.name] \in Nat
      /\ file.pos <= Files[file.name] /\ file \in Places
  BY <1>1, HttpAssumption DEF AnswerHolds, Places
<1>3. got \in Nat /\ file.pos + got <= Files[file.name] /\ file.pos + got \in Nat
  BY <1>2, ChunkWithin
<1> HIDE DEF got
<1>4. CASE file' = NoFile
  BY <1>1, <1>4, NoPlace DEF AnswerHolds
<1>5. CASE file' = [file EXCEPT !.pos = file.pos + got]
  <2> DEFINE n == file.pos + got
  <2>1. n \in Nat /\ n <= Files[file.name]
    BY <1>3
  <2> HIDE DEF n
  <2>2. file' = [file EXCEPT !.pos = n]
    BY <1>5 DEF n
  <2>3. file' \in Places /\ file'.name = file.name /\ file'.pos = n /\ file'.open = file.open
    BY <2>1, <2>2, <1>2 DEF Places
  <2> QED
    BY <2>1, <2>3, <1>1, <1>2 DEF AnswerHolds
<1> QED
  BY <1>1, <1>4, <1>5

LEMMA ServeAnswer ==
  ASSUME AnswerHolds, Serve
  PROVE  AnswerHolds'
<1>1. pc = "serve" /\ pc' = "send" /\ ~file.open /\ file \in Places
  BY DEF AnswerHolds, Serve, Respond
<1>2. CASE file' = file
  BY <1>1, <1>2 DEF AnswerHolds
<1>3. CASE /\ req.url \in DOMAIN Files
           /\ file' = [name |-> req.url, pos |-> 0, open |-> TRUE]
  <2>1. /\ file' \in Places /\ file'.name = req.url /\ file'.pos = 0 /\ file'.open
        /\ 0 <= Files[req.url]
    BY <1>3, HttpAssumption DEF Places, Names
  <2> QED
    BY <1>1, <1>3, <2>1 DEF AnswerHolds
<1> QED
  BY <1>2, <1>3 DEF Serve

LEMMA AnswerKept ==
  ASSUME HttpInv, Next
  PROVE  AnswerHolds'
<1> USE DEF HttpInv
<1>1. CASE /\ UNCHANGED <<todo, file>> /\ pc' = pc
  BY <1>1 DEF AnswerHolds
<1>2. CASE /\ UNCHANGED <<todo, file>> /\ todo = <<>> /\ ~file.open
  BY <1>2 DEF AnswerHolds
<1>3. CASE /\ UNCHANGED file /\ (pc = "send" \/ ~file.open) /\ pc' = "send"
  BY <1>3 DEF AnswerHolds
<1>4. CASE pc # "send" /\ UNCHANGED <<todo, file>>
  BY <1>2, <1>4 DEF AnswerHolds
<1>5. CASE Environment \/ Fill \/ TakeChar
  BY <1>1, <1>5 DEF Environment, Connect, Send, HangUp, Fill, TakeChar, answer
<1>6. CASE HttpParseHeader
  <2>1. pc = "read" /\ ~file.open /\ UNCHANGED file
    BY <1>6 DEF AnswerHolds, HttpParseHeader, GotMethod, GotUri, GotVersion, GotName, GotValue,
       GotSkipped, Parsed, answer
  <2>2. todo' = todo \/ pc' = "send"
    BY <1>6 DEF HttpParseHeader, GotMethod, GotUri, GotVersion, GotName, GotValue,
       GotSkipped, Respond, answer
  <2> QED
    BY <2>1, <2>2, <1>3, <1>4
<1>7. CASE Serve
  BY <1>7, ServeAnswer
<1>8. CASE SendPiece
  BY <1>8, <1>3 DEF SendPiece
<1>9. CASE SendChunk
  BY <1>9, SendChunkAnswer
<1>10. CASE Answered
  BY <1>10, <1>2 DEF Answered, answer
<1>11. CASE Accept \/ CloseSocket
  BY <1>11, <1>4 DEF Accept, CloseSocket, answer
<1> QED
  BY <1>5, <1>6, <1>7, <1>8, <1>9, <1>10, <1>11 DEF Next, HttpTask

-----------------------------------------------------------------------------
(***************************************************************************)
(* The text: places in it, its pieces, and the words they stand for.       *)
(***************************************************************************)

LEMMA MinOf ==
  ASSUME NEW S \in SUBSET Nat, S # {}
  PROVE  Min(S) \in S /\ \A y \in S : Min(S) <= y
<1>1. \E x \in S : \A y \in S : x <= y
  BY Smallest
<1> QED
  BY <1>1 DEF Min

\* The first place from k on that is no space, and that has a character of D.
Leads(t, k, b) ==
  /\ b \in Nat /\ k <= b /\ b <= Len(t) + 1
  /\ \A j \in k..b - 1 : t[j] = "sp"
  /\ b <= Len(t) => t[b] # "sp"
Ends(t, k, D, e) ==
  /\ e \in Nat /\ k <= e /\ e <= Len(t) + 1
  /\ \A j \in k..e - 1 : t[j] \notin D
  /\ e <= Len(t) => t[e] \in D

LEMMA BeginLeads ==
  ASSUME NEW t \in Chars, NEW k \in Nat, k >= 1, k <= Len(t) + 1
  PROVE  Leads(t, k, Begin(t, k))
<1> DEFINE n == Len(t)
           S == {j \in k..n : t[j] # "sp"} \cup {n + 1}
           b == Min(S)
<1>1. n \in Nat
  BY DEF Chars
<1>2. S \in SUBSET Nat /\ S # {} /\ \A j \in S : j <= n + 1 /\ j >= k
  BY <1>1
<1>3. \A j \in k..n : t[j] # "sp" => j \in S
  OBVIOUS
<1>4. \A j \in S : j <= n => t[j] # "sp"
  BY <1>1
<1>5. Begin(t, k) = b
  BY DEF Begin
<1> HIDE DEF S
<1>6. b \in S /\ \A y \in S : b <= y
  BY <1>2, MinOf
<1> HIDE DEF b, n
<1>7. b \in Nat /\ k <= b /\ b <= n + 1
  BY <1>2, <1>6
<1>8. \A j \in k..b - 1 : t[j] = "sp"
  <2> SUFFICES ASSUME NEW j \in k..b - 1, t[j] # "sp" PROVE FALSE
    OBVIOUS
  <2>1. j \in k..n /\ ~(b <= j)
    BY <1>1, <1>7
  <2> QED
    BY <1>3, <1>6, <2>1
<1> QED
  BY <1>4, <1>5, <1>6, <1>7, <1>8 DEF Leads, n

LEMMA EndEnds ==
  ASSUME NEW t \in Chars, NEW k \in Nat, k >= 1, k <= Len(t) + 1, NEW D
  PROVE  Ends(t, k, D, End(t, k, D))
<1> DEFINE n == Len(t)
           S == {j \in k..n : t[j] \in D} \cup {n + 1}
           b == Min(S)
<1>1. n \in Nat
  BY DEF Chars
<1>2. S \in SUBSET Nat /\ S # {} /\ \A j \in S : j <= n + 1 /\ j >= k
  BY <1>1
<1>3. \A j \in k..n : t[j] \in D => j \in S
  OBVIOUS
<1>4. \A j \in S : j <= n => t[j] \in D
  BY <1>1
<1>5. End(t, k, D) = b
  BY DEF End
<1> HIDE DEF S
<1>6. b \in S /\ \A y \in S : b <= y
  BY <1>2, MinOf
<1> HIDE DEF b, n
<1>7. b \in Nat /\ k <= b /\ b <= n + 1
  BY <1>2, <1>6
<1>8. \A j \in k..b - 1 : t[j] \notin D
  <2> SUFFICES ASSUME NEW j \in k..b - 1, t[j] \in D PROVE FALSE
    OBVIOUS
  <2>1. j \in k..n /\ ~(b <= j)
    BY <1>1, <1>7
  <2> QED
    BY <1>3, <1>6, <2>1
<1> QED
  BY <1>4, <1>5, <1>6, <1>7, <1>8 DEF Ends, n

LEMMA LeadsOnce ==
  ASSUME NEW t \in Chars, NEW k \in Nat, NEW b, NEW c, Leads(t, k, b), Leads(t, k, c)
  PROVE  b = c
<1> DEFINE n == Len(t)
<1>1. n \in Nat
  BY DEF Chars
<1> HIDE DEF n
<1>2. /\ b \in Nat /\ k <= b /\ b <= n + 1 /\ (b <= n => t[b] # "sp")
      /\ c \in Nat /\ k <= c /\ c <= n + 1 /\ (c <= n => t[c] # "sp")
  BY DEF Leads, n
<1>3. \A j \in k..b - 1 : t[j] = "sp"
  BY DEF Leads
<1>4. \A j \in k..c - 1 : t[j] = "sp"
  BY DEF Leads
<1>5. CASE b < c
  <2>1. b \in k..c - 1 /\ b <= n
    BY <1>1, <1>2, <1>5
  <2> QED
    BY <1>2, <1>4, <2>1
<1>6. CASE c < b
  <2>1. c \in k..b - 1 /\ c <= n
    BY <1>1, <1>2, <1>6
  <2> QED
    BY <1>2, <1>3, <2>1
<1> QED
  BY <1>2, <1>5, <1>6

LEMMA EndsOnce ==
  ASSUME NEW t \in Chars, NEW k \in Nat, NEW D, NEW b, NEW c, Ends(t, k, D, b), Ends(t, k, D, c)
  PROVE  b = c
<1> DEFINE n == Len(t)
<1>1. n \in Nat
  BY DEF Chars
<1> HIDE DEF n
<1>2. /\ b \in Nat /\ k <= b /\ b <= n + 1 /\ (b <= n => t[b] \in D)
      /\ c \in Nat /\ k <= c /\ c <= n + 1 /\ (c <= n => t[c] \in D)
  BY DEF Ends, n
<1>3. \A j \in k..b - 1 : t[j] \notin D
  BY DEF Ends
<1>4. \A j \in k..c - 1 : t[j] \notin D
  BY DEF Ends
<1>5. CASE b < c
  <2>1. b \in k..c - 1 /\ b <= n
    BY <1>1, <1>2, <1>5
  <2> QED
    BY <1>2, <1>4, <2>1
<1>6. CASE c < b
  <2>1. c \in k..b - 1 /\ c <= n
    BY <1>1, <1>2, <1>6
  <2> QED
    BY <1>2, <1>3, <2>1
<1> QED
  BY <1>2, <1>5, <1>6

\* What was received is the beginning of the text.
Cut(t, n) == SubSeq(t, 1, n)
LEMMA CutText ==
  ASSUME NEW t \in Chars, NEW n \in 0..Len(t)
  PROVE  Cut(t, n) \in Chars /\ Len(Cut(t, n)) = n /\ \A j \in 1..n : Cut(t, n)[j] = t[j]
BY DEF Cut, Chars

LEMMA CutLeads ==
  ASSUME NEW t \in Chars, NEW n \in 0..Len(t), NEW k \in 1..n + 1, NEW b, Leads(t, k, b)
  PROVE  Begin(Cut(t, n), k) = IF b <= n THEN b ELSE n + 1
<1> DEFINE r == Cut(t, n)
           c == IF b <= n THEN b ELSE n + 1
<1>1. r \in Chars /\ Len(r) = n /\ \A j \in 1..n : r[j] = t[j]
  BY CutText
<1>2. n \in Nat /\ k \in Nat /\ k >= 1 /\ k <= n + 1 /\ Len(t) \in Nat /\ n <= Len(t)
  BY DEF Chars
<1> HIDE DEF r
<1>3. Leads(r, k, Begin(r, k))
  BY <1>1, <1>2, BeginLeads
<1>4. b \in Nat /\ k <= b /\ (b <= n => b <= Len(t))
  BY <1>2 DEF Leads
<1>5. c \in Nat /\ k <= c /\ c <= n + 1 /\ c <= b
  BY <1>2, <1>4
<1>6. \A j \in k..c - 1 : r[j] = "sp"
  <2> SUFFICES ASSUME NEW j \in k..c - 1 PROVE r[j] = "sp"
    OBVIOUS
  <2>1. j \in k..b - 1 /\ j \in 1..n
    BY <1>2, <1>4, <1>5
  <2> QED
    BY <1>1, <2>1 DEF Leads
<1>7. c <= n => r[c] # "sp"
  <2> SUFFICES ASSUME c <= n PROVE r[c] # "sp"
    OBVIOUS
  <2>1. c = b /\ b <= Len(t) /\ b \in 1..n
    BY <1>2, <1>4, <1>5
  <2> HIDE DEF c
  <2> QED
    BY <1>1, <2>1 DEF Leads
<1> HIDE DEF c
<1>8. Leads(r, k, c)
  BY <1>1, <1>5, <1>6, <1>7 DEF Leads
<1> QED
  BY <1>1, <1>2, <1>3, <1>8, LeadsOnce DEF c, r

LEMMA CutEnds ==
  ASSUME NEW t \in Chars, NEW n \in 0..Len(t), NEW k \in 1..n + 1, NEW D, NEW b, Ends(t, k, D, b)
  PROVE  End(Cut(t, n), k, D) = IF b <= n THEN b ELSE n + 1
<1> DEFINE r == Cut(t, n)
           c == IF b <= n THEN b ELSE n + 1
<1>1. r \in Chars /\ Len(r) = n /\ \A j \in 1..n : r[j] = t[j]
  BY CutText
<1>2. n \in Nat /\ k \in Nat /\ k >= 1 /\ k <= n + 1 /\ Len(t) \in Nat /\ n <= Len(t)
  BY DEF Chars
<1> HIDE DEF r
<1>3. Ends(r, k, D, End(r, k, D))
  BY <1>1, <1>2, EndEnds
<1>4. b \in Nat /\ k <= b /\ (b <= n => b <= Len(t))
  BY <1>2 DEF Ends
<1>5. c \in Nat /\ k <= c /\ c <= n + 1 /\ c <= b
  BY <1>2, <1>4
<1>6. \A j \in k..c - 1 : r[j] \notin D
  <2> SUFFICES ASSUME NEW j \in k..c - 1 PROVE r[j] \notin D
    OBVIOUS
  <2>1. j \in k..b - 1 /\ j \in 1..n
    BY <1>2, <1>4, <1>5
  <2> QED
    BY <1>1, <2>1 DEF Ends
<1>7. c <= n => r[c] \in D
  <2> SUFFICES ASSUME c <= n PROVE r[c] \in D
    OBVIOUS
  <2>1. c = b /\ b <= Len(t) /\ b \in 1..n
    BY <1>2, <1>4, <1>5
  <2> HIDE DEF c
  <2> QED
    BY <1>1, <2>1 DEF Ends
<1> HIDE DEF c
<1>8. Ends(r, k, D, c)
  BY <1>1, <1>5, <1>6, <1>7 DEF Ends
<1> QED
  BY <1>1, <1>2, <1>3, <1>8, EndsOnce DEF c, r

\* Words.
LEMMA CleanType ==
  ASSUME NEW w \in Chars
  PROVE  Clean(w) \in Chars
BY StillInType DEF Clean, Chars
LEMMA CleanEmpty == Clean(<<>>) = <<>>
BY StillInEmpty DEF Clean
LEMMA CleanAppend ==
  ASSUME NEW w \in Chars, NEW x \in STRING
  PROVE  Clean(Append(w, x)) = IF x = "cr" THEN Clean(w) ELSE Append(Clean(w), x)
<1>1. x \in STRING \ {"cr"} <=> x # "cr"
  OBVIOUS
<1> QED
  BY <1>1, StillInAppend DEF Clean, Chars

\* The piece of t from s to p.
Part(t, s, p) == SubSeq(t, s, p)
LEMMA PartEmpty ==
  ASSUME NEW t \in Chars, NEW s \in Nat, NEW p \in Int, p < s
  PROVE  Part(t, s, p) = <<>>
BY SubSeqEmpty DEF Part, Chars
LEMMA PartType ==
  ASSUME NEW t \in Chars, NEW s \in Nat, s >= 1, NEW p \in Int, p <= Len(t)
  PROVE  Part(t, s, p) \in Chars
<1>1. \A i \in s..p : t[i] \in STRING
  BY DEF Chars
<1> QED
  BY <1>1, SubSeqProperties DEF Part, Chars
LEMMA PartGrows ==
  ASSUME NEW t \in Chars, NEW s \in Nat, s >= 1, NEW p \in Nat, s <= p + 1, p + 1 <= Len(t)
  PROVE  Part(t, s, p + 1) = Append(Part(t, s, p), t[p + 1]) /\ t[p + 1] \in STRING
<1> DEFINE q == Part(t, s, p)
           r == Part(t, s, p + 1)
           u == Append(q, t[p + 1])
<1>1. t[p + 1] \in STRING /\ Len(t) \in Nat
  BY DEF Chars
<1>2. q \in Chars /\ r \in Chars
  <2>1. p <= Len(t) /\ p \in Int /\ p + 1 \in Int
    BY <1>1
  <2> QED
    BY <2>1, PartType
<1>3. /\ Len(q) = p - s + 1 /\ \A i \in 1..p - s + 1 : q[i] = t[s + i - 1]
      /\ Len(r) = p + 1 - s + 1 /\ \A i \in 1..p + 1 - s + 1 : r[i] = t[s + i - 1]
  BY DEF Part, Chars
<1>4. u \in Chars /\ Len(u) = Len(q) + 1 /\ u[Len(q) + 1] = t[p + 1]
      /\ \A i \in 1..Len(q) : u[i] = q[i]
  BY <1>1, <1>2 DEF Chars
<1> HIDE DEF q, r, u
<1> DEFINE m == p - s + 1
<1>5. m \in Nat /\ m + 1 = p + 1 - s + 1 /\ s + (m + 1) - 1 = p + 1
  OBVIOUS
<1>6. Len(r) = m + 1 /\ Len(u) = m + 1
  BY <1>3, <1>4, <1>5
<1>7. r[m + 1] = t[p + 1] /\ u[m + 1] = t[p + 1]
  <2>1. m + 1 \in 1..p + 1 - s + 1
    BY <1>5
  <2>2. r[m + 1] = t[s + (m + 1) - 1]
    BY <1>3, <2>1
  <2>3. u[m + 1] = t[p + 1]
    BY <1>3, <1>4
  <2> QED
    BY <1>5, <2>2, <2>3
<1>8. \A i \in 1..m : r[i] = u[i]
  <2> SUFFICES ASSUME NEW i \in 1..m PROVE r[i] = u[i]
    OBVIOUS
  <2>1. i \in 1..p - s + 1 /\ i \in 1..p + 1 - s + 1 /\ i \in 1..Len(q)
    BY <1>3, <1>5
  <2> QED
    BY <1>3, <1>4, <2>1
<1> HIDE DEF m
<1>9. \A i \in 1..m + 1 : i = m + 1 \/ i \in 1..m
  BY <1>5
<1>10. r = u
  BY <1>2, <1>4, <1>6, <1>7, <1>8, <1>9, SeqEqual DEF Chars
<1> QED
  BY <1>1, <1>10 DEF q, r, u

LEMMA PartOfCut ==
  ASSUME NEW t \in Chars, NEW n \in 0..Len(t), NEW s \in Nat, s >= 1, NEW p \in Int, p <= n
  PROVE  Part(Cut(t, n), s, p) = Part(t, s, p)
<1> DEFINE c == Cut(t, n)
           q == Part(c, s, p)
           r == Part(t, s, p)
<1>1. c \in Chars /\ Len(c) = n /\ \A j \in 1..n : c[j] = t[j]
  BY CutText
<1>2. p <= Len(t) /\ p <= Len(c) /\ Len(t) \in Nat /\ n \in Nat
  BY <1>1 DEF Chars
<1> HIDE DEF c
<1>3. q \in Chars /\ r \in Chars
  BY <1>1, <1>2, PartType
<1>4. CASE p < s
  <2>1. Part(c, s, p) = <<>>
    BY <1>1, <1>4, PartEmpty
  <2>2. Part(t, s, p) = <<>>
    BY <1>4, PartEmpty
  <2> QED
    BY <2>1, <2>2 DEF c
<1>5. CASE s <= p
  <2> DEFINE m == p - s + 1
  <2>1. Len(q) = m /\ \A i \in 1..m : q[i] = c[s + i - 1]
    BY <1>1, <1>2, <1>5 DEF Part, Chars
  <2>2. Len(r) = m /\ \A i \in 1..m : r[i] = t[s + i - 1]
    BY <1>2, <1>5 DEF Part, Chars
  <2>3. \A i \in 1..m : q[i] = r[i]
    <3> SUFFICES ASSUME NEW i \in 1..m PROVE q[i] = r[i]
      OBVIOUS
    <3> DEFINE j == s + i - 1
    <3>1. j \in 1..n
      BY <1>2, <1>5
    <3> HIDE DEF q, r
    <3> QED
      BY <1>1, <2>1, <2>2, <3>1
  <2> HIDE DEF q, r, m
  <2>4. q = r
    <3>1. \A i \in 1..Len(q) : q[i] = r[i]
      BY <2>1, <2>3
    <3> QED
      BY <1>3, <2>1, <2>2, <3>1, SeqEqual DEF Chars
  <2> QED
    BY <2>4 DEF q, r, c
<1> QED
  BY <1>4, <1>5 DEF c

\* The running results of a sum, one for each prefix of the pieces.
ValueOf(o, what, i) == IF o[i].what = what THEN o[i].val ELSE 0
Adds(o, what, n, f) ==
  f = [i \in 0..n |-> IF i = 0 THEN 0 ELSE f[i - 1] + ValueOf(o, what, i)]

LEMMA AddsStep ==
  ASSUME NEW o, NEW what, NEW k \in Nat, k # 0, NEW f, Adds(o, what, k - 1, f)
  PROVE  \E g : Adds(o, what, k, g)
<1> DEFINE value == f[k - 1] + ValueOf(o, what, k)
           g == [i \in 0..k |-> IF i = k THEN value ELSE f[i]]
<1>1. \A i \in 0..k : i # k => i \in 0..k - 1
  OBVIOUS
<1>2. \A i \in 0..k - 1 : g[i] = f[i]
  OBVIOUS
<1>3. \A i \in 0..k - 1 : f[i] = IF i = 0 THEN 0 ELSE f[i - 1] + ValueOf(o, what, i)
  BY DEF Adds
<1>4. g[k] = value
  OBVIOUS
<1>5. ASSUME NEW i \in 0..k
      PROVE  g[i] = IF i = 0 THEN 0 ELSE g[i - 1] + ValueOf(o, what, i)
  <2>1. i # 0 => i - 1 \in 0..k - 1
    OBVIOUS
  <2>2. CASE i = k
    <3> HIDE DEF g
    <3> QED
      BY <1>2, <1>4, <2>1, <2>2
  <2>3. CASE i # k
    <3>1. i \in 0..k - 1
      BY <1>1, <2>3
    <3> HIDE DEF g
    <3> QED
      BY <1>2, <1>3, <2>1, <3>1
  <2> QED
    BY <2>2, <2>3
<1>6. g = [i \in 0..k |-> g[i]]
  OBVIOUS
<1> HIDE DEF g
<1>7. Adds(o, what, k, g)
  BY <1>5, <1>6 DEF Adds
<1> QED
  BY <1>7

LEMMA AddsExist ==
  ASSUME NEW o, NEW what, NEW n \in Nat
  PROVE  \E f : Adds(o, what, n, f)
<1> DEFINE Missing(k) == \A f : ~Adds(o, what, k, f)
           T == {k \in 0..n : Missing(k)}
<1> SUFFICES ASSUME Missing(n) PROVE FALSE
  OBVIOUS
<1>1. PICK k \in T : \A l \in T : k <= l
  <2>1. T \in SUBSET Nat /\ n \in T
    OBVIOUS
  <2> HIDE DEF T
  <2> QED
    BY <2>1, Smallest
<1>2. k \in 0..n /\ Missing(k) /\ \A l \in 0..n : Missing(l) => k <= l
  BY <1>1
<1>3. k # 0
  <2> SUFFICES ASSUME k = 0 PROVE FALSE
    OBVIOUS
  <2> DEFINE f == [i \in 0..0 |-> 0]
  <2>1. Adds(o, what, 0, f)
    BY DEF Adds
  <2> QED
    BY <1>2, <2>1
<1>4. k - 1 \in 0..n /\ ~(k <= k - 1) /\ k \in Nat
  BY <1>2, <1>3
<1>5. PICK f : Adds(o, what, k - 1, f)
  BY <1>2, <1>4
<1> HIDE DEF Missing, T
<1>6. \E g : Adds(o, what, k, g)
  BY <1>3, <1>4, <1>5, AddsStep
<1> QED
  BY <1>2, <1>6 DEF Missing

LEMMA AddsPrefix ==
  ASSUME NEW o, NEW p, NEW what, NEW n \in Nat, NEW f, NEW g,
         Adds(o, what, n, f), Adds(p, what, n + 1, g), \A i \in 1..n : p[i] = o[i]
  PROVE  g[n] = f[n]
<1>1. \A i \in 0..n : f[i] = IF i = 0 THEN 0 ELSE f[i - 1] + ValueOf(o, what, i)
  BY DEF Adds
<1>2. \A i \in 0..n + 1 : g[i] = IF i = 0 THEN 0 ELSE g[i - 1] + ValueOf(p, what, i)
  BY DEF Adds
<1> DEFINE T == {i \in 0..n : g[i] # f[i]}
<1> SUFFICES ASSUME T # {} PROVE FALSE
  BY DEF T
<1>3. T \in SUBSET Nat /\ \A i \in 0..n : i \in T <=> g[i] # f[i]
  OBVIOUS
<1>4. PICK k \in T : \A l \in T : k <= l
  <2> HIDE DEF T
  <2> QED
    BY <1>3, Smallest
<1>5. k \in 0..n /\ k \in 0..n + 1 /\ g[k] # f[k]
  BY <1>3, <1>4
<1> HIDE DEF T
<1>6. k # 0
  BY <1>1, <1>2, <1>5
<1>7. k \in 1..n /\ k - 1 \in 0..n /\ ~(k <= k - 1)
  BY <1>5, <1>6
<1>8. g[k - 1] = f[k - 1] /\ p[k] = o[k]
  BY <1>3, <1>4, <1>7
<1>9. f[k] = f[k - 1] + ValueOf(o, what, k)
  BY <1>1, <1>5, <1>6
<1>10. g[k] = g[k - 1] + ValueOf(p, what, k)
  BY <1>2, <1>5, <1>6
<1>11. ValueOf(p, what, k) = ValueOf(o, what, k)
  BY <1>8 DEF ValueOf
<1> QED
  BY <1>5, <1>8, <1>9, <1>10, <1>11

LEMMA TotalResult ==
  ASSUME NEW o, NEW what, Len(o) \in Nat
  PROVE  \E f : Adds(o, what, Len(o), f) /\ Total(o, what) = f[Len(o)]
<1> DEFINE f == CHOOSE sum : Adds(o, what, Len(o), sum)
<1>1. Adds(o, what, Len(o), f)
  BY AddsExist
<1>2. Total(o, what) = f[Len(o)]
  BY DEF Total, Adds, ValueOf
<1> QED
  BY <1>1, <1>2

LEMMA TotalAppend ==
  ASSUME NEW A, NEW o \in Seq(A), NEW x \in A, NEW what
  PROVE  Total(Append(o, x), what) = Total(o, what) + (IF x.what = what THEN x.val ELSE 0)
<1> DEFINE r == Append(o, x)
           n == Len(o)
<1>1. n \in Nat /\ n + 1 \in Nat /\ Len(r) = n + 1 /\ r[n + 1] = x /\ \A i \in 1..n : r[i] = o[i]
  OBVIOUS
<1>2. PICK f : Adds(o, what, n, f) /\ Total(o, what) = f[n]
  BY <1>1, TotalResult
<1> HIDE DEF r
<1>3. PICK g : Adds(r, what, n + 1, g) /\ Total(r, what) = g[n + 1]
  BY <1>1, TotalResult
<1> HIDE DEF n
<1>4. g[n] = f[n]
  BY <1>1, <1>2, <1>3, AddsPrefix
<1>6. g[n + 1] = g[n] + ValueOf(r, what, n + 1)
  <2> DEFINE m == n + 1
  <2>1. m \in 0..m /\ m # 0 /\ m - 1 = n
    BY <1>1
  <2> HIDE DEF m
  <2>2. Adds(r, what, m, g)
    BY <1>3 DEF m
  <2>3. g[m] = IF m = 0 THEN 0 ELSE g[m - 1] + ValueOf(r, what, m)
    BY <2>1, <2>2 DEF Adds
  <2> QED
    BY <2>1, <2>3 DEF m
<1>7. ValueOf(r, what, n + 1) = IF x.what = what THEN x.val ELSE 0
  BY <1>1 DEF ValueOf
<1> QED
  BY <1>2, <1>3, <1>4, <1>6, <1>7 DEF r

-----------------------------------------------------------------------------
(***************************************************************************)
(* Types and bounds.                                                       *)
(***************************************************************************)

LEMMA InitHolds ==
  ASSUME Init
  PROVE  HttpInv
<1>1. StreamHolds
  BY EmptyString DEF Init, StreamHolds, Chars
<1>2. LinksHold
  <2>1. backlog = <<>> /\ pc = "accept" /\ cl = NoClient /\ link = [c \in Clients |-> "idle"]
    BY DEF Init
  <2>2. backlog \in Seq(Clients) /\ IsInjective(backlog) /\ ToSet(backlog) = {}
    BY <2>1 DEF IsInjective, ToSet
  <2> QED
    BY <2>1, <2>2 DEF LinksHold, States, Alive
<1>3. WordHolds
  BY NoWordFits DEF Init, WordHolds
<1>4. AnswerHolds
  BY NoPlace DEF Init, AnswerHolds
<1> QED
  BY <1>1, <1>2, <1>3, <1>4 DEF HttpInv

\* The inductive invariant of the web server (HttpTask, uhttpd.c).
THEOREM HttpInvariance == Spec => []HttpInv
<1>1. Init => HttpInv
  BY InitHolds
<1>2. HttpInv /\ [Next]_vars => HttpInv'
  <2>1. CASE Next
    <3> SUFFICES ASSUME HttpInv, Next PROVE HttpInv'
      BY <2>1
    <3>1. StreamHolds'
      BY StreamKept
    <3>2. LinksHold'
      BY LinksKept
    <3>3. WordHolds'
      BY WordKept
    <3>4. AnswerHolds'
      BY AnswerKept
    <3> QED
      BY <3>1, <3>2, <3>3, <3>4 DEF HttpInv
  <2>2. CASE UNCHANGED vars
    BY <2>2 DEF HttpInv, StreamHolds, LinksHold, WordHolds, AnswerHolds,
                vars, client, stream, answer
  <2> QED
    BY <2>1, <2>2
<1> QED
  BY <1>1, <1>2, PTL DEF Spec

\* Every variable of the web server keeps its type, the parser reads only
\* what arrived, no word outgrows its buffer and no chunk its file
\* (StreamReadUntilChars, MediaTypeHandlerBinary, StreamClientAccept).
THEOREM HttpTypeCorrect == Spec => []HttpTypeOK
<1>1. HttpInv => HttpTypeOK
  <2> SUFFICES ASSUME HttpInv PROVE HttpTypeOK
    OBVIOUS
  <2>1. Range(backlog) = ToSet(backlog)
    BY DEF Range, ToSet
  <2> QED
    BY <2>1 DEF HttpInv, HttpTypeOK, StreamHolds, LinksHold, WordHolds, WordFits, AnswerHolds,
                States, Alive
<1> QED
  BY <1>1, HttpInvariance, PTL

-----------------------------------------------------------------------------
(***************************************************************************)
(* A word while it is read: the place a behind which it is looked for, its *)
(* first character s, its delimiter e, and the place p that is reached.    *)
(***************************************************************************)

Buffered == {"method", "uri", "name", "value"}
\* The word of kind "is" that is read behind place a begins at s and ends at e.
Span(t, a, s, e, is) ==
  /\ a \in Nat /\ a <= Len(t)
  /\ Leads(t, a + 1, s) /\ Ends(t, s, Delim(is), e) /\ e - s < Limit(is)

\* What is known of the word when place p has been reached.
Tracks(t, w, p, a, s, e) ==
  /\ a <= p /\ p <= e
  /\ w.done <=> (w.eof \/ p = e)
  /\ w.rc = (IF p < s THEN 0 ELSE p - s + 1)
  /\ (w.rc = 0 /\ ~w.skip) <=> p = a
  /\ w.is \in Buffered => w.buf = Clean(Part(t, s, IF p = e THEN e - 1 ELSE p))

LEMMA SpanPlaces ==
  ASSUME NEW t \in Chars, NEW a, NEW s, NEW e, NEW is, Span(t, a, s, e, is)
  PROVE  /\ a \in Nat /\ s \in Nat /\ e \in Nat /\ a < s /\ s <= e /\ e <= Len(t) + 1
         /\ Len(t) \in Nat /\ s >= 1
BY DEF Span, Leads, Ends, Chars

\* A word of which nothing is read.
LEMMA TracksNone ==
  ASSUME NEW t \in Chars, NEW a, NEW s, NEW e, NEW is \in Kinds, NEW key \in Keys,
         Span(t, a, s, e, is), NEW w, w = [NoWord EXCEPT !.is = is, !.key = key]
  PROVE  Tracks(t, w, a, a, s, e)
<1>1. /\ NoWord.rc = 0 /\ ~NoWord.skip /\ ~NoWord.eof /\ ~NoWord.done /\ NoWord.buf = <<>> /\ NoWord \in Words
  BY NoWordFits DEF NoWord
<1>2. w.rc = 0 /\ ~w.skip /\ ~w.eof /\ ~w.done /\ w.buf = <<>>
  BY <1>1 DEF Words
<1>3. a \in Nat /\ s \in Nat /\ e \in Nat /\ a < s /\ s <= e
  BY SpanPlaces
<1>4. Clean(Part(t, s, a)) = <<>>
  BY <1>3, PartEmpty, CleanEmpty
<1> QED
  BY <1>2, <1>3, <1>4 DEF Tracks

\* A word that ends at its delimiter never meets its limit before.
LEMMA TracksTake ==
  ASSUME StreamHolds, WordHolds, TakeChar, NEW a, NEW s, NEW e,
         Span(text, a, s, e, word.is), Tracks(text, word, ipos, a, s, e)
  PROVE  /\ Tracks(text, word', ipos + 1, a, s, e)
         /\ ~word'.eof /\ word'.is = word.is /\ word'.key = word.key
<1> DEFINE t == text
           p == ipos
           ch == text[ipos + 1]
<1>1. /\ a \in Nat /\ s \in Nat /\ e \in Nat /\ a < s /\ s <= e /\ e <= Len(t) + 1
      /\ Len(t) \in Nat /\ s >= 1 /\ t \in Chars
  BY SpanPlaces DEF StreamHolds, Chars
<1>2. p \in Nat /\ p + 1 <= Len(t) /\ ~word.done
  BY DEF StreamHolds, TakeChar, Empty
<1>3. ~word.eof /\ p # e /\ a <= p /\ p < e
  BY <1>1, <1>2 DEF Tracks
<1>4. /\ word.rc = (IF p < s THEN 0 ELSE p - s + 1)
      /\ word.is \in Buffered => word.buf = Clean(Part(t, s, p))
  BY <1>3 DEF Tracks
<1>5. /\ \A j \in a + 1..s - 1 : t[j] = "sp"
      /\ s <= Len(t) => t[s] # "sp"
      /\ \A j \in s..e - 1 : t[j] \notin Delim(word.is)
      /\ e <= Len(t) => t[e] \in Delim(word.is)
      /\ e - s < Limit(word.is) /\ Limit(word.is) \in Nat
  BY Limits DEF Span, Leads, Ends
<1>6. word \in Words
  BY DEF WordHolds
<1>7. CASE p + 1 < s
  <2>1. p + 1 \in a + 1..s - 1
    BY <1>1, <1>2, <1>3, <1>7
  <2>a. p < s /\ word.rc = 0
    BY <1>1, <1>2, <1>4, <1>7
  <2>b. ch = "sp"
    BY <1>5, <2>1
  <2>2. ch = "sp" /\ word.rc = 0
    BY <2>a, <2>b
  <2>3. word' = [word EXCEPT !.skip = TRUE]
    BY <2>2 DEF TakeChar
  <2>4. /\ word'.rc = word.rc /\ word'.eof = word.eof /\ word'.is = word.is /\ word'.skip
        /\ word'.done = word.done /\ word'.buf = word.buf /\ word'.key = word.key
    BY <1>6, <2>3 DEF Words
  <2>5. Clean(Part(t, s, p)) = <<>> /\ Clean(Part(t, s, p + 1)) = <<>>
    BY <1>1, <1>2, <1>7, PartEmpty, CleanEmpty
  <2>6. p + 1 <= e /\ p + 1 # e /\ a <= p + 1
    BY <1>1, <1>2, <1>3, <1>7
  <2>7. word'.rc = IF p + 1 < s THEN 0 ELSE p + 1 - s + 1
    BY <1>7, <2>2, <2>4
  <2>8. word'.is \in Buffered => word'.buf = Clean(Part(t, s, p + 1))
    BY <1>4, <2>4, <2>5
  <2>9. ~word'.done /\ ~word'.eof
    BY <1>2, <1>3, <2>4
  <2> HIDE DEF t, p
  <2>c. word'.done <=> (word'.eof \/ p + 1 = e)
    BY <2>6, <2>9
  <2>d. word'.is \in Buffered =>
          word'.buf = Clean(Part(t, s, IF p + 1 = e THEN e - 1 ELSE p + 1))
    BY <2>6, <2>8
  <2>10. Tracks(t, word', p + 1, a, s, e)
    <3> DEFINE q == p + 1
    <3>1. ~(word'.rc = 0 /\ ~word'.skip) /\ q # a
      BY <1>1, <1>2, <1>3, <2>4
    <3>2. a <= q /\ q <= e
      BY <2>6
    <3>3. word'.done <=> (word'.eof \/ q = e)
      BY <2>c
    <3>4. word'.rc = IF q < s THEN 0 ELSE q - s + 1
      <4>1. q < s /\ word'.rc = 0
        BY <1>7, <2>2, <2>4 DEF p
      <4> HIDE DEF q
      <4> QED
        BY <4>1
    <3>5. word'.is \in Buffered => word'.buf = Clean(Part(t, s, IF q = e THEN e - 1 ELSE q))
      BY <2>d
    <3> HIDE DEF q
    <3>6. Tracks(t, word', q, a, s, e)
      BY <3>1, <3>2, <3>3, <3>4, <3>5 DEF Tracks
    <3> QED
      BY <3>6 DEF q
  <2> QED
    BY <2>4, <2>9, <2>10 DEF t, p
<1>8. CASE s <= p + 1
  <2>1. ~(word.rc = 0 /\ ch = "sp")
    <3>1. CASE s = p + 1
      BY <1>2, <1>5, <3>1
    <3>2. CASE s < p + 1
      BY <1>1, <1>2, <1>4, <3>2
    <3> QED
      BY <1>1, <1>2, <1>8, <3>1, <3>2
  <2>2. word.rc = p - s + 1 /\ word.rc \in Nat
    BY <1>1, <1>2, <1>4, <1>8
  <2>3. ch \in Delim(word.is) <=> p + 1 = e
    <3>1. CASE p + 1 = e
      BY <1>2, <1>5, <3>1
    <3>2. CASE p + 1 # e
      <4>1. p + 1 \in s..e - 1
        BY <1>1, <1>2, <1>3, <1>8, <3>2
      <4> QED
        BY <1>5, <3>2, <4>1
    <3> QED
      BY <3>1, <3>2
  <2> DEFINE n == word.rc + 1
             d == ch \in Delim(word.is) \/ word.rc + 1 = Limit(word.is)
             b == IF ch \in Delim(word.is) \cup Ignore(word.is) \/ word.is = "skip"
                  THEN word.buf ELSE Append(word.buf, ch)
  <2>4. word' = [word EXCEPT !.rc = n, !.done = d, !.buf = b]
    BY <2>1 DEF TakeChar
  <2>5. d <=> p + 1 = e
    <3>1. p + 1 # e => word.rc + 1 # Limit(word.is)
      BY <1>1, <1>2, <1>3, <1>5, <2>2
    <3> QED
      BY <2>3, <3>1
  <2>6. word.is \in Buffered =>
          b = Clean(Part(t, s, IF p + 1 = e THEN e - 1 ELSE p + 1))
    <3> SUFFICES ASSUME word.is \in Buffered
                 PROVE  b = Clean(Part(t, s, IF p + 1 = e THEN e - 1 ELSE p + 1))
      OBVIOUS
    <3>1. word.buf = Clean(Part(t, s, p))
      BY <1>4
    <3>2. Ignore(word.is) = {"cr"} /\ word.is # "skip"
      BY DEF Ignore, Buffered
    <3>3. CASE p + 1 = e
      <4>1. b = word.buf /\ e - 1 = p
        BY <1>2, <2>3, <3>3
      <4> QED
        BY <3>1, <3>3, <4>1
    <3>4. CASE p + 1 # e
      <4>1. Part(t, s, p + 1) = Append(Part(t, s, p), ch) /\ ch \in STRING
        BY <1>1, <1>2, <1>8, PartGrows
      <4>2. Part(t, s, p) \in Chars
        BY <1>1, <1>2, PartType
      <4>3. b = IF ch = "cr" THEN word.buf ELSE Append(word.buf, ch)
        BY <2>3, <3>2, <3>4
      <4> HIDE DEF b, ch, t, p
      <4>4. Clean(Part(t, s, p + 1)) = IF ch = "cr" THEN Clean(Part(t, s, p))
                                       ELSE Append(Clean(Part(t, s, p)), ch)
        BY <4>1, <4>2, CleanAppend
      <4> QED
        BY <3>1, <3>4, <4>3, <4>4
    <3> QED
      BY <3>3, <3>4
  <2>7. n \in Nat /\ n = (p + 1) - s + 1 /\ n # 0
    BY <1>1, <1>2, <2>2
  <2> HIDE DEF n, d, b
  <2>8. /\ word'.rc = n /\ word'.done = d /\ word'.buf = b /\ word'.eof = word.eof
        /\ word'.is = word.is /\ word'.key = word.key
    BY <1>6, <2>4 DEF Words
  <2>9. a <= p + 1 /\ p + 1 <= e /\ ~(p + 1 < s) /\ p + 1 # a
    BY <1>1, <1>2, <1>3, <1>8
  <2> HIDE DEF t, p, ch
  <2>10. Tracks(t, word', p + 1, a, s, e)
    BY <1>3, <2>5, <2>6, <2>7, <2>8, <2>9 DEF Tracks
  <2> QED
    BY <1>3, <2>8, <2>10 DEF t, p
<1> QED
  BY <1>1, <1>2, <1>7, <1>8

-----------------------------------------------------------------------------
(***************************************************************************)
(* A word of the first line, seen in all of the text or in what arrived.   *)
(***************************************************************************)

\* The word that is complete, or broken off where the client hung up, is the
\* one of what was received.
Until(n, e) == IF e <= n THEN e ELSE n + 1
LEMMA WordRead ==
  ASSUME NEW t \in Chars, NEW w, NEW p \in Nat, NEW a, NEW s \in Nat, NEW e \in Nat, NEW n \in Nat,
         Tracks(t, w, p, a, s, e), w.done, w.is \in Buffered, p <= n, w.eof => n = p
  PROVE  w.buf = Clean(Part(t, s, Until(n, e) - 1))
<1>1. /\ p <= e /\ (w.eof \/ p = e)
      /\ w.buf = Clean(Part(t, s, IF p = e THEN e - 1 ELSE p))
  BY DEF Tracks
<1>2. CASE p = e
  BY <1>1, <1>2 DEF Until
<1>3. CASE p # e
  <2>1. n = p /\ ~(e <= n)
    BY <1>1, <1>3
  <2>2. Until(n, e) - 1 = p
    BY <2>1 DEF Until
  <2> QED
    BY <1>1, <1>3, <2>2
<1> QED
  BY <1>2, <1>3

LEMMA CutSpan ==
  ASSUME NEW t \in Chars, NEW n \in 0..Len(t), NEW a \in 0..n, NEW s, NEW D, NEW e,
         Leads(t, a + 1, s), Ends(t, s, D, e)
  PROVE  LET r == Cut(t, n) IN
         /\ End(r, Begin(r, a + 1), D) = Until(n, e)
         /\ Word(r, a + 1, Until(n, e)) = Clean(Part(t, s, Until(n, e) - 1))
<1> DEFINE r == Cut(t, n)
<1>1. r \in Chars /\ Len(r) = n
  BY CutText
<1>2. n \in Nat /\ a \in Nat /\ a <= n /\ Len(t) \in Nat /\ n <= Len(t)
  BY DEF Chars
<1>3. s \in Nat /\ a + 1 <= s /\ e \in Nat /\ s <= e
  BY DEF Leads, Ends
<1>4. a + 1 \in 1..n + 1
  BY <1>2
<1>5. Begin(r, a + 1) = IF s <= n THEN s ELSE n + 1
  BY <1>4, CutLeads
<1>6. Word(r, a + 1, Until(n, e)) = Clean(Part(r, Begin(r, a + 1), Until(n, e) - 1))
  BY DEF Word, Part
<1>7. CASE s <= n
  <2>1. s \in 1..n + 1
    BY <1>2, <1>3, <1>7
  <2>2. End(r, s, D) = Until(n, e)
    BY <2>1, CutEnds DEF Until
  <2>3. s >= 1 /\ Until(n, e) - 1 \in Int /\ Until(n, e) - 1 <= n
    BY <1>2, <1>3 DEF Until
  <2>4. Part(r, s, Until(n, e) - 1) = Part(t, s, Until(n, e) - 1)
    BY <1>3, <2>3, PartOfCut
  <2>5. Begin(r, a + 1) = s
    BY <1>5, <1>7
  <2> QED
    BY <1>6, <2>2, <2>4, <2>5
<1>8. CASE n < s
  <2>1. Begin(r, a + 1) = n + 1
    BY <1>2, <1>3, <1>5, <1>8
  <2>2. Until(n, e) = n + 1
    BY <1>2, <1>3, <1>8 DEF Until
  <2>3. Ends(r, n + 1, D, End(r, n + 1, D))
    <3>1. n + 1 \in Nat /\ n + 1 >= 1 /\ n + 1 <= Len(r) + 1
      BY <1>1, <1>2
    <3> QED
      BY <1>1, <3>1, EndEnds
  <2>4. End(r, n + 1, D) = n + 1
    <3> DEFINE x == End(r, n + 1, D)
    <3>1. x \in Nat /\ n + 1 <= x /\ x <= n + 1
      BY <1>1, <2>3 DEF Ends
    <3> HIDE DEF x
    <3> QED
      BY <1>2, <3>1 DEF x
  <2>5. Part(r, n + 1, n) = <<>> /\ Part(t, s, n) = <<>>
    BY <1>1, <1>2, <1>3, <1>8, PartEmpty
  <2>6. Until(n, e) - 1 = n
    BY <1>2, <2>2
  <2> QED
    BY <1>6, <2>1, <2>2, <2>4, <2>5, <2>6
<1> QED
  BY <1>2, <1>3, <1>7, <1>8

\* The method and the URI of a text, and of what was received of it.
LEMMA MethodPlaces ==
  ASSUME NEW t \in Chars
  PROVE  Leads(t, 1, Begin(t, 1)) /\ Ends(t, Begin(t, 1), Gap, MethodEnd(t))
<1>1. 1 <= Len(t) + 1 /\ Len(t) \in Nat
  BY DEF Chars
<1>2. Leads(t, 1, Begin(t, 1))
  BY <1>1, BeginLeads
<1>3. Begin(t, 1) \in Nat /\ Begin(t, 1) >= 1 /\ Begin(t, 1) <= Len(t) + 1
  BY <1>2 DEF Leads
<1> QED
  BY <1>2, <1>3, EndEnds DEF MethodEnd

\* Spaces that were passed are not looked at again.
LEMMA LeadsSkip ==
  ASSUME NEW t \in Chars, NEW k \in Nat, k >= 1, k <= Len(t), t[k] = "sp", NEW b, Leads(t, k, b)
  PROVE  Leads(t, k + 1, b)
<1> DEFINE n == Len(t)
<1>1. n \in Nat
  BY DEF Chars
<1>2. /\ b \in Nat /\ k <= b /\ b <= n + 1 /\ (b <= n => t[b] # "sp") /\ k <= n
      /\ \A j \in k..b - 1 : t[j] = "sp"
  BY DEF Leads
<1> HIDE DEF n
<1>3. b # k
  BY <1>2
<1>4. k + 1 <= b
  BY <1>2, <1>3
<1>5. \A j \in k + 1..b - 1 : t[j] = "sp"
  BY <1>2
<1> QED
  BY <1>2, <1>4, <1>5 DEF Leads, n

LEMMA UriPlaces ==
  ASSUME NEW t \in Chars, MethodEnd(t) <= Len(t), t[MethodEnd(t)] = "sp"
  PROVE  /\ MethodEnd(t) \in Nat /\ MethodEnd(t) >= 1
         /\ Leads(t, MethodEnd(t) + 1, Begin(t, MethodEnd(t)))
         /\ Ends(t, Begin(t, MethodEnd(t)), Gap, UriEnd(t))
         /\ Begin(t, MethodEnd(t) + 1) = Begin(t, MethodEnd(t))
<1> DEFINE m == MethodEnd(t)
<1>1. m \in Nat /\ m >= 1
  BY MethodPlaces DEF Leads, Ends
<1>2. m <= Len(t) + 1 /\ m + 1 <= Len(t) + 1 /\ m + 1 \in Nat /\ m + 1 >= 1 /\ Len(t) \in Nat
  BY <1>1 DEF Chars
<1> HIDE DEF m
<1>3. Leads(t, m, Begin(t, m))
  BY <1>1, <1>2, BeginLeads
<1>4. Leads(t, m + 1, Begin(t, m))
  BY <1>1, <1>3, LeadsSkip DEF m
<1>5. Leads(t, m + 1, Begin(t, m + 1))
  BY <1>2, BeginLeads
<1>6. Begin(t, m + 1) = Begin(t, m)
  BY <1>2, <1>4, <1>5, LeadsOnce
<1>7. Begin(t, m) \in Nat /\ Begin(t, m) >= 1 /\ Begin(t, m) <= Len(t) + 1
  BY <1>1, <1>3 DEF Leads
<1>8. Ends(t, Begin(t, m), Gap, UriEnd(t))
  BY <1>7, EndEnds DEF UriEnd, m
<1> QED
  BY <1>1, <1>4, <1>6, <1>8 DEF m

\* What arrived has the method of the text, or as much of it as arrived.
LEMMA CutMethod ==
  ASSUME NEW t \in Chars, NEW n \in 0..Len(t)
  PROVE  /\ MethodEnd(Cut(t, n)) = Until(n, MethodEnd(t))
         /\ Method(Cut(t, n)) = Clean(Part(t, Begin(t, 1), Until(n, MethodEnd(t)) - 1))
<1>1. 0 \in 0..n /\ 0 + 1 = 1
  BY DEF Chars
<1>2. Leads(t, 1, Begin(t, 1)) /\ Ends(t, Begin(t, 1), Gap, MethodEnd(t))
  BY MethodPlaces
<1> DEFINE r == Cut(t, n)
<1>3. /\ End(r, Begin(r, 1), Gap) = Until(n, MethodEnd(t))
      /\ Word(r, 1, Until(n, MethodEnd(t))) = Clean(Part(t, Begin(t, 1), Until(n, MethodEnd(t)) - 1))
  <2> DEFINE a == 0
             s == Begin(t, 1)
             e == MethodEnd(t)
  <2>1. a \in 0..n
    BY <1>1
  <2>2. a + 1 = 1
    OBVIOUS
  <2> HIDE DEF a, s, e, r
  <2>3. Leads(t, a + 1, s) /\ Ends(t, s, Gap, e)
    BY <1>2, <2>2 DEF s, e
  <2>4. /\ End(r, Begin(r, a + 1), Gap) = Until(n, e)
        /\ Word(r, a + 1, Until(n, e)) = Clean(Part(t, s, Until(n, e) - 1))
    <3>1. /\ End(Cut(t, n), Begin(Cut(t, n), a + 1), Gap) = Until(n, e)
          /\ Word(Cut(t, n), a + 1, Until(n, e)) = Clean(Part(t, s, Until(n, e) - 1))
      BY <2>1, <2>3, CutSpan
    <3> QED
      BY <3>1 DEF r
  <2> QED
    BY <2>2, <2>4 DEF s, e
<1>4. MethodEnd(r) = End(r, Begin(r, 1), Gap) /\ Method(r) = Word(r, 1, MethodEnd(r))
  BY DEF MethodEnd, Method
<1> HIDE DEF r
<1>5. MethodEnd(r) = Until(n, MethodEnd(t))
  BY <1>3, <1>4
<1> QED
  BY <1>3, <1>4, <1>5 DEF r

\* Likewise the URI, once the method has arrived.
LEMMA CutUri ==
  ASSUME NEW t \in Chars, NEW n \in 0..Len(t), MethodEnd(t) <= n, t[MethodEnd(t)] = "sp"
  PROVE  Uri(Cut(t, n)) = Clean(Part(t, Begin(t, MethodEnd(t)), Until(n, UriEnd(t)) - 1))
<1> DEFINE r == Cut(t, n)
           m == MethodEnd(t)
<1>1. /\ r \in Chars /\ Len(r) = n /\ (\A j \in 1..n : r[j] = t[j]) /\ n \in Nat
      /\ n <= Len(t) /\ Len(t) \in Nat
  BY CutText DEF Chars
<1>2. m \in Nat /\ m >= 1
  BY MethodPlaces DEF Leads, Ends
<1>3. m <= Len(t) /\ m \in 0..n /\ m \in 1..n
  BY <1>1, <1>2
<1>4. Leads(t, m + 1, Begin(t, m)) /\ Ends(t, Begin(t, m), Gap, UriEnd(t))
  BY <1>3, UriPlaces
<1>5. MethodEnd(r) = m
  BY CutMethod DEF Until
<1> DEFINE u == Until(n, UriEnd(t))
<1>6. /\ End(r, Begin(r, m + 1), Gap) = u
      /\ Word(r, m + 1, u) = Clean(Part(t, Begin(t, m), u - 1))
  BY <1>3, <1>4, CutSpan
<1>7. r[m] = "sp"
  BY <1>1, <1>3
<1> HIDE DEF r, m, u
<1>8. Begin(r, m + 1) = Begin(r, m)
  BY <1>1, <1>3, <1>5, <1>7, UriPlaces
<1>9. UriEnd(r) = u
  BY <1>5, <1>6, <1>8 DEF UriEnd
<1>10. Uri(r) = Word(r, m, u)
  BY <1>5, <1>9 DEF Uri
<1>11. Word(r, m, u) = Word(r, m + 1, u)
  BY <1>8 DEF Word
<1> QED
  BY <1>6, <1>10, <1>11 DEF r, m, u

\* Without the end of the method there is no URI.
LEMMA CutNoUri ==
  ASSUME NEW t \in Chars, NEW n \in 0..Len(t), n < MethodEnd(t)
  PROVE  Uri(Cut(t, n)) = <<>>
<1> DEFINE r == Cut(t, n)
<1>1. r \in Chars /\ Len(r) = n /\ n \in Nat /\ n + 1 \in Nat /\ n + 1 >= 1 /\ n + 1 <= Len(r) + 1
  BY CutText DEF Chars
<1>2. MethodEnd(t) \in Nat
  BY MethodPlaces DEF Leads, Ends
<1>3. MethodEnd(r) = n + 1
  BY <1>1, <1>2, CutMethod DEF Until
<1> HIDE DEF r
<1> DEFINE b == Begin(r, n + 1)
           e == End(r, b, Gap)
<1>4. b = n + 1
  <2>1. Leads(r, n + 1, b)
    BY <1>1, BeginLeads
  <2>2. b \in Nat /\ n + 1 <= b /\ b <= n + 1
    BY <1>1, <2>1 DEF Leads
  <2> HIDE DEF b
  <2> QED
    BY <1>1, <2>2
<1>5. e = n + 1
  <2>1. Ends(r, n + 1, Gap, e)
    BY <1>1, <1>4, EndEnds
  <2>2. e \in Nat /\ n + 1 <= e /\ e <= n + 1
    BY <1>1, <2>1 DEF Ends
  <2> HIDE DEF e
  <2> QED
    BY <1>1, <2>2
<1>6. Uri(r) = Clean(Part(r, n + 1, n + 1 - 1))
  BY <1>3, <1>4, <1>5 DEF Uri, UriEnd, Word, Part
<1>7. Part(r, n + 1, n + 1 - 1) = <<>>
  BY <1>1, PartEmpty
<1> QED
  BY <1>6, <1>7, CleanEmpty DEF r

-----------------------------------------------------------------------------
(***************************************************************************)
(* The pieces of an answer, and their sums.                                *)
(***************************************************************************)

\* The pieces of an answer.
Labels == {"status", "location", "length", "body"}
Pieces == [what : Labels, val : Nat]

LEMMA PieceType ==
  ASSUME NEW what \in Labels, NEW val \in Nat
  PROVE  Piece(what, val) \in Pieces /\ Piece(what, val).what = what /\ Piece(what, val).val = val
BY DEF Piece, Pieces

\* A sum of an answer is a number.
LEMMA TotalType ==
  ASSUME NEW o \in Seq(Pieces), NEW what
  PROVE  Total(o, what) \in Nat
<1> DEFINE n == Len(o)
<1>1. n \in Nat /\ \A i \in 1..n : o[i] \in Pieces
  OBVIOUS
<1>2. \A i \in 1..n : ValueOf(o, what, i) \in Nat
  BY <1>1 DEF ValueOf, Pieces
<1>3. PICK f : Adds(o, what, n, f) /\ Total(o, what) = f[n]
  BY <1>1, TotalResult
<1> HIDE DEF n
<1>4. \A i \in 0..n : f[i] = IF i = 0 THEN 0 ELSE f[i - 1] + ValueOf(o, what, i)
  BY <1>3 DEF Adds
<1> DEFINE T == {i \in 0..n : f[i] \notin Nat}
<1> SUFFICES ASSUME T # {} PROVE FALSE
  BY <1>1, <1>3
<1>5. T \in SUBSET Nat /\ \A i \in 0..n : i \in T <=> f[i] \notin Nat
  OBVIOUS
<1>6. PICK k \in T : \A l \in T : k <= l
  <2> HIDE DEF T
  <2> QED
    BY <1>5, Smallest
<1>7. k \in 0..n /\ f[k] \notin Nat
  BY <1>5, <1>6
<1> HIDE DEF T
<1>8. k # 0
  BY <1>4, <1>7
<1>9. k \in 1..n /\ k - 1 \in 0..n /\ ~(k <= k - 1)
  BY <1>1, <1>7, <1>8
<1>10. f[k - 1] \in Nat /\ ValueOf(o, what, k) \in Nat
  BY <1>2, <1>5, <1>6, <1>9
<1>11. f[k] = f[k - 1] + ValueOf(o, what, k)
  BY <1>4, <1>7, <1>8
<1> QED
  BY <1>7, <1>10, <1>11

\* The answer o goes on with the body when it has given what is due, and
\* with "more" bytes it has the body of what is due and those of the file.
Gives(due, bytes, o, more) ==
  /\ IsPrefix(due, o)
  /\ \A i \in Len(due) + 1 .. Len(o) : o[i].what = "body"
  /\ Total(o, "body") + more = Total(due, "body") + bytes

LEMMA PrefixSelf ==
  ASSUME NEW o
  PROVE  Len(o) \in Nat => IsPrefix(o, o)
BY DEF IsPrefix

LEMMA PrefixAppend ==
  ASSUME NEW due \in Seq(Pieces), NEW o \in Seq(Pieces), NEW x \in Pieces, IsPrefix(due, o)
  PROVE  IsPrefix(due, Append(o, x))
<1> DEFINE n == Len(due)
           r == Append(o, x)
<1>1. /\ n \in Nat /\ Len(o) \in Nat /\ n <= Len(o)
      /\ SubSeq(due, 1, n) = SubSeq(o, 1, n)
  BY DEF IsPrefix
<1>2. r \in Seq(Pieces) /\ Len(r) = Len(o) + 1 /\ \A i \in 1..Len(o) : r[i] = o[i]
  OBVIOUS
<1>3. /\ SubSeq(o, 1, n) \in Seq(Pieces) /\ Len(SubSeq(o, 1, n)) = n
      /\ \A i \in 1..n : SubSeq(o, 1, n)[i] = o[i]
  BY <1>1
<1>4. n <= Len(r)
  BY <1>1, <1>2
<1> HIDE DEF r
<1>5. /\ SubSeq(r, 1, n) \in Seq(Pieces) /\ Len(SubSeq(r, 1, n)) = n
      /\ \A i \in 1..n : SubSeq(r, 1, n)[i] = r[i]
  BY <1>1, <1>2, <1>4
<1>6. \A i \in 1..n : r[i] = o[i]
  BY <1>1, <1>2
<1> HIDE DEF n
<1> DEFINE u == SubSeq(o, 1, n)
           v == SubSeq(r, 1, n)
<1>7. /\ u \in Seq(Pieces) /\ v \in Seq(Pieces) /\ Len(u) = n /\ Len(v) = n
      /\ \A i \in 1..n : u[i] = v[i]
  BY <1>3, <1>5, <1>6
<1> HIDE DEF u, v
<1>8. u = v
  BY <1>7, SeqEqual
<1> QED
  BY <1>1, <1>4, <1>8 DEF IsPrefix, n, r, u, v

LEMMA GivesGrows ==
  ASSUME NEW due \in Seq(Pieces), NEW bytes, NEW o \in Seq(Pieces),
         NEW more \in Nat, NEW k \in Nat, Gives(due, bytes, o, more), k <= more
  PROVE  /\ Append(o, Piece("body", k)) \in Seq(Pieces)
         /\ Gives(due, bytes, Append(o, Piece("body", k)), more - k)
<1> DEFINE x == Piece("body", k)
           r == Append(o, x)
<1>1. x \in Pieces /\ x.what = "body" /\ x.val = k
  <2>1. "body" \in Labels
    BY DEF Labels
  <2> QED
    BY <2>1, PieceType
<1> HIDE DEF x
<1>2. IsPrefix(due, r)
  BY <1>1, PrefixAppend DEF Gives
<1>3. \A i \in Len(due) + 1 .. Len(r) : r[i].what = "body"
  <2>1. /\ Len(due) \in Nat /\ Len(o) \in Nat /\ Len(r) = Len(o) + 1 /\ r[Len(o) + 1] = x
        /\ \A i \in 1..Len(o) : r[i] = o[i]
    BY <1>1
  <2>2. \A i \in Len(due) + 1 .. Len(o) : o[i].what = "body"
    BY DEF Gives
  <2> HIDE DEF r
  <2> SUFFICES ASSUME NEW i \in Len(due) + 1 .. Len(r) PROVE r[i].what = "body"
    OBVIOUS
  <2>3. CASE i = Len(o) + 1
    BY <1>1, <2>1, <2>3
  <2>4. CASE i # Len(o) + 1
    <3>1. i \in 1..Len(o) /\ i \in Len(due) + 1 .. Len(o)
      BY <2>1, <2>4
    <3> QED
      BY <2>1, <2>2, <3>1
  <2> QED
    BY <2>3, <2>4
<1>4. Total(r, "body") = Total(o, "body") + k
  BY <1>1, TotalAppend
<1>5. Total(o, "body") \in Nat
  BY TotalType
<1>6. Total(o, "body") + more = Total(due, "body") + bytes
  BY DEF Gives
<1> HIDE DEF r
<1>7. Total(r, "body") + (more - k) = Total(o, "body") + more
  BY <1>4, <1>5
<1>8. Total(r, "body") + (more - k) = Total(due, "body") + bytes
  BY <1>6, <1>7
<1>9. r \in Seq(Pieces)
  BY <1>1 DEF r
<1> QED
  BY <1>2, <1>3, <1>8, <1>9 DEF Gives, r, x

\* What is due is all of the answer to begin with; the file is to come.
LEMMA GivesDue ==
  ASSUME NEW o \in Seq(Pieces), NEW bytes
  PROVE  Gives(o, bytes, o, bytes)
<1>1. Len(o) \in Nat
  OBVIOUS
<1>2. Len(o) + 1 .. Len(o) = {}
  BY <1>1
<1> QED
  BY <1>1, <1>2, PrefixSelf DEF Gives

LEMMA Nothing == <<>> \in Seq(Pieces)
OBVIOUS

\* The response functions send pieces.
LEMMA ErrorDue ==
  ASSUME NEW status \in Nat
  PROVE  HttpSendError(status) \in Seq(Pieces)
<1>1. "status" \in Labels /\ "length" \in Labels /\ "body" \in Labels /\ 1 \in Nat
  BY DEF Labels
<1>2. Piece("status", status) \in Pieces /\ Piece("length", 1) \in Pieces /\ Piece("body", 1) \in Pieces
  BY <1>1, PieceType
<1> QED
  BY <1>2 DEF HttpSendError

LEMMA RedirectionDue == HttpSendRedirection \in Seq(Pieces)
<1>1. /\ "status" \in Labels /\ "location" \in Labels /\ "length" \in Labels /\ "body" \in Labels
      /\ 301 \in Nat /\ 1 \in Nat /\ 0 \in Nat
  BY DEF Labels
<1>2. /\ Piece("status", 301) \in Pieces /\ Piece("location", 0) \in Pieces
      /\ Piece("length", 1) \in Pieces /\ Piece("body", 1) \in Pieces
  BY <1>1, PieceType
<1> QED
  BY <1>2 DEF HttpSendRedirection

LEMMA FileDue == FileHeader \in Seq(Pieces)
<1>1. "status" \in Labels /\ 200 \in Nat
  BY DEF Labels
<1>2. Piece("status", 200) \in Pieces
  BY <1>1, PieceType
<1> QED
  BY <1>2 DEF FileHeader

\* The header of a file is no page the server makes up.
LEMMA FileApart ==
  /\ FileHeader # <<>> /\ FileHeader # HttpSendRedirection
  /\ \A status : FileHeader # HttpSendError(status)
<1>1. Len(FileHeader) = 1
  BY DEF FileHeader
<1>2. Len(HttpSendRedirection) = 4
  BY DEF HttpSendRedirection
<1>3. \A status : Len(HttpSendError(status)) = 3
  BY DEF HttpSendError
<1>4. Len(<<>>) = 0
  OBVIOUS
<1> QED
  BY <1>1, <1>2, <1>3, <1>4

-----------------------------------------------------------------------------
(***************************************************************************)
(* What the first line asks for, and what is due for it.                   *)
(***************************************************************************)

\* What the first n characters ask for.
Due(t, n)   == AnswerTo(Cut(t, n))
Bytes(t, n) == FileBytes(Cut(t, n))
Asks(t, n)  == n # 0 /\ Method(Cut(t, n)) \in Methods
Url(t, n)   == Target(Cut(t, n))
UrlDue(url) == IF url = <<>> THEN HttpSendRedirection
               ELSE IF url \in DOMAIN Files THEN FileHeader ELSE HttpSendError(404)
UrlBytes(url) == IF url # <<>> /\ url \in DOMAIN Files THEN Files[url] ELSE 0

\* What is due in each of the cases the request line has.
LEMMA DueCases ==
  ASSUME NEW t \in Chars, NEW n \in 0..Len(t)
  PROVE  /\ n = 0 => Due(t, n) = <<>> /\ Bytes(t, n) = 0
         /\ n # 0 /\ Method(Cut(t, n)) \notin Methods
              => Due(t, n) = HttpSendError(501) /\ Bytes(t, n) = 0
         /\ Asks(t, n) => Due(t, n) = UrlDue(Url(t, n)) /\ Bytes(t, n) = UrlBytes(Url(t, n))
<1> DEFINE r == Cut(t, n)
           u == Target(r)
<1>1. r \in Chars /\ Len(r) = n
  BY CutText
<1>2. n = 0 => r = <<>>
  BY <1>1 DEF Chars
<1>3. n # 0 => r # <<>>
  BY <1>1
<1> HIDE DEF r
<1>4. AnswerTo(r) = IF r = <<>> THEN <<>>
                    ELSE IF Method(r) \notin Methods THEN HttpSendError(501)
                    ELSE UrlDue(u)
  BY DEF AnswerTo, UrlDue
<1>5. FileBytes(r) = IF AnswerTo(r) = FileHeader THEN Files[u] ELSE 0
  BY DEF FileBytes
<1>6. Due(t, n) = AnswerTo(r) /\ Bytes(t, n) = FileBytes(r) /\ Url(t, n) = u
      /\ (Asks(t, n) <=> (n # 0 /\ Method(r) \in Methods))
  BY DEF Due, Bytes, Url, Asks, r
<1> HIDE DEF u
<1>7. n = 0 => Due(t, n) = <<>> /\ Bytes(t, n) = 0
  BY <1>2, <1>4, <1>5, <1>6, FileApart
<1>8. n # 0 /\ Method(r) \notin Methods => Due(t, n) = HttpSendError(501) /\ Bytes(t, n) = 0
  BY <1>3, <1>4, <1>5, <1>6, FileApart
<1>9. Asks(t, n) => Due(t, n) = UrlDue(u)
  BY <1>3, <1>4, <1>6
<1>10. UrlDue(u) = FileHeader <=> u # <<>> /\ u \in DOMAIN Files
  BY FileApart DEF UrlDue
<1>11. Asks(t, n) => Bytes(t, n) = UrlBytes(u)
  BY <1>5, <1>6, <1>9, <1>10 DEF UrlBytes
<1> QED
  BY <1>6, <1>7, <1>8, <1>9, <1>11 DEF r

\* The bytes of the file that are still to be read.
LeftOf(f) == IF f.open THEN Files[f.name] - f.pos ELSE 0

LEMMA UrlDueType ==
  ASSUME NEW url
  PROVE  UrlDue(url) \in Seq(Pieces)
<1>1. 404 \in Nat
  OBVIOUS
<1> QED
  BY <1>1, RedirectionDue, FileDue, ErrorDue DEF UrlDue

\* The words of the first line have room.
LEMMA MethodSpan ==
  ASSUME NEW t \in Chars, RequestFits(t)
  PROVE  Span(t, 0, Begin(t, 1), MethodEnd(t), "method")
<1>1. Leads(t, 1, Begin(t, 1)) /\ Ends(t, Begin(t, 1), Gap, MethodEnd(t))
  BY MethodPlaces
<1>2. Delim("method") = Gap /\ Limit("method") = Siz
  BY DEF Delim, Limit, Gap
<1>3. MethodEnd(t) - Begin(t, 1) < Siz
  BY DEF RequestFits, Room
<1>4. 0 \in Nat /\ 0 <= Len(t) /\ 0 + 1 = 1
  BY DEF Chars
<1> QED
  BY <1>1, <1>2, <1>3, <1>4 DEF Span

LEMMA UriSpan ==
  ASSUME NEW t \in Chars, RequestFits(t), MethodEnd(t) <= Len(t), t[MethodEnd(t)] = "sp"
  PROVE  Span(t, MethodEnd(t), Begin(t, MethodEnd(t)), UriEnd(t), "uri")
<1>1. /\ MethodEnd(t) \in Nat
      /\ Leads(t, MethodEnd(t) + 1, Begin(t, MethodEnd(t)))
      /\ Ends(t, Begin(t, MethodEnd(t)), Gap, UriEnd(t))
  BY UriPlaces
<1>2. Delim("uri") = Gap /\ Limit("uri") = Siz
  BY DEF Delim, Limit, Gap
<1>3. UriEnd(t) - Begin(t, MethodEnd(t)) < Siz
  BY DEF RequestFits, Room
<1> QED
  BY <1>1, <1>2, <1>3 DEF Span

-----------------------------------------------------------------------------
(***************************************************************************)
(* The answer, from the first line to the end of the connection.  As long  *)
(* as more may arrive, it is right for whatever will have arrived.         *)
(***************************************************************************)

\* An input that ends was not reset and will bring no more.
EndHolds ==
  pc = "read" /\ word.eof =>
    word.done /\ (link[cl] = "reset" \/ (link[cl] = "fin" /\ ipos = sent))

PiecesHold == out \in Seq(Pieces) /\ todo \in Seq(Pieces)

\* How much of the request the server may see in the end.
Lengths(t, l, k) == {n \in k..Len(t) : l = "fin" => n = k}

\* The answer, at each stage.
Fresh == out = <<>> /\ todo = <<>> /\ ~file.open
AtMethod ==
  Fresh /\ Tracks(text, word, ipos, 0, Begin(text, 1), MethodEnd(text))
UriFound ==
  /\ MethodEnd(text) <= ipos /\ text[MethodEnd(text)] = "sp"
  /\ Tracks(text, word, ipos, MethodEnd(text), Begin(text, MethodEnd(text)), UriEnd(text))
UriMissing == ipos < MethodEnd(text) /\ link[cl] = "fin" /\ ipos = sent /\ word.buf = <<>>
AtUri ==
  /\ Fresh /\ (UriFound \/ UriMissing)
  /\ \A n \in Lengths(text, link[cl], sent) : Asks(text, n)
AtRest ==
  Fresh /\ \A n \in Lengths(text, link[cl], sent) : Asks(text, n) /\ req.url = Url(text, n)
AtSend ==
  \A n \in Lengths(text, link[cl], sent) :
    Gives(Due(text, n), Bytes(text, n), out \o todo, LeftOf(file))
AtEnd == Gives(Due(text, sent), Bytes(text, sent), out, 0)

Reads(is) == pc = "read" /\ word.is = is
Rest == pc = "serve" \/ (pc = "read" /\ word.is \notin {"method", "uri"})
Tracked == RequestFits(text) /\ cl # NoClient /\ link[cl] # "reset"
AnswerState ==
  Tracked =>
    /\ Reads("method") => AtMethod
    /\ Reads("uri") => AtUri
    /\ Rest => AtRest
    /\ pc \in {"send", "close"} => AtSend
    /\ pc = "accept" /\ link[cl] = "closed" => AtEnd

\* What is sent and to be sent are pieces of an answer.
LEMMA PiecesKept ==
  ASSUME HttpInv, PiecesHold, Next
  PROVE  PiecesHold'
<1> USE DEF PiecesHold
<1>1. CASE UNCHANGED <<out, todo>>
  BY <1>1
<1>2. CASE Environment \/ Fill \/ TakeChar \/ Answered \/ CloseSocket
  BY <1>1, <1>2 DEF Environment, Connect, Send, HangUp, Fill, TakeChar, Answered, CloseSocket, answer
<1>3. CASE HttpParseHeader
  <2>1. 501 \in Nat
    OBVIOUS
  <2>2. out' = out /\ (todo' = todo \/ todo' = HttpSendError(501))
    BY <1>3 DEF HttpParseHeader, GotMethod, GotUri, GotVersion, GotName, GotValue,
       GotSkipped, Respond, answer
  <2> QED
    BY <2>1, <2>2, ErrorDue
<1>4. CASE Serve
  <2>1. 404 \in Nat
    OBVIOUS
  <2>2. /\ out' = out
        /\ \/ todo' = HttpSendRedirection \/ todo' = HttpSendError(404)
           \/ todo' = FileHeader
    BY <1>4 DEF Serve, Respond
  <2>3. CASE todo' = HttpSendRedirection
    BY <2>2, <2>3, RedirectionDue
  <2>4. CASE todo' = HttpSendError(404)
    BY <2>1, <2>2, <2>4, ErrorDue
  <2>5. CASE todo' = FileHeader
    BY <2>2, <2>5, FileDue
  <2> QED
    BY <2>2, <2>3, <2>4, <2>5
<1>5. CASE SendPiece
  <2>1. Head(todo) \in Pieces /\ Tail(todo) \in Seq(Pieces)
    BY <1>5 DEF SendPiece
  <2>2. todo' = Tail(todo) /\ (out' = out \/ out' = Append(out, Head(todo)))
    BY <1>5 DEF SendPiece
  <2> QED
    BY <2>1, <2>2
<1>6. CASE SendChunk
  <2> DEFINE got == Read(Files[file.name], file.pos)
             x == Piece("body", got)
  <2>1. out' = out /\ todo' = IF got > 0 THEN <<x>> ELSE <<>>
    BY <1>6 DEF SendChunk
  <2>2. got \in Nat
    <3>1. /\ file.name \in DOMAIN Files /\ file.pos \in Nat /\ Files[file.name] \in Nat
          /\ file.pos <= Files[file.name]
      BY <1>6, HttpAssumption DEF SendChunk, HttpInv, AnswerHolds, Places
    <3> QED
      BY <3>1, ChunkWithin
  <2>3. "body" \in Labels
    BY DEF Labels
  <2> HIDE DEF got
  <2>4. x \in Pieces
    BY <2>2, <2>3, PieceType
  <2> HIDE DEF x
  <2>5. <<x>> \in Seq(Pieces) /\ <<>> \in Seq(Pieces)
    BY <2>4
  <2> QED
    BY <2>1, <2>5
<1>7. CASE Accept
  <2>1. out' = <<>> /\ todo' = todo
    BY <1>7 DEF Accept
  <2> QED
    BY <2>1, Nothing
<1> QED
  BY <1>2, <1>3, <1>4, <1>5, <1>6, <1>7 DEF Next, HttpTask

\* While a connection is served, its client may send more or hang up; less
\* and less can then still arrive.
LEMMA ClientSteps ==
  ASSUME HttpInv, Environment, pc # "accept"
  PROVE  /\ UNCHANGED <<text, pc, cl, ipos, ilen, word, req, out, todo, file>>
         /\ link[cl] = "fin" => link'[cl] \in {"fin", "reset"} /\ sent' = sent
         /\ link[cl] = "reset" => link'[cl] = "reset" /\ sent' = sent
         /\ link'[cl] # "closed"
         /\ Lengths(text, link'[cl], sent') \subseteq Lengths(text, link[cl], sent)
<1>0. /\ cl \in Clients /\ link[cl] \in Alive /\ link \in [Clients -> States]
      /\ sent \in Nat /\ Len(text) \in Nat
  BY DEF HttpInv, LinksHold, StreamHolds
<1>1. CASE Send
  <2>1. /\ link[cl] = "open" /\ link' = link /\ sent' \in sent + 1..Len(text)
        /\ UNCHANGED <<text, pc, cl, ipos, ilen, word, req, out, todo, file>>
    BY <1>1 DEF Send, stream, answer
  <2>2. Lengths(text, link'[cl], sent') \subseteq Lengths(text, link[cl], sent)
    BY <1>0, <2>1 DEF Lengths
  <2> QED
    BY <2>1, <2>2
<1>2. ASSUME NEW c \in Clients, Connect(c)
      PROVE  /\ UNCHANGED <<text, sent, pc, cl, ipos, ilen, word, req, out, todo, file>>
             /\ link'[cl] = link[cl]
  <2>1. link[c] \notin Alive /\ link' = [link EXCEPT ![c] = "open"]
    BY <1>2 DEF Connect, Alive
  <2>2. link'[cl] = link[cl]
    BY <1>0, <2>1
  <2> QED
    BY <1>2, <2>2 DEF Connect, stream, answer
<1>3. ASSUME NEW c \in Clients, HangUp(c)
      PROVE  /\ UNCHANGED <<text, sent, pc, cl, ipos, ilen, word, req, out, todo, file>>
             /\ link'[cl] = link[cl] \/ (link[cl] = "open" /\ link'[cl] \in {"fin", "reset"})
  <2>1. link[c] = "open" /\ \E how \in {"fin", "reset"} : link' = [link EXCEPT ![c] = how]
    BY <1>3 DEF HangUp
  <2>2. link'[cl] = link[cl] \/ (link[cl] = "open" /\ link'[cl] \in {"fin", "reset"})
    BY <1>0, <2>1
  <2> QED
    BY <1>3, <2>2 DEF HangUp, stream, answer
<1>4. CASE \E c \in Clients : Connect(c) \/ HangUp(c)
  <2>1. /\ UNCHANGED <<text, sent, pc, cl, ipos, ilen, word, req, out, todo, file>>
        /\ link'[cl] = link[cl] \/ (link[cl] = "open" /\ link'[cl] \in {"fin", "reset"})
    BY <1>2, <1>3, <1>4
  <2>2. Lengths(text, link'[cl], sent') \subseteq Lengths(text, link[cl], sent)
    BY <1>0, <2>1 DEF Lengths
  <2>3. link'[cl] # "closed"
    BY <1>0, <2>1 DEF Alive
  <2> QED
    BY <2>1, <2>2, <2>3
<1> QED
  BY <1>1, <1>4 DEF Environment

LEMMA FreshWordOf ==
  ASSUME NEW is \in Kinds, NEW key \in Keys, StartWord(is, key)
  PROVE  word'.is = is /\ word'.key = key /\ ~word'.eof /\ ~word'.done /\ pc' = "read"
<1>1. NoWord \in Words /\ ~NoWord.eof /\ ~NoWord.done
  BY NoWordFits DEF NoWord
<1>2. word' = [NoWord EXCEPT !.is = is, !.key = key] /\ pc' = "read"
  BY DEF StartWord
<1> QED
  BY <1>1, <1>2 DEF Words

LEMMA FillSteps ==
  ASSUME HttpInv, Fill
  PROVE  /\ UNCHANGED <<link, backlog, text, sent, pc, cl, ipos, req, out, todo, file>>
         /\ pc = "read" /\ ipos = ilen /\ ~word.done
         /\ \/ /\ link[cl] = "reset" /\ word'.done
            \/ word' = word
            \/ /\ link[cl] = "fin" /\ ipos = sent
               /\ word' = [word EXCEPT !.done = TRUE, !.eof = TRUE]
<1>1. /\ UNCHANGED <<link, backlog, text, sent, pc, cl, req, out, todo, file>>
      /\ pc = "read" /\ ipos = ilen /\ ~word.done
  BY DEF Fill, client, answer, Empty
<1>2. word \in Words /\ ilen <= sent /\ ilen \in Nat /\ sent \in Nat
  BY DEF HttpInv, WordHolds, StreamHolds
<1>3. CASE link[cl] = "reset"
  <2>1. word' = [word EXCEPT !.done = TRUE, !.eof = TRUE, !.rc = 0, !.skip = FALSE] /\ ipos' = ipos
    BY <1>3 DEF Fill, stream
  <2>2. word'.done
    BY <1>2, <2>1 DEF Words
  <2> QED
    BY <1>1, <1>3, <2>1, <2>2
<1>4. CASE link[cl] # "reset" /\ sent > ilen
  <2>1. word' = word /\ ipos' = ilen
    BY <1>4 DEF Fill
  <2> QED
    BY <1>1, <2>1
<1>5. CASE link[cl] # "reset" /\ ~(sent > ilen)
  <2>1. link[cl] = "fin" /\ word' = [word EXCEPT !.done = TRUE, !.eof = TRUE] /\ ipos' = ipos
    BY <1>5 DEF Fill, stream
  <2>2. ipos = sent
    BY <1>1, <1>2, <1>5
  <2> QED
    BY <1>1, <2>1, <2>2
<1> QED
  BY <1>3, <1>4, <1>5

\* The end of the input is met only where the client hung up.
LEMMA EndKept ==
  ASSUME HttpInv, EndHolds, Next
  PROVE  EndHolds'
<1>1. CASE Environment
  <2>1. CASE pc = "accept"
    <3>1. pc' = pc
      BY <1>1 DEF Environment, Send, Connect, HangUp
    <3> QED
      BY <2>1, <3>1 DEF EndHolds
  <2>2. CASE pc # "accept"
    <3>1. /\ UNCHANGED <<pc, cl, ipos, word>>
          /\ link[cl] = "fin" => link'[cl] \in {"fin", "reset"} /\ sent' = sent
          /\ link[cl] = "reset" => link'[cl] = "reset" /\ sent' = sent
      BY <1>1, <2>2, ClientSteps
    <3> QED
      BY <3>1 DEF EndHolds
  <2> QED
    BY <2>1, <2>2
<1>2. CASE pc' # "read"
  BY <1>2 DEF EndHolds
<1>3. CASE ~word'.eof
  BY <1>3 DEF EndHolds
<1>4. CASE \E is \in Kinds, key \in Keys : StartWord(is, key)
  BY <1>3, <1>4, FreshWordOf
<1>5. CASE Fill
  <2>1. /\ UNCHANGED <<link, text, sent, pc, cl, ipos>> /\ pc = "read" /\ ~word.done
        /\ \/ /\ link[cl] = "reset" /\ word'.done
           \/ word' = word
           \/ /\ link[cl] = "fin" /\ ipos = sent
              /\ word' = [word EXCEPT !.done = TRUE, !.eof = TRUE]
    BY <1>5, FillSteps
  <2>2. CASE word' = word
    BY <2>1, <2>2 DEF EndHolds
  <2>3. CASE word' = [word EXCEPT !.done = TRUE, !.eof = TRUE] /\ link[cl] = "fin" /\ ipos = sent
    <3>1. word'.done
      BY <2>3 DEF HttpInv, WordHolds, Words
    <3> QED
      BY <2>1, <2>3, <3>1 DEF EndHolds
  <2>4. CASE link[cl] = "reset" /\ word'.done
    BY <2>1, <2>4 DEF EndHolds
  <2> QED
    BY <2>1, <2>2, <2>3, <2>4
<1>6. CASE TakeChar
  <2>1. ~word.eof
    BY <1>6 DEF TakeChar, EndHolds
  <2>2. word \in Words
    BY DEF HttpInv, WordHolds
  <2>3. word'.eof = word.eof
    BY <1>6, <2>2 DEF TakeChar, Words
  <2> QED
    BY <1>3, <2>1, <2>3
<1>7. CASE HttpParseHeader
  <2> USE DEF Kinds, Keys
  <2>1. CASE GotMethod
    BY <2>1, <1>2, <1>4 DEF GotMethod, Respond
  <2>2. CASE GotUri
    BY <2>2, <1>4 DEF GotUri
  <2>3. CASE GotVersion
    BY <2>3, <1>4 DEF GotVersion
  <2>4. CASE GotName
    BY <2>4, <1>2, <1>4 DEF GotName
  <2>5. CASE GotValue
    BY <2>5, <1>4 DEF GotValue
  <2>6. CASE GotSkipped
    BY <2>6, <1>4 DEF GotSkipped
  <2> QED
    BY <1>7, <2>1, <2>2, <2>3, <2>4, <2>5, <2>6 DEF HttpParseHeader
<1>8. CASE Accept
  BY <1>4, <1>8 DEF Accept, Kinds, Keys
<1>9. CASE Serve \/ SendPiece \/ SendChunk \/ Answered \/ CloseSocket
  BY <1>9, <1>2 DEF Serve, Respond, SendPiece, SendChunk, Answered, CloseSocket
<1> QED
  BY <1>1, <1>5, <1>6, <1>7, <1>8, <1>9 DEF Next, HttpTask

LEMMA TracksEof ==
  ASSUME NEW t, NEW w \in Words, NEW p, NEW a, NEW s, NEW e, Tracks(t, w, p, a, s, e),
         NEW v, v = [w EXCEPT !.done = TRUE, !.eof = TRUE]
  PROVE  Tracks(t, v, p, a, s, e) /\ v.is = w.is /\ v.buf = w.buf /\ v.key = w.key
<1>1. /\ v.rc = w.rc /\ v.skip = w.skip /\ v.is = w.is /\ v.buf = w.buf /\ v.key = w.key
      /\ v.done /\ v.eof
  BY DEF Words
<1>2. v.done <=> (v.eof \/ p = e)
  BY <1>1
<1> QED
  BY <1>1, <1>2 DEF Tracks

\* What the clients do leaves the answer as right as it was.
LEMMA AnswerEnvironment ==
  ASSUME HttpInv, AnswerState, Environment
  PROVE  AnswerState'
<1>1. CASE pc = "accept"
  <2>1. pc' = pc /\ cl' = cl /\ text' = text /\ out' = out
    BY <1>1 DEF Environment, Send, Connect, HangUp, answer
  <2>2. link'[cl] = "closed" /\ cl # NoClient => link[cl] = "closed" /\ sent' = sent
    <3> SUFFICES ASSUME link'[cl] = "closed", cl # NoClient PROVE link[cl] = "closed" /\ sent' = sent
      OBVIOUS
    <3>1. cl \in Clients /\ link \in [Clients -> States]
      BY DEF HttpInv, LinksHold
    <3>2. ~Send
      BY <1>1 DEF Send
    <3>3. PICK c \in Clients : Connect(c) \/ HangUp(c)
      BY <3>2 DEF Environment
    <3>4. sent' = sent /\ \E how \in {"open", "fin", "reset"} : link' = [link EXCEPT ![c] = how]
      BY <3>3 DEF Connect, HangUp
    <3> QED
      BY <3>1, <3>4
  <2>3. Tracked' /\ pc' = "accept" /\ link'[cl'] = "closed" =>
          Tracked /\ pc = "accept" /\ link[cl] = "closed" /\ sent' = sent
    BY <1>1, <2>1, <2>2 DEF Tracked
  <2>4. ~Reads("method")' /\ ~Reads("uri")' /\ ~Rest' /\ pc' \notin {"send", "close"}
    BY <1>1, <2>1 DEF Reads, Rest
  <2> QED
    BY <2>1, <2>3, <2>4 DEF AnswerState, AtEnd
<1>2. CASE pc # "accept"
  <2>1. /\ UNCHANGED <<text, pc, cl, ipos, ilen, word, req, out, todo, file>>
        /\ link[cl] = "fin" => link'[cl] \in {"fin", "reset"} /\ sent' = sent
        /\ link[cl] = "reset" => link'[cl] = "reset" /\ sent' = sent
        /\ Lengths(text, link'[cl], sent') \subseteq Lengths(text, link[cl], sent)
    BY <1>2, ClientSteps
  <2> SUFFICES ASSUME Tracked' PROVE AnswerState'
    BY DEF AnswerState
  <2>2. Tracked /\ link'[cl] # "reset"
    BY <2>1 DEF Tracked
  <2>3. /\ Reads("method")' <=> Reads("method")
        /\ Reads("uri")' <=> Reads("uri")
        /\ Rest' <=> Rest
    BY <2>1 DEF Reads, Rest
  <2> DEFINE L == Lengths(text, link[cl], sent)
             M == Lengths(text', link'[cl'], sent')
  <2>4. M \subseteq L
    BY <2>1
  <2>5. AtMethod => AtMethod'
    BY <2>1 DEF AtMethod, Fresh
  <2>6. AtUri => AtUri'
    <3>1. UriFound => UriFound'
      BY <2>1 DEF UriFound
    <3>2. UriMissing => UriMissing'
      BY <2>1, <2>2 DEF UriMissing
    <3>3. Fresh => Fresh'
      BY <2>1 DEF Fresh
    <3>4. (\A n \in L : Asks(text, n)) => \A n \in M : Asks(text', n)
      <4> HIDE DEF L, M
      <4> QED
        BY <2>1, <2>4
    <3> HIDE DEF L, M
    <3> QED
      BY <3>1, <3>2, <3>3, <3>4 DEF AtUri, L, M
  <2>7. AtRest => AtRest'
    <3>1. Fresh => Fresh'
      BY <2>1 DEF Fresh
    <3>2. (\A n \in L : Asks(text, n) /\ req.url = Url(text, n))
            => \A n \in M : Asks(text', n) /\ req'.url = Url(text', n)
      <4> HIDE DEF L, M
      <4> QED
        BY <2>1, <2>4
    <3> QED
      BY <3>1, <3>2 DEF AtRest
  <2>8. AtSend => AtSend'
    <3>1. (\A n \in L : Gives(Due(text, n), Bytes(text, n), out \o todo, LeftOf(file)))
            => \A n \in M : Gives(Due(text', n), Bytes(text', n), out' \o todo', LeftOf(file'))
      <4> HIDE DEF L, M
      <4> QED
        BY <2>1, <2>4
    <3> QED
      BY <3>1 DEF AtSend
  <2> QED
    BY <1>2, <2>1, <2>2, <2>3, <2>5, <2>6, <2>7, <2>8 DEF AnswerState
<1> QED
  BY <1>1, <1>2

\* Reading goes on.
LEMMA AnswerFill ==
  ASSUME HttpInv, AnswerState, Fill
  PROVE  AnswerState'
<1>1. /\ UNCHANGED <<link, text, sent, pc, cl, ipos, req, out, todo, file>>
      /\ pc = "read" /\ ~word.done
      /\ \/ /\ link[cl] = "reset" /\ word'.done
         \/ word' = word
         \/ /\ link[cl] = "fin" /\ ipos = sent
            /\ word' = [word EXCEPT !.done = TRUE, !.eof = TRUE]
  BY FillSteps
<1> SUFFICES ASSUME Tracked' PROVE AnswerState'
  BY DEF AnswerState
<1>2. Tracked /\ link[cl] # "reset"
  BY <1>1 DEF Tracked
<1>3. word \in Words
  BY DEF HttpInv, WordHolds
<1>4. /\ word'.is = word.is /\ word'.buf = word.buf
      /\ \A a, s, e : Tracks(text, word, ipos, a, s, e) => Tracks(text, word', ipos, a, s, e)
  <2>1. CASE word' = word
    BY <2>1
  <2>2. CASE word' = [word EXCEPT !.done = TRUE, !.eof = TRUE]
    <3>1. word'.is = word.is /\ word'.buf = word.buf
      BY <1>3, <2>2 DEF Words
    <3>2. ASSUME NEW a, NEW s, NEW e, Tracks(text, word, ipos, a, s, e)
          PROVE  Tracks(text, word', ipos, a, s, e)
      BY <1>3, <2>2, <3>2, TracksEof
    <3> QED
      BY <3>1, <3>2
  <2> QED
    BY <1>1, <1>2, <2>1, <2>2
<1>5. /\ Reads("method")' <=> Reads("method")
      /\ Reads("uri")' <=> Reads("uri")
      /\ Rest' <=> Rest
  BY <1>1, <1>4 DEF Reads, Rest
<1>6. Fresh' <=> Fresh
  BY <1>1 DEF Fresh
<1>7. AtMethod => AtMethod'
  BY <1>1, <1>4, <1>6 DEF AtMethod
<1>8. AtUri => AtUri'
  <2>1. UriFound => UriFound'
    BY <1>1, <1>4 DEF UriFound
  <2>2. UriMissing => UriMissing'
    BY <1>1, <1>4 DEF UriMissing
  <2> QED
    BY <1>1, <1>6, <2>1, <2>2 DEF AtUri
<1>9. AtRest => AtRest'
  BY <1>1, <1>6 DEF AtRest
<1> QED
  BY <1>1, <1>2, <1>5, <1>7, <1>8, <1>9 DEF AnswerState

LEMMA AnswerTake ==
  ASSUME HttpInv, AnswerState, TakeChar
  PROVE  AnswerState'
<1>1. /\ UNCHANGED <<link, text, sent, pc, cl, req, out, todo, file>>
      /\ pc = "read" /\ ipos' = ipos + 1 /\ ipos # ilen
  BY DEF TakeChar, client, answer, Empty
<1>2. /\ StreamHolds /\ WordHolds /\ text \in Chars /\ ipos \in Nat /\ ilen \in Nat
      /\ ipos <= ilen /\ ilen <= sent /\ sent \in Nat /\ ipos < sent /\ word \in Words
      /\ ipos + 1 <= Len(text) /\ Len(text) \in Nat
  BY <1>1 DEF HttpInv, StreamHolds, WordHolds, Chars
<1> SUFFICES ASSUME Tracked' PROVE AnswerState'
  BY DEF AnswerState
<1>3. Tracked /\ RequestFits(text)
  BY <1>1 DEF Tracked
<1>4. word'.is = word.is
  BY <1>2 DEF TakeChar, Words
<1>5. /\ Reads("method")' <=> Reads("method")
      /\ Reads("uri")' <=> Reads("uri")
      /\ Rest' <=> Rest
  BY <1>1, <1>4 DEF Reads, Rest
<1>6. Fresh' <=> Fresh
  BY <1>1 DEF Fresh
<1>7. Reads("method") /\ AtMethod => AtMethod'
  <2> SUFFICES ASSUME Reads("method"), AtMethod PROVE AtMethod'
    OBVIOUS
  <2> DEFINE s == Begin(text, 1)
             e == MethodEnd(text)
  <2>1. Span(text, 0, s, e, word.is)
    BY <1>2, <1>3, MethodSpan DEF Reads
  <2>2. Tracks(text, word, ipos, 0, s, e)
    BY DEF AtMethod
  <2> HIDE DEF s, e
  <2>3. Tracks(text, word', ipos + 1, 0, s, e)
    BY <1>2, <2>1, <2>2, TracksTake
  <2> QED
    BY <1>1, <1>6, <2>3 DEF AtMethod, s, e
<1>8. Reads("uri") /\ AtUri => AtUri'
  <2> SUFFICES ASSUME Reads("uri"), AtUri PROVE AtUri'
    OBVIOUS
  <2>1. ~UriMissing
    BY <1>2 DEF UriMissing
  <2>2. UriFound
    BY <2>1 DEF AtUri
  <2> DEFINE m == MethodEnd(text)
             s == Begin(text, m)
             e == UriEnd(text)
  <2>3. m <= ipos /\ text[m] = "sp" /\ Tracks(text, word, ipos, m, s, e)
    BY <2>2 DEF UriFound
  <2>4. m \in Nat
    BY <1>2, MethodPlaces DEF Ends
  <2>5. m <= Len(text) /\ m <= ipos + 1
    BY <1>2, <2>3, <2>4
  <2>6. Span(text, m, s, e, word.is)
    BY <1>2, <1>3, <2>3, <2>5, UriSpan DEF Reads
  <2> HIDE DEF m, s, e
  <2>7. Tracks(text, word', ipos + 1, m, s, e)
    BY <1>2, <2>3, <2>6, TracksTake
  <2>8. UriFound'
    BY <1>1, <2>3, <2>5, <2>7 DEF UriFound, m, s, e
  <2> QED
    BY <1>1, <1>6, <2>8 DEF AtUri
<1>9. AtRest => AtRest'
  BY <1>1, <1>6 DEF AtRest
<1> QED
  BY <1>1, <1>3, <1>5, <1>7, <1>8, <1>9 DEF AnswerState

LEMMA GotNothing ==
  ASSUME NEW w \in Words
  PROVE  Got(w) = 0 <=> w.rc = 0 /\ ~w.skip
<1>1. w.rc \in Nat /\ w.skip \in BOOLEAN
  BY DEF Words
<1>2. CASE w.skip
  BY <1>1, <1>2 DEF Got
<1>3. CASE ~w.skip
  BY <1>1, <1>3 DEF Got
<1> QED
  BY <1>2, <1>3

\* A word that is complete is the word of whatever will have arrived.
LEMMA LengthsRead ==
  ASSUME HttpInv, EndHolds, pc = "read", word.done, link[cl] # "reset",
         NEW n \in Lengths(text, link[cl], sent)
  PROVE  n \in 0..Len(text) /\ n \in Nat /\ ipos <= n /\ (word.eof => n = ipos)
<1>1. sent \in Nat /\ ipos \in Nat /\ ipos <= sent /\ Len(text) \in Nat
  BY DEF HttpInv, StreamHolds
<1>2. n \in sent..Len(text) /\ (link[cl] = "fin" => n = sent)
  BY DEF Lengths
<1>3. word.eof => link[cl] = "fin" /\ ipos = sent
  BY DEF EndHolds
<1> QED
  BY <1>1, <1>2, <1>3

LEMMA EmptyConcat ==
  ASSUME NEW o \in Seq(Pieces)
  PROVE  <<>> \o o = o /\ o \o <<>> = o
OBVIOUS

\* With the method the server knows whether it answers 501.
LEMMA AnswerMethod ==
  ASSUME HttpInv, PiecesHold, EndHolds, AnswerState, GotMethod
  PROVE  AnswerState'
<1>1. /\ UNCHANGED <<link, text, sent, cl, ipos, req, out, file>>
      /\ pc = "read" /\ word.done /\ word.is = "method"
  BY DEF GotMethod, Parsed, client, stream
<1> SUFFICES ASSUME Tracked' PROVE AnswerState'
  BY DEF AnswerState
<1>2. RequestFits(text) /\ cl # NoClient /\ link[cl] # "reset" /\ AtMethod
  BY <1>1 DEF Tracked, AnswerState, Reads
<1>3. /\ text \in Chars /\ ipos \in Nat /\ ipos <= sent /\ sent \in Nat /\ sent <= Len(text)
      /\ Len(text) \in Nat /\ word \in Words
  BY DEF HttpInv, StreamHolds, WordHolds, Chars
<1> DEFINE s == Begin(text, 1)
           e == MethodEnd(text)
           L == Lengths(text, link[cl], sent)
<1>4. Fresh /\ Tracks(text, word, ipos, 0, s, e)
  BY <1>2 DEF AtMethod
<1>5. Span(text, 0, s, e, "method")
  BY <1>2, <1>3, MethodSpan
<1>6. s \in Nat /\ e \in Nat /\ s >= 1 /\ s <= e
  BY <1>3, <1>5, SpanPlaces
<1>7. ASSUME NEW n \in L
      PROVE  /\ n \in 0..Len(text) /\ ipos <= n /\ n \in Nat /\ (word.eof => n = ipos)
             /\ Method(Cut(text, n)) = word.buf
  <2>1. n \in 0..Len(text) /\ n \in Nat /\ ipos <= n /\ (word.eof => n = ipos)
    BY <1>1, <1>2, LengthsRead
  <2>2. word.is \in Buffered
    BY <1>1 DEF Buffered
  <2> HIDE DEF s, e
  <2>3. word.buf = Clean(Part(text, s, Until(n, e) - 1))
    BY <1>1, <1>3, <1>4, <1>6, <2>1, <2>2, WordRead
  <2>4. Method(Cut(text, n)) = Clean(Part(text, s, Until(n, e) - 1))
    BY <1>3, <2>1, CutMethod DEF s, e
  <2> QED
    BY <2>1, <2>3, <2>4
<1>8. Got(word) = 0 <=> ipos = 0
  BY <1>3, <1>4, GotNothing DEF Tracks
<1>9. Lengths(text', link'[cl'], sent') = L /\ LeftOf(file') = 0 /\ out = <<>> /\ todo = <<>>
  BY <1>1, <1>4 DEF Fresh, LeftOf
<1> HIDE DEF L
<1>10. CASE Got(word) = 0 /\ pc' = "close" /\ word' = NoWord /\ UNCHANGED todo
  <2>1. word.eof
    <3> HIDE DEF s, e
    <3> QED
      BY <1>1, <1>4, <1>6, <1>8, <1>10 DEF Tracks
  <2>2. ASSUME NEW n \in L PROVE Gives(Due(text, n), Bytes(text, n), out \o todo, 0)
    <3>1. n = 0 /\ n \in 0..Len(text)
      BY <1>7, <1>8, <1>10, <2>1
    <3>2. Due(text, n) = <<>> /\ Bytes(text, n) = 0
      BY <1>3, <3>1, DueCases
    <3>3. out \o todo = <<>>
      BY <1>9, EmptyConcat, Nothing
    <3> QED
      BY <3>2, <3>3, Nothing, GivesDue
  <2>3. AtSend'
    BY <1>1, <1>9, <1>10, <2>2 DEF AtSend
  <2>4. pc' = "close"
    BY <1>10
  <2> QED
    BY <2>3, <2>4 DEF AnswerState, Reads, Rest
<1>11. CASE Got(word) # 0 /\ word.buf \notin Methods /\ Respond(HttpSendError(501))
  <2>1. todo' = HttpSendError(501) /\ pc' = "send" /\ 501 \in Nat
    BY <1>11 DEF Respond
  <2>2. ASSUME NEW n \in L PROVE Gives(Due(text, n), Bytes(text, n), out' \o todo', 0)
    <3>1. n # 0 /\ n \in 0..Len(text) /\ Method(Cut(text, n)) \notin Methods
      BY <1>3, <1>7, <1>8, <1>11
    <3>2. Due(text, n) = todo' /\ Bytes(text, n) = 0
      BY <1>3, <2>1, <3>1, DueCases
    <3>3. todo' \in Seq(Pieces) /\ Gives(todo', 0, todo', 0)
      BY <2>1, ErrorDue, GivesDue
    <3>4. out' \o todo' = todo'
      BY <1>1, <1>9, <3>3, EmptyConcat
    <3> QED
      BY <3>2, <3>3, <3>4
  <2>3. AtSend'
    BY <1>1, <1>9, <2>2 DEF AtSend
  <2> QED
    BY <2>1, <2>3 DEF AnswerState, Reads, Rest
<1>12. CASE Got(word) # 0 /\ word.buf \in Methods /\ StartWord("uri", <<>>) /\ UNCHANGED todo
  <2>0. "uri" \in Kinds /\ <<>> \in Keys
    BY EmptyString DEF Kinds
  <2>1. pc' = "read" /\ word'.is = "uri" /\ word' = [NoWord EXCEPT !.is = "uri", !.key = <<>>]
    BY <1>12, <2>0, FreshWordOf DEF StartWord
  <2>2. ASSUME NEW n \in L PROVE Asks(text, n)
    BY <1>3, <1>7, <1>8, <1>12 DEF Asks
  <2>3. UriFound' \/ UriMissing'
    <3>1. CASE ipos = e
      <4>1. e <= Len(text) /\ text[e] \in Gap
        <5>1. Delim("method") = Gap
          BY DEF Delim, Gap
        <5>2. e <= Len(text)
          BY <1>3, <3>1
        <5> HIDE DEF e, s
        <5> QED
          BY <1>5, <5>1, <5>2 DEF Span, Ends
      <4>2. Method(text) = word.buf
        <5>1. word.is \in Buffered
          BY <1>1 DEF Buffered
        <5>2. word.buf = Clean(Part(text, s, e - 1))
          <6> HIDE DEF e, s
          <6> QED
            BY <1>4, <3>1, <5>1 DEF Tracks
        <5> QED
          BY <5>2 DEF Method, Word, Part
      <4>3. text[e] = "sp"
        BY <1>2, <1>12, <4>1, <4>2 DEF RequestFits, Gap
      <4> DEFINE b == Begin(text, e)
                 u == UriEnd(text)
      <4>4. Span(text, e, b, u, "uri")
        BY <1>2, <1>3, <4>1, <4>3, UriSpan
      <4> HIDE DEF b, u, e
      <4>5. Tracks(text, word', e, e, b, u)
        BY <1>3, <2>0, <2>1, <4>4, TracksNone
      <4>6. UriFound'
        BY <1>1, <1>3, <3>1, <4>3, <4>5 DEF UriFound, b, u, e
      <4> QED
        BY <4>6
    <3>2. CASE ipos # e
      <4> HIDE DEF e, s
      <4>1. word.eof /\ ipos <= e
        BY <1>1, <1>4, <3>2 DEF Tracks
      <4>2. link[cl] = "fin" /\ ipos = sent
        BY <1>1, <1>2, <4>1 DEF EndHolds
      <4>3. word'.buf = <<>>
        BY <2>1, NoWordFits DEF Words, NoWord
      <4>4. ipos < e
        BY <1>3, <1>6, <3>2, <4>1
      <4> QED
        BY <1>1, <4>2, <4>3, <4>4 DEF UriMissing, e
    <3> QED
      BY <3>1, <3>2
  <2>4. Fresh'
    BY <1>1, <1>4, <1>12 DEF Fresh
  <2>5. AtUri'
    BY <1>1, <1>9, <2>2, <2>3, <2>4 DEF AtUri
  <2> QED
    BY <2>1, <2>5 DEF AnswerState, Reads, Rest
<1> QED
  BY <1>10, <1>11, <1>12 DEF GotMethod

\* The headers that are kept have a value, the empty one to begin with.
Values == [Known -> Chars]
RequestHolds == req \in [url : {req.url}, hdr : Values]

\* The request has a value for every header that is kept.
LEMMA RequestKept ==
  ASSUME HttpInv, RequestHolds, Next
  PROVE  RequestHolds' /\ (GotVersion \/ GotName \/ GotValue \/ GotSkipped => req'.url = req.url)
<1>1. CASE req' = req
  BY <1>1 DEF RequestHolds
<1>2. CASE GotUri
  <2> DEFINE u == UriUnescape(Path(word.buf))
  <2>1. req' = [req EXCEPT !.url = u]
    BY <1>2 DEF GotUri
  <2> HIDE DEF u
  <2>2. req.hdr \in Values /\ req'.url = u /\ req'.hdr = req.hdr /\ req' \in [url : {u}, hdr : Values]
    BY <2>1 DEF RequestHolds
  <2>3. ~(GotVersion \/ GotName \/ GotValue \/ GotSkipped)
    BY <1>2 DEF GotUri, GotVersion, GotName, GotValue, GotSkipped, Parsed
  <2> QED
    BY <2>2, <2>3 DEF RequestHolds
<1>3. CASE GotValue
  <2> DEFINE h == [req.hdr EXCEPT ![word.key] = word.buf]
  <2>1. req' = [req EXCEPT !.hdr = h]
    BY <1>3 DEF GotValue
  <2>2. h \in Values
    BY DEF HttpInv, WordHolds, Words, RequestHolds, Values
  <2> HIDE DEF h
  <2>3. req'.url = req.url /\ req' \in [url : {req.url}, hdr : Values]
    BY <2>1, <2>2 DEF RequestHolds
  <2> QED
    BY <2>3 DEF RequestHolds
<1>4. CASE req' = NoReq /\ ~HttpParseHeader
  <2>1. [n \in Known |-> <<>>] \in Values
    BY EmptyString DEF Values
  <2>2. NoReq \in [url : {NoReq.url}, hdr : Values]
    BY <2>1 DEF NoReq
  <2> QED
    BY <1>4, <2>2 DEF RequestHolds, HttpParseHeader
<1>5. CASE HttpParseHeader
  BY <1>1, <1>2, <1>3, <1>5 DEF HttpParseHeader, GotMethod, GotVersion, GotName, GotSkipped
<1>6. CASE Accept
  <2>1. ~HttpParseHeader
    BY <1>6 DEF Accept, HttpParseHeader, GotMethod, GotUri, GotVersion, GotName, GotValue,
                GotSkipped, Parsed
  <2> QED
    BY <1>4, <1>6, <2>1 DEF Accept
<1>7. CASE Environment \/ Fill \/ TakeChar \/ Serve \/ SendPiece \/ SendChunk \/ Answered \/ CloseSocket
  BY <1>1, <1>7 DEF Environment, Send, Connect, HangUp, Fill, TakeChar, Serve, SendPiece, SendChunk,
                    Answered, CloseSocket
<1> QED
  BY <1>5, <1>6, <1>7 DEF Next, HttpTask

\* The URI is the one of whatever will have arrived, or of nothing.
LEMMA AnswerUri ==
  ASSUME HttpInv, EndHolds, RequestHolds, AnswerState, GotUri
  PROVE  AnswerState'
<1>1. /\ UNCHANGED <<link, text, sent, cl, ipos, out, todo, file>>
      /\ pc = "read" /\ word.done /\ word.is = "uri"
      /\ req' = [req EXCEPT !.url = UriUnescape(Path(word.buf))]
      /\ StartWord("version", <<>>)
  BY DEF GotUri, Parsed, client, stream, answer
<1> SUFFICES ASSUME Tracked' PROVE AnswerState'
  BY DEF AnswerState
<1>2. RequestFits(text) /\ cl # NoClient /\ link[cl] # "reset" /\ AtUri
  BY <1>1 DEF Tracked, AnswerState, Reads
<1>3. /\ text \in Chars /\ ipos \in Nat /\ word \in Words /\ Len(text) \in Nat
  BY DEF HttpInv, StreamHolds, WordHolds, Chars
<1> DEFINE L == Lengths(text, link[cl], sent)
<1>4. Fresh /\ (UriFound \/ UriMissing) /\ \A n \in L : Asks(text, n)
  BY <1>2 DEF AtUri
<1>5. ASSUME NEW n \in L
      PROVE  Uri(Cut(text, n)) = word.buf
  <2>1. n \in 0..Len(text) /\ n \in Nat /\ ipos <= n /\ (word.eof => n = ipos)
    BY <1>1, <1>2, LengthsRead
  <2> HIDE DEF L
  <2>2. CASE UriFound
    <3> DEFINE m == MethodEnd(text)
               s == Begin(text, m)
               e == UriEnd(text)
    <3>1. m <= ipos /\ text[m] = "sp" /\ Tracks(text, word, ipos, m, s, e)
      BY <2>2 DEF UriFound
    <3>2. m \in Nat
      BY <1>3, MethodPlaces DEF Ends
    <3>3. m <= Len(text) /\ m <= n
      BY <1>3, <2>1, <3>1, <3>2
    <3>4. s \in Nat /\ e \in Nat
      BY <1>3, <3>1, <3>3, UriPlaces DEF Leads, Ends
    <3>5. word.is \in Buffered
      BY <1>1 DEF Buffered
    <3> HIDE DEF s, e
    <3>6. word.buf = Clean(Part(text, s, Until(n, e) - 1))
      BY <1>1, <1>3, <2>1, <3>1, <3>4, <3>5, WordRead
    <3>7. Uri(Cut(text, n)) = Clean(Part(text, s, Until(n, e) - 1))
      BY <1>3, <2>1, <3>1, <3>3, CutUri DEF s, e
    <3> QED
      BY <3>6, <3>7
  <2>3. CASE UriMissing
    <3>1. ipos < MethodEnd(text) /\ ipos = sent /\ link[cl] = "fin" /\ word.buf = <<>>
      BY <2>3 DEF UriMissing
    <3>2. n = sent
      BY <3>1 DEF L, Lengths
    <3> QED
      BY <1>3, <2>1, <3>1, <3>2, CutNoUri
  <2> QED
    BY <1>4, <2>2, <2>3
<1>6. req'.url = UriUnescape(Path(word.buf))
  BY <1>1 DEF RequestHolds
<1>7. Lengths(text', link'[cl'], sent') = L
  BY <1>1
<1> HIDE DEF L
<1>8. AtRest'
  <2>1. \A n \in L : Asks(text, n) /\ req'.url = Url(text, n)
    BY <1>4, <1>5, <1>6 DEF Url, Target
  <2>2. Fresh'
    BY <1>1, <1>4 DEF Fresh
  <2> QED
    BY <1>1, <1>7, <2>1, <2>2 DEF AtRest
<1>9. pc' = "read" /\ word'.is = "version"
  <2>1. "version" \in Kinds /\ <<>> \in Keys
    BY EmptyString DEF Kinds
  <2> QED
    BY <1>1, <2>1, FreshWordOf
<1> QED
  BY <1>8, <1>9 DEF AnswerState, Reads, Rest

\* The rest of the header does not change what is asked for.
LEMMA AnswerHeader ==
  ASSUME HttpInv, RequestHolds, AnswerState, GotVersion \/ GotName \/ GotValue \/ GotSkipped
  PROVE  AnswerState'
<1>1. /\ UNCHANGED <<link, text, sent, cl, out, todo, file>>
      /\ pc = "read" /\ word.is \notin {"method", "uri"}
  BY DEF GotVersion, GotName, GotValue, GotSkipped, Parsed, client, answer
<1>2. req'.url = req.url
  BY RequestKept DEF Next, HttpTask, HttpParseHeader
<1>3. \/ pc' = "serve"
      \/ pc' = "read" /\ word'.is \in {"name", "value", "skip"}
  <2>1. CASE pc' = "serve"
    BY <2>1
  <2>2. CASE \E is \in {"name", "value", "skip"}, key \in Keys : StartWord(is, key)
    BY <2>2, FreshWordOf DEF Kinds
  <2>3. pc' = "serve" \/ \E is \in {"name", "value", "skip"}, key \in Keys : StartWord(is, key)
    BY DEF GotVersion, GotName, GotValue, GotSkipped, Keys
  <2> QED
    BY <2>1, <2>2, <2>3
<1> SUFFICES ASSUME Tracked' PROVE AnswerState'
  BY DEF AnswerState
<1>4. AtRest
  BY <1>1 DEF Tracked, AnswerState, Rest
<1>5. AtRest'
  BY <1>1, <1>2, <1>4 DEF AtRest, Fresh
<1>6. ~Reads("method")' /\ ~Reads("uri")' /\ pc' \notin {"accept", "send", "close"}
  BY <1>3 DEF Reads
<1> QED
  BY <1>5, <1>6 DEF AnswerState

\* A page is all that is due; behind the header of a file all of it is to come.
LEMMA AnswerServe ==
  ASSUME HttpInv, AnswerState, Serve
  PROVE  AnswerState'
<1>1. UNCHANGED <<link, text, sent, cl, req, out>> /\ pc = "serve" /\ pc' = "send"
  BY DEF Serve, Respond, client
<1> SUFFICES ASSUME Tracked' PROVE AnswerState'
  BY DEF AnswerState
<1>2. AtRest
  BY <1>1 DEF Tracked, AnswerState, Rest
<1> DEFINE url == req.url
           L == Lengths(text, link[cl], sent)
<1>3. Fresh /\ \A n \in L : Asks(text, n) /\ url = Url(text, n)
  BY <1>2 DEF AtRest
<1>4. todo' = UrlDue(url) /\ LeftOf(file') = UrlBytes(url)
  <2>1. ~file.open
    BY <1>3 DEF Fresh
  <2>2. CASE url = <<>> \/ url \notin DOMAIN Files
    <3>1. todo' = UrlDue(url) /\ file' = file
      BY <2>2 DEF Serve, Respond, UrlDue
    <3> QED
      BY <2>1, <2>2, <3>1 DEF LeftOf, UrlBytes
  <2>3. CASE url # <<>> /\ url \in DOMAIN Files
    <3>1. todo' = UrlDue(url) /\ file' = [name |-> url, pos |-> 0, open |-> TRUE]
      BY <2>3 DEF Serve, Respond, UrlDue
    <3>2. file'.open /\ file'.name = url /\ file'.pos = 0 /\ Files[url] \in Nat
      BY <2>3, <3>1, HttpAssumption
    <3>3. LeftOf(file') = Files[url]
      BY <3>2 DEF LeftOf
    <3> QED
      BY <2>3, <3>1, <3>3 DEF UrlBytes
  <2> QED
    BY <2>2, <2>3
<1> HIDE DEF url
<1>5. todo' \in Seq(Pieces) /\ Gives(todo', LeftOf(file'), todo', LeftOf(file'))
  BY <1>4, UrlDueType, GivesDue
<1>6. out' \o todo' = todo'
  BY <1>1, <1>3, <1>5, EmptyConcat DEF Fresh
<1>7. ASSUME NEW n \in L PROVE Gives(Due(text, n), Bytes(text, n), out' \o todo', LeftOf(file'))
  <2>1. n \in 0..Len(text) /\ text \in Chars
    BY DEF HttpInv, StreamHolds, Lengths, Chars
  <2>2. Due(text, n) = UrlDue(url) /\ Bytes(text, n) = UrlBytes(url)
    BY <1>3, <2>1, DueCases
  <2> QED
    BY <1>4, <1>5, <1>6, <2>2
<1>8. AtSend'
  BY <1>1, <1>7 DEF AtSend
<1> QED
  BY <1>1, <1>8 DEF AnswerState, Reads, Rest

\* A piece moves from what is still to send to what was sent.
LEMMA AnswerSend ==
  ASSUME HttpInv, PiecesHold, AnswerState, SendPiece
  PROVE  AnswerState'
<1>1. UNCHANGED <<link, text, sent, cl, pc, file>> /\ pc = "send" /\ todo # <<>> /\ todo' = Tail(todo)
  BY DEF SendPiece, client
<1> SUFFICES ASSUME Tracked' PROVE AnswerState'
  BY DEF AnswerState
<1>2. AtSend /\ link[cl] # "reset"
  BY <1>1 DEF Tracked, AnswerState
<1>3. out' = Append(out, Head(todo))
  BY <1>2 DEF SendPiece
<1>4. out' \o todo' = out \o todo
  <2>1. /\ Head(todo) \in Pieces /\ Tail(todo) \in Seq(Pieces) /\ todo = <<Head(todo)>> \o Tail(todo)
        /\ out \in Seq(Pieces)
    BY <1>1 DEF PiecesHold
  <2> DEFINE h == Head(todo)
             r == Tail(todo)
  <2> HIDE DEF h, r
  <2>2. Append(out, h) \o r = out \o (<<h>> \o r)
    BY <2>1 DEF h, r
  <2> QED
    BY <1>1, <1>3, <2>1, <2>2 DEF h, r
<1>5. AtSend'
  BY <1>1, <1>2, <1>4 DEF AtSend
<1> QED
  BY <1>1, <1>5 DEF AnswerState, Reads, Rest

\* A chunk of the file is as much less to come.
LEMMA AnswerChunk ==
  ASSUME HttpInv, PiecesHold, AnswerState, SendChunk
  PROVE  AnswerState'
<1> DEFINE size == Files[file.name]
           pos  == file.pos
           got  == Read(size, pos)
           left == LeftOf(file)
<1>1. /\ UNCHANGED <<link, text, sent, cl, pc, out>> /\ pc = "send" /\ todo = <<>> /\ file.open
      /\ todo' = (IF got > 0 THEN <<Piece("body", got)>> ELSE <<>>)
      /\ file' = (IF MoreToRead(got) THEN [file EXCEPT !.pos = @ + got] ELSE NoFile)
  BY DEF SendChunk, client
<1> SUFFICES ASSUME Tracked' PROVE AnswerState'
  BY DEF AnswerState
<1>2. AtSend
  BY <1>1 DEF Tracked, AnswerState
<1>3. pos \in Nat /\ size \in Nat /\ pos <= size /\ left = size - pos /\ file \in Places
  BY <1>1, HttpAssumption DEF HttpInv, AnswerHolds, Places, LeftOf
<1> HIDE DEF size, pos
<1>4. got \in Nat /\ pos + got <= size
  BY <1>3, ChunkWithin
<1>5. got = Chunk \/ got = left
  <2> DEFINE S == {Chunk, size - pos}
  <2>1. S \in SUBSET Nat /\ S # {}
    BY <1>3, HttpAssumption
  <2>2. Min(S) \in S
    BY <2>1, MinOf
  <2>3. got = Min(S)
    BY DEF Read
  <2> QED
    BY <1>3, <2>2, <2>3
<1> HIDE DEF got, left
<1>6. left \in Nat /\ got <= left
  BY <1>3, <1>4
<1>7. LeftOf(file') = left - got
  <2>1. CASE MoreToRead(got)
    <3> DEFINE n == pos + got
    <3>1. file' = [file EXCEPT !.pos = n] /\ n \in Nat
      BY <1>1, <1>3, <1>4, <2>1 DEF pos
    <3>3. size - n = left - got
      BY <1>3, <1>4
    <3> HIDE DEF n
    <3>2. file'.open /\ file'.name = file.name /\ file'.pos = n
      BY <1>1, <1>3, <3>1 DEF Places
    <3> QED
      BY <3>2, <3>3 DEF LeftOf, size
  <2>2. CASE ~MoreToRead(got)
    <3>1. got = left
      BY <1>5, <2>2 DEF MoreToRead
    <3>2. ~file'.open
      BY <1>1, <2>2, NoPlace
    <3> QED
      BY <1>6, <3>1, <3>2 DEF LeftOf
  <2> QED
    BY <2>1, <2>2
<1>8. ASSUME NEW due \in Seq(Pieces), NEW bytes, Gives(due, bytes, out, left)
      PROVE  Gives(due, bytes, out' \o todo', left - got)
  <2>1. CASE got > 0
    <3>1. out' \o todo' = Append(out, Piece("body", got))
      <4>1. todo' = <<Piece("body", got)>>
        BY <1>1, <2>1
      <4> DEFINE x == Piece("body", got)
      <4>2. "body" \in Labels
        BY DEF Labels
      <4>3. x \in Pieces
        BY <1>4, <4>2, PieceType
      <4> HIDE DEF x
      <4>4. out \o <<x>> = Append(out, x)
        BY <4>3 DEF PiecesHold
      <4> QED
        BY <1>1, <4>1, <4>4 DEF x
    <3> QED
      BY <1>4, <1>6, <1>8, <3>1, GivesGrows DEF PiecesHold
  <2>2. CASE got = 0
    <3>1. left = 0
      <4>1. got # Chunk
        BY <2>2, HttpAssumption
      <4> QED
        BY <1>5, <2>2, <4>1
    <3>2. out' \o todo' = out
      <4>1. todo' = <<>>
        BY <1>1, <2>2
      <4> QED
        BY <1>1, <4>1, EmptyConcat DEF PiecesHold
    <3>3. left - got = left
      BY <2>2, <3>1
    <3> QED
      BY <1>8, <3>2, <3>3
  <2>3. got > 0 \/ got = 0
    BY <1>4
  <2> QED
    BY <2>1, <2>2, <2>3
<1>9. out \o todo = out
  BY <1>1, EmptyConcat DEF PiecesHold
<1>10. ASSUME NEW n \in Lengths(text, link[cl], sent)
       PROVE  Due(text, n) \in Seq(Pieces)
  <2>1. n \in 0..Len(text) /\ text \in Chars
    BY DEF HttpInv, StreamHolds, Lengths, Chars
  <2>2. 501 \in Nat
    OBVIOUS
  <2>3. \/ Due(text, n) = <<>> \/ Due(text, n) = HttpSendError(501)
        \/ Due(text, n) = UrlDue(Url(text, n))
    BY <2>1, DueCases DEF Asks
  <2>4. HttpSendError(501) \in Seq(Pieces)
    BY <2>2, ErrorDue
  <2>5. UrlDue(Url(text, n)) \in Seq(Pieces)
    BY UrlDueType
  <2> QED
    BY <2>3, <2>4, <2>5, Nothing
<1>11. ASSUME NEW n \in Lengths(text, link[cl], sent)
       PROVE  Gives(Due(text, n), Bytes(text, n), out' \o todo', LeftOf(file'))
  <2>1. Gives(Due(text, n), Bytes(text, n), out, left)
    BY <1>2, <1>9 DEF AtSend, left
  <2> QED
    BY <1>7, <1>8, <1>10, <2>1
<1>12. AtSend'
  BY <1>1, <1>11 DEF AtSend
<1> QED
  BY <1>1, <1>12 DEF AnswerState, Reads, Rest

LEMMA AnswerAnswered ==
  ASSUME AnswerState, Answered
  PROVE  AnswerState'
<1>1. UNCHANGED <<link, text, sent, cl, out, todo, file>> /\ pc = "send" /\ pc' = "close"
  BY DEF Answered, client, answer
<1>2. Tracked' => AtSend
  BY <1>1 DEF Tracked, AnswerState
<1>3. AtSend => AtSend'
  BY <1>1 DEF AtSend
<1> QED
  BY <1>1, <1>2, <1>3 DEF AnswerState, Reads, Rest

\* The connection is closed when nothing is left to send.
LEMMA AnswerClose ==
  ASSUME HttpInv, PiecesHold, AnswerState, CloseSocket
  PROVE  AnswerState'
<1>1. /\ UNCHANGED <<text, sent, cl, out, todo, file>> /\ pc = "close" /\ pc' = "accept"
      /\ cl \in Clients /\ link \in [Clients -> States]
  BY DEF CloseSocket, answer, HttpInv, LinksHold
<1> SUFFICES ASSUME Tracked', link'[cl'] = "closed" PROVE AtEnd'
  BY <1>1 DEF AnswerState, Reads, Rest
<1>2. link[cl] # "reset"
  BY <1>1 DEF CloseSocket
<1>3. AtSend
  BY <1>1, <1>2 DEF Tracked, AnswerState
<1>4. sent \in Lengths(text, link[cl], sent)
  <2>1. sent \in sent..Len(text)
    BY DEF HttpInv, StreamHolds
  <2> QED
    BY <2>1 DEF Lengths
<1>5. todo = <<>> /\ ~file.open
  BY <1>1 DEF HttpInv, AnswerHolds
<1>6. out \o todo = out /\ LeftOf(file) = 0
  BY <1>5, EmptyConcat DEF PiecesHold, LeftOf
<1>7. Gives(Due(text, sent), Bytes(text, sent), out, 0)
  BY <1>3, <1>4, <1>6 DEF AtSend
<1> QED
  BY <1>1, <1>7 DEF AtEnd

\* A new connection, of whose request nothing is read.
LEMMA AnswerAccept ==
  ASSUME HttpInv, AnswerState, Accept
  PROVE  AnswerState'
<1>1. /\ text' \in Texts /\ ipos' = 0 /\ out' = <<>> /\ todo' = todo /\ file' = file
      /\ pc = "accept" /\ StartWord("method", <<>>)
  BY DEF Accept
<1>2. text' \in Chars
  BY <1>1, HttpAssumption DEF Chars
<1>3. "method" \in Kinds /\ <<>> \in Keys
  BY EmptyString DEF Kinds
<1>4. word' = [NoWord EXCEPT !.is = "method", !.key = <<>>] /\ word'.is = "method" /\ pc' = "read"
  BY <1>1, <1>3, FreshWordOf DEF StartWord
<1>5. todo = <<>> /\ ~file.open
  BY <1>1 DEF HttpInv, AnswerHolds
<1> SUFFICES ASSUME Tracked' PROVE AtMethod'
  BY <1>4 DEF AnswerState, Reads, Rest
<1>6. RequestFits(text')
  BY DEF Tracked
<1> DEFINE s == Begin(text', 1)
           e == MethodEnd(text')
<1>7. Span(text', 0, s, e, "method")
  BY <1>2, <1>6, MethodSpan
<1> HIDE DEF s, e
<1>8. Tracks(text', word', 0, 0, s, e)
  BY <1>2, <1>3, <1>4, <1>7, TracksNone
<1>9. Fresh'
  BY <1>1, <1>5 DEF Fresh
<1> QED
  BY <1>1, <1>8, <1>9 DEF AtMethod, s, e

LEMMA AnswerStateKept ==
  ASSUME HttpInv, PiecesHold, EndHolds, RequestHolds, AnswerState, Next
  PROVE  AnswerState'
<1>1. CASE HttpParseHeader
  BY <1>1, AnswerMethod, AnswerUri, AnswerHeader DEF HttpParseHeader
<1> QED
  BY <1>1, AnswerEnvironment, AnswerFill, AnswerTake, AnswerServe, AnswerSend, AnswerChunk,
     AnswerAnswered, AnswerClose, AnswerAccept DEF Next, HttpTask

AnswerInv == PiecesHold /\ EndHolds /\ RequestHolds /\ AnswerState

LEMMA AnswerInit ==
  ASSUME Init
  PROVE  AnswerInv
<1>1. /\ pc = "accept" /\ cl = NoClient /\ req = NoReq /\ out = <<>> /\ todo = <<>>
  BY DEF Init
<1>2. PiecesHold
  BY <1>1, Nothing DEF PiecesHold
<1>3. RequestHolds
  <2>1. [n \in Known |-> <<>>] \in Values
    BY EmptyString DEF Values
  <2>2. NoReq \in [url : {NoReq.url}, hdr : Values]
    BY <2>1 DEF NoReq
  <2> QED
    BY <1>1, <2>2 DEF RequestHolds
<1> QED
  BY <1>1, <1>2, <1>3 DEF AnswerInv, EndHolds, AnswerState, Tracked

\* At each stage of a connection, what was parsed, is to be sent and was sent
\* is what the request line asks for, however much of the request will still
\* arrive (StreamReadUntilChars, HttpParseHeader, HttpdClientHandler,
\* MediaTypeHandlerBinary).
THEOREM AnswerInvariance == Spec => []AnswerInv
<1>1. Init => AnswerInv
  BY AnswerInit
<1>2. HttpInv /\ AnswerInv /\ [Next]_vars => AnswerInv'
  <2>1. CASE Next
    BY <2>1, PiecesKept, EndKept, RequestKept, AnswerStateKept DEF AnswerInv
  <2>2. CASE UNCHANGED vars
    <3>1. UNCHANGED <<link, backlog, text, sent, pc, cl, ipos, ilen, word, req, out, todo, file>>
      BY <2>2 DEF vars, client, stream, answer
    <3> SUFFICES ASSUME AnswerInv PROVE AnswerInv'
      BY <2>2
    <3>2. PiecesHold' /\ EndHolds' /\ RequestHolds'
      BY <3>1 DEF AnswerInv, PiecesHold, EndHolds, RequestHolds
    <3>3. AnswerState'
      BY <3>1 DEF AnswerInv, AnswerState, Tracked, Reads, Rest, AtMethod, AtUri, AtRest, AtSend, AtEnd,
                  Fresh, UriFound, UriMissing
    <3> QED
      BY <3>2, <3>3 DEF AnswerInv
  <2> QED
    BY <2>1, <2>2
<1> QED
  BY <1>1, <1>2, HttpInvariance, PTL DEF Spec

\* A connection that is closed in order got the one answer its request line
\* asks for and, if it asks for a file, every byte of it, for any clients,
\* requests and files, wherever the segments were cut or the client broke
\* off (HttpdClientHandler, MediaTypeHandlerBinary).
THEOREM AnswersComplete == Spec => []AnswersMatch
<1>1. AnswerInv => AnswersMatch
  <2> DEFINE received == SubSeq(text, 1, sent)
             due == AnswerTo(received)
  <2> SUFFICES ASSUME AnswerInv, pc = "accept", cl # NoClient, link[cl] = "closed", RequestFits(text)
               PROVE  /\ IsPrefix(due, out)
                      /\ \A i \in Len(due) + 1 .. Len(out) : out[i].what = "body"
                      /\ Total(out, "body") = Total(due, "body") + FileBytes(received)
    BY DEF AnswersMatch
  <2>1. AtEnd
    BY DEF AnswerInv, AnswerState, Tracked
  <2>2. Gives(due, FileBytes(received), out, 0)
    BY <2>1 DEF AtEnd, Due, Bytes, Cut
  <2> HIDE DEF due, received
  <2>3. Total(out, "body") \in Nat
    BY TotalType DEF AnswerInv, PiecesHold
  <2>4. Total(out, "body") + 0 = Total(out, "body")
    BY <2>3
  <2> QED
    BY <2>2, <2>4 DEF Gives
<1> QED
  BY <1>1, AnswerInvariance, PTL

-----------------------------------------------------------------------------
(***************************************************************************)
(* The lines of a header.                                                  *)
(***************************************************************************)

\* A place has one word behind it.
LEMMA SpanOnce ==
  ASSUME NEW t \in Chars, NEW a, NEW s, NEW e, NEW s2, NEW e2, NEW is,
         Span(t, a, s, e, is), Span(t, a, s2, e2, is)
  PROVE  s2 = s /\ e2 = e
<1>1. a + 1 \in Nat /\ Leads(t, a + 1, s) /\ Leads(t, a + 1, s2)
  BY DEF Span
<1>2. s2 = s
  BY <1>1, LeadsOnce
<1>3. s \in Nat /\ Ends(t, s, Delim(is), e) /\ Ends(t, s, Delim(is), e2)
  BY <1>2 DEF Span, Leads
<1> QED
  BY <1>2, <1>3, EndsOnce

\* A character other than "cr" is kept.
LEMMA CleanKeeps ==
  ASSUME NEW t \in Chars, NEW s \in Nat, s >= 1, NEW k \in Nat, NEW p \in Nat,
         s <= k, k <= p, p <= Len(t), t[k] # "cr"
  PROVE  Clean(Part(t, s, p)) # <<>>
<1> DEFINE T == {q \in k..p : Clean(Part(t, s, q)) = <<>>}
<1>0. Len(t) \in Nat
  BY DEF Chars
<1> SUFFICES ASSUME p \in T PROVE FALSE
  OBVIOUS
<1>1. PICK q \in T : \A r \in T : q <= r
  <2>1. T \in SUBSET Nat /\ T # {}
    OBVIOUS
  <2> HIDE DEF T
  <2> QED
    BY <2>1, Smallest
<1>2. q \in k..p /\ Clean(Part(t, s, q)) = <<>> /\ \A r \in k..p : Clean(Part(t, s, r)) = <<>> => q <= r
  BY <1>1
<1> HIDE DEF T
<1> DEFINE r == q - 1
<1>3. r \in Nat /\ r + 1 = q /\ s <= r + 1 /\ r + 1 <= Len(t) /\ r <= Len(t) /\ r \in Int
  BY <1>0, <1>2
<1>4. Part(t, s, r + 1) = Append(Part(t, s, r), t[r + 1]) /\ t[r + 1] \in STRING
  BY <1>3, PartGrows
<1>5. Part(t, s, r) \in Chars
  BY <1>3, PartType
<1> HIDE DEF r
<1>6. Clean(Part(t, s, r + 1)) = IF t[r + 1] = "cr" THEN Clean(Part(t, s, r))
                                 ELSE Append(Clean(Part(t, s, r)), t[r + 1])
  BY <1>4, <1>5, CleanAppend
<1>7. Clean(Part(t, s, r)) \in Chars
  BY <1>5, CleanType
<1>8. Append(Clean(Part(t, s, r)), t[r + 1]) # <<>>
  <2> DEFINE q1 == Clean(Part(t, s, r))
             x == t[r + 1]
  <2>1. q1 \in Seq(STRING) /\ x \in STRING
    BY <1>4, <1>7 DEF Chars
  <2> HIDE DEF q1, x
  <2>2. Len(Append(q1, x)) = Len(q1) + 1 /\ Len(q1) \in Nat
    BY <2>1
  <2>3. Append(q1, x) # <<>>
    BY <2>2
  <2> QED
    BY <2>3 DEF q1, x
<1>9. t[q] = "cr" /\ Clean(Part(t, s, r)) = <<>>
  BY <1>2, <1>3, <1>6, <1>8
<1>10. q # k
  BY <1>9
<1>11. r \in k..p /\ ~(q <= r)
  BY <1>2, <1>3, <1>10
<1> QED
  BY <1>2, <1>9, <1>11

\* The line of t from b to its end at e.
LineAt(t, b, e) ==
  /\ b \in Nat /\ e \in Nat /\ 1 <= b /\ b <= e /\ e <= Len(t)
  /\ b = 1 \/ t[b - 1] = "lf"
  /\ t[e] = "lf" /\ \A k \in b..e - 1 : t[k] # "lf"

LEMMA LineFacts ==
  ASSUME NEW t \in Chars, NEW l \in Lines(t)
  PROVE  l = <<l[1], l[2]>> /\ LineAt(t, l[1], l[2])
<1>1. DOMAIN t = 1..Len(t) /\ Len(t) \in Nat
  BY DEF Chars
<1>2. l \in (1..Len(t)) \X (1..Len(t))
  BY <1>1 DEF Lines
<1>3. l = <<l[1], l[2]>> /\ l[1] \in 1..Len(t) /\ l[2] \in 1..Len(t)
  BY <1>2
<1>4. /\ l[1] <= l[2] /\ (l[1] = 1 \/ t[l[1] - 1] = "lf")
      /\ t[l[2]] = "lf" /\ \A k \in l[1] .. l[2] - 1 : t[k] # "lf"
  BY DEF Lines
<1> QED
  BY <1>1, <1>3, <1>4 DEF LineAt

LEMMA LineBack ==
  ASSUME NEW t \in Chars, NEW b, NEW e, LineAt(t, b, e)
  PROVE  <<b, e>> \in Lines(t)
<1>1. DOMAIN t = 1..Len(t) /\ Len(t) \in Nat
  BY DEF Chars
<1>2. b \in 1..Len(t) /\ e \in 1..Len(t)
  BY <1>1 DEF LineAt
<1>3. <<b, e>> \in (DOMAIN t) \X (DOMAIN t)
  BY <1>1, <1>2
<1> QED
  BY <1>3 DEF Lines, LineAt

\* Two lines that overlap are one.
LEMMA SameLine ==
  ASSUME NEW t, NEW b, NEW e, NEW c, NEW f, LineAt(t, b, e), LineAt(t, c, f), b <= f, f <= e
  PROVE  c = b /\ f = e
<1>1. /\ b \in Nat /\ e \in Nat /\ c \in Nat /\ f \in Nat /\ 1 <= b /\ 1 <= c /\ c <= f
      /\ b = 1 \/ t[b - 1] = "lf"
      /\ c = 1 \/ t[c - 1] = "lf"
      /\ t[f] = "lf"
      /\ \A k \in b..e - 1 : t[k] # "lf"
      /\ \A k \in c..f - 1 : t[k] # "lf"
  BY DEF LineAt
<1>2. f = e
  <2>1. f # e => f \in b..e - 1
    BY <1>1
  <2> QED
    BY <1>1, <2>1
<1>3. ~(c < b)
  <2> SUFFICES ASSUME c < b PROVE FALSE
    OBVIOUS
  <2>1. b - 1 \in c..f - 1 /\ b # 1
    BY <1>1
  <2> QED
    BY <1>1, <2>1
<1>4. ~(b < c)
  <2> SUFFICES ASSUME b < c PROVE FALSE
    OBVIOUS
  <2>1. c - 1 \in b..e - 1 /\ c # 1
    BY <1>1, <1>2
  <2> QED
    BY <1>1, <2>1
<1> QED
  BY <1>1, <1>2, <1>3, <1>4

LEMMA NextLine ==
  ASSUME NEW t \in Chars, NEW a \in Nat, 1 <= a, t[a] = "lf", NEW h \in Nat, a < h, h <= Len(t),
         t[h] = "lf"
  PROVE  \E b \in Nat : LineAt(t, a + 1, b) /\ b <= h
<1> DEFINE D == {"lf"}
           b == End(t, a + 1, D)
<1>1. Len(t) \in Nat /\ a + 1 \in Nat /\ a + 1 >= 1 /\ a + 1 <= Len(t) + 1
  BY DEF Chars
<1>2. Ends(t, a + 1, D, b)
  BY <1>1, EndEnds
<1> HIDE DEF b
<1>3. b \in Nat /\ a + 1 <= b /\ b <= Len(t) + 1 /\ (b <= Len(t) => t[b] = "lf")
      /\ \A j \in a + 1..b - 1 : t[j] # "lf"
  BY <1>2 DEF Ends
<1>4. b <= h
  <2> SUFFICES ASSUME h < b PROVE FALSE
    BY <1>3
  <2>1. h \in a + 1..b - 1
    BY <1>3
  <2> QED
    BY <1>3, <2>1
<1>5. b <= Len(t) /\ a + 1 - 1 = a
  <2> DEFINE n == Len(t)
  <2> HIDE DEF n
  <2>1. h <= n /\ n \in Nat
    BY <1>1 DEF n
  <2>2. b <= n /\ a + 1 - 1 = a
    BY <1>3, <1>4, <2>1
  <2> QED
    BY <2>2 DEF n
<1>6. LineAt(t, a + 1, b)
  BY <1>1, <1>3, <1>5 DEF LineAt
<1> QED
  BY <1>3, <1>4, <1>6

\* The header ends with the first empty line.
LEMMA HeadPlace ==
  ASSUME NEW t \in Chars, Complete(t)
  PROVE  \E l \in BlankLines(t) : l[2] = HeadEnd(t) /\ l[1] > 1 /\ Word(t, l[1], l[2]) = <<>>
                                  /\ l = <<l[1], l[2]>> /\ LineAt(t, l[1], HeadEnd(t))
<1> DEFINE S == {l[2] : l \in BlankLines(t)}
<1>1. \A l \in BlankLines(t) : l \in Lines(t) /\ l[1] > 1 /\ Word(t, l[1], l[2]) = <<>>
  BY DEF BlankLines
<1>2. \A l \in BlankLines(t) : l[2] \in Nat
  BY <1>1, LineFacts DEF LineAt
<1>3. S \in SUBSET Nat /\ S # {}
  BY <1>2 DEF Complete
<1>4. HeadEnd(t) = Min(S)
  BY DEF HeadEnd
<1>5. Min(S) \in S
  <2> HIDE DEF S
  <2> QED
    BY <1>3, MinOf
<1>6. PICK l \in BlankLines(t) : l[2] = HeadEnd(t)
  BY <1>4, <1>5
<1>7. l = <<l[1], l[2]>> /\ LineAt(t, l[1], l[2])
  BY <1>1, <1>6, LineFacts
<1> QED
  BY <1>1, <1>6, <1>7

LEMMA HeaderLineFacts ==
  ASSUME NEW t \in Chars, NEW l \in HeaderLines(t)
  PROVE  l = <<l[1], l[2]>> /\ LineAt(t, l[1], l[2]) /\ l[1] > 1 /\ l[2] < HeadEnd(t)
BY LineFacts DEF HeaderLines

LEMMA HeaderLineBack ==
  ASSUME NEW t \in Chars, NEW b, NEW e, LineAt(t, b, e), b > 1, e < HeadEnd(t)
  PROVE  <<b, e>> \in HeaderLines(t)
<1>1. <<b, e>> \in Lines(t) /\ <<b, e>>[1] = b /\ <<b, e>>[2] = e
  BY LineBack
<1> QED
  BY <1>1 DEF HeaderLines

\* A word ends no later than the line it begins on.
LEMMA WordInLine ==
  ASSUME NEW t, NEW k \in Nat, NEW x \in Nat, k <= x, x <= Len(t), t[x] = "lf", NEW s, NEW D, NEW e,
         Leads(t, k, s), Ends(t, s, D, e), "lf" \in D, Len(t) \in Nat
  PROVE  s \in Nat /\ e \in Nat /\ k <= s /\ s <= e /\ s <= x /\ e <= x /\ e <= Len(t) /\ t[e] \in D
<1>1. /\ s \in Nat /\ k <= s /\ \A j \in k..s - 1 : t[j] = "sp"
      /\ e \in Nat /\ s <= e /\ \A j \in s..e - 1 : t[j] \notin D
      /\ e <= Len(t) => t[e] \in D
  BY DEF Leads, Ends
<1>2. s <= x
  <2> SUFFICES ASSUME x < s PROVE FALSE
    BY <1>1
  <2>1. x \in k..s - 1
    BY <1>1
  <2> QED
    BY <1>1, <2>1
<1>3. e <= x
  <2> SUFFICES ASSUME x < e PROVE FALSE
    BY <1>1
  <2>1. x \in s..e - 1
    BY <1>1, <1>2
  <2> QED
    BY <1>1, <2>1
<1>4. e <= Len(t)
  BY <1>1, <1>3
<1> QED
  BY <1>1, <1>2, <1>3, <1>4

\* No line ends before place k.
OneLine(t, k) == \A j \in 1..k - 1 : t[j] # "lf"
LEMMA OneLineWord ==
  ASSUME NEW t, NEW k \in Nat, OneLine(t, k), NEW s, NEW D, NEW e,
         Leads(t, k, s), Ends(t, s, D, e), "lf" \in D
  PROVE  OneLine(t, e) /\ (t[e] = "sp" => OneLine(t, e + 1))
<1>1. /\ s \in Nat /\ k <= s /\ \A j \in k..s - 1 : t[j] = "sp"
      /\ e \in Nat /\ s <= e /\ \A j \in s..e - 1 : t[j] \notin D
      /\ \A j \in 1..k - 1 : t[j] # "lf"
  BY DEF Leads, Ends, OneLine
<1>2. ASSUME NEW j \in 1..e - 1 PROVE t[j] # "lf"
  <2>1. j \in 1..k - 1 \/ j \in k..s - 1 \/ j \in s..e - 1
    BY <1>1
  <2> QED
    BY <1>1, <2>1
<1>3. ASSUME t[e] = "sp", NEW j \in 1..(e + 1) - 1 PROVE t[j] # "lf"
  <2>1. j = e \/ j \in 1..e - 1
    BY <1>1
  <2> QED
    BY <1>2, <1>3, <2>1
<1> QED
  BY <1>2, <1>3 DEF OneLine

\* The three words of the first line of a request that fits.
LEMMA FirstLine ==
  ASSUME NEW t \in Chars, Fits(t)
  PROVE  \E s, v : 
         /\ HeadEnd(t) \in Nat
         /\ MethodEnd(t) \in Nat /\ MethodEnd(t) <= HeadEnd(t)
         /\ Span(t, MethodEnd(t), Begin(t, MethodEnd(t)), UriEnd(t), "uri")
         /\ UriEnd(t) <= HeadEnd(t)
         /\ Span(t, UriEnd(t), s, v, "version")
         /\ v \in Nat /\ 1 <= v /\ v < HeadEnd(t) /\ v <= Len(t) /\ t[v] = "lf" /\ OneLine(t, v)
<1> DEFINE n == Len(t)
           m == MethodEnd(t)
           u == UriEnd(t)
           D == {"lf"}
           s == Begin(t, u + 1)
           v == End(t, s, D)
<1>1. /\ Complete(t) /\ RequestFits(t) /\ t[m] = "sp" /\ t[u] = "sp"
      /\ Room(t, u + 1, End(t, u, D), Siz)
  BY DEF Fits
<1>2. n \in Nat /\ 1 \in Nat
  BY DEF Chars
<1>3. PICK l \in BlankLines(t) : l[1] > 1 /\ LineAt(t, l[1], HeadEnd(t))
  BY <1>1, HeadPlace
<1> DEFINE x == l[1] - 1
<1>4. /\ x \in Nat /\ 1 <= x /\ x < HeadEnd(t) /\ x <= n /\ t[x] = "lf" /\ HeadEnd(t) \in Nat
  BY <1>2, <1>3 DEF LineAt
<1>5. Leads(t, 1, Begin(t, 1)) /\ Ends(t, Begin(t, 1), Gap, m)
  BY MethodPlaces
<1>6. "lf" \in Gap /\ "lf" \in D
  BY DEF Gap
<1> HIDE DEF m, u, x, n, D, s, v
<1>7. m \in Nat /\ m <= x /\ m <= n /\ 1 <= m
  BY <1>2, <1>4, <1>5, <1>6, WordInLine DEF n
<1>8. m + 1 <= x /\ m + 1 \in Nat
  <2>1. m # x
    BY <1>1, <1>4
  <2> QED
    BY <1>4, <1>7, <2>1
<1>9. OneLine(t, 1)
  BY DEF OneLine
<1>10. OneLine(t, m + 1)
  BY <1>1, <1>2, <1>5, <1>6, <1>9, OneLineWord
<1>11. Leads(t, m + 1, Begin(t, m)) /\ Ends(t, Begin(t, m), Gap, u)
  BY <1>1, <1>7, UriPlaces DEF m, u, n
<1>12. u \in Nat /\ u <= x /\ u <= n /\ 1 <= u
  <2>1. u \in Nat /\ u <= x /\ u <= n /\ m + 1 <= Begin(t, m) /\ Begin(t, m) <= u /\ Begin(t, m) \in Nat
    BY <1>2, <1>4, <1>6, <1>8, <1>11, WordInLine DEF n
  <2> QED
    BY <1>7, <2>1
<1>13. u + 1 <= x /\ u + 1 \in Nat /\ u + 1 >= 1 /\ u + 1 <= n + 1
  <2>1. u # x
    BY <1>1, <1>4
  <2> QED
    BY <1>2, <1>4, <1>12, <2>1
<1>14. OneLine(t, u + 1)
  BY <1>1, <1>6, <1>8, <1>10, <1>11, OneLineWord
<1>15. Leads(t, u + 1, s)
  BY <1>13, BeginLeads DEF s, n
<1>16. s \in Nat /\ s >= 1 /\ s <= n + 1
  BY <1>13, <1>15 DEF Leads, n
<1>17. Ends(t, s, D, v)
  BY <1>16, EndEnds DEF v, n
<1>18. v \in Nat /\ v <= x /\ v <= n /\ t[v] \in D /\ s <= v /\ u + 1 <= s
  BY <1>2, <1>4, <1>6, <1>13, <1>15, <1>17, WordInLine DEF n
<1>19. OneLine(t, v)
  BY <1>6, <1>13, <1>14, <1>15, <1>17, OneLineWord
<1>20. End(t, u, D) = v
  <2>1. Ends(t, u, D, End(t, u, D))
    BY <1>2, <1>12, EndEnds DEF n
  <2>2. Ends(t, u, D, v)
    <3>1. \A j \in u..v - 1 : t[j] \notin D
      <4> SUFFICES ASSUME NEW j \in u..v - 1 PROVE t[j] # "lf"
        BY DEF D
      <4>1. j \in 1..v - 1
        BY <1>12, <1>18
      <4> QED
        BY <1>19, <4>1 DEF OneLine
    <3>2. u <= v /\ v <= n + 1
      BY <1>2, <1>12, <1>16, <1>18
    <3> QED
      BY <1>18, <3>1, <3>2 DEF Ends, n
  <2> QED
    BY <1>12, <2>1, <2>2, EndsOnce
<1>21. Span(t, m, Begin(t, m), u, "uri")
  BY <1>1, <1>7, UriSpan DEF m, u, n
<1>22. Span(t, u, s, v, "version")
  <2>1. Delim("version") = D /\ Limit("version") = Siz
    BY DEF Delim, Limit, D
  <2>2. v - s < Siz
    BY <1>1, <1>20 DEF Room, s
  <2> QED
    BY <1>12, <1>15, <1>17, <2>1, <2>2 DEF Span, n
<1>23. /\ m <= HeadEnd(t) /\ u <= HeadEnd(t) /\ 1 <= v /\ v < HeadEnd(t) /\ t[v] = "lf"
  BY <1>4, <1>7, <1>12, <1>16, <1>18 DEF D
<1> QED
  BY <1>4, <1>7, <1>12, <1>18, <1>19, <1>21, <1>22, <1>23 DEF m, u, n

-----------------------------------------------------------------------------
(***************************************************************************)
(* The words of a header line, as the parser comes upon them.              *)
(***************************************************************************)

\* The line behind place a belongs to the header.
LineStart(t, a) == a \in Nat /\ 1 <= a /\ a <= Len(t) /\ t[a] = "lf" /\ a < HeadEnd(t)

\* What stands behind the colon of a header line.
LEMMA ValueSpan ==
  ASSUME NEW t \in Chars, Fits(t), NEW l \in HeaderLines(t), NEW is,
         is = IF Name(t, l) \in Known THEN "value" ELSE "skip"
  PROVE  /\ Span(t, Colon(t, l), Begin(t, Colon(t, l) + 1), l[2], is)
         /\ Clean(Part(t, Begin(t, Colon(t, l) + 1), l[2] - 1)) = Value(t, l)
         /\ LineStart(t, l[2]) /\ HeadEnd(t) \in Nat
<1> DEFINE n == Len(t)
           a == l[1]
           e == l[2]
           D == {":"}
           c == End(t, a, D)
           b == Begin(t, c + 1)
<1>1. /\ LineAt(t, a, e) /\ a > 1 /\ e < HeadEnd(t)
      /\ HeadEnd(t) \in Nat /\ HeadEnd(t) <= n
  <2>1. Complete(t)
    BY DEF Fits
  <2>2. PICK k \in BlankLines(t) : LineAt(t, k[1], HeadEnd(t))
    BY <2>1, HeadPlace
  <2> QED
    BY <2>2, HeaderLineFacts DEF LineAt
<1>2. c = Colon(t, l)
  BY DEF Colon
<1>3. HeaderFits(t, l)
  BY DEF Fits
<1>4. /\ c < e /\ Room(t, c + 1, e, IF Name(t, l) \in Known THEN Siz ELSE SkipSiz)
  BY <1>2, <1>3 DEF HeaderFits
<1>5. Clean(Part(t, b, e - 1)) = Value(t, l)
  BY <1>2 DEF Value, Word, Part
<1> HIDE DEF n, a, e, c, b
<1>6. /\ n \in Nat /\ a \in Nat /\ e \in Nat /\ 1 <= a /\ e <= n /\ t[e] = "lf" /\ a <= e
      /\ \A k \in a..e - 1 : t[k] # "lf"
  BY <1>1 DEF LineAt, Chars, n
<1>7. Ends(t, a, D, c)
  <2>1. a <= n + 1 /\ a >= 1
    BY <1>6
  <2> QED
    BY <1>6, <2>1, EndEnds DEF c, n
<1>8. c \in Nat /\ a <= c
  BY <1>7 DEF Ends
<1>9. Leads(t, c + 1, b)
  <2>1. c + 1 \in Nat /\ c + 1 >= 1 /\ c + 1 <= n + 1
    BY <1>4, <1>6, <1>8
  <2> QED
    BY <2>1, BeginLeads DEF b, n
<1>10. /\ b \in Nat /\ c + 1 <= b /\ b <= n + 1 /\ \A j \in c + 1..b - 1 : t[j] = "sp"
  BY <1>9 DEF Leads, n
<1>11. b <= e
  <2> SUFFICES ASSUME e < b PROVE FALSE
    BY <1>6, <1>10
  <2>1. e \in c + 1..b - 1
    BY <1>4, <1>6, <1>8, <1>10
  <2> QED
    BY <1>6, <1>10, <2>1
<1>12. Ends(t, b, {"lf"}, e)
  <2>1. \A j \in b..e - 1 : t[j] # "lf"
    <3> SUFFICES ASSUME NEW j \in b..e - 1 PROVE t[j] # "lf"
      OBVIOUS
    <3>1. j \in a..e - 1
      BY <1>6, <1>8, <1>10
    <3> QED
      BY <1>6, <3>1
  <2>2. e <= n + 1
    BY <1>6
  <2> QED
    BY <1>6, <1>10, <1>11, <2>1, <2>2 DEF Ends, n
<1>13. Delim(is) = {"lf"} /\ e - b < Limit(is)
  BY <1>4 DEF Delim, Limit, Room, b
<1>14. c <= n
  BY <1>4, <1>6, <1>8
<1>15. Span(t, c, b, e, is)
  BY <1>8, <1>9, <1>12, <1>13, <1>14 DEF Span, n
<1>16. LineStart(t, e)
  BY <1>1, <1>6 DEF LineStart, n
<1> QED
  BY <1>1, <1>2, <1>5, <1>15, <1>16 DEF b, e

\* The name that begins a line, or the empty line.
NamesLine(t, l, a, s, e) ==
  /\ l \in HeaderLines(t) /\ l[1] = a + 1 /\ e = Colon(t, l)
  /\ Name(t, l) # <<>> /\ Clean(Part(t, s, e - 1)) = Name(t, l)
EndsHead(t, a, s, e) ==
  /\ e = HeadEnd(t) /\ Clean(Part(t, s, e - 1)) = <<>>
  /\ \A l \in HeaderLines(t) : l[2] <= a

\* Behind a line end there is a name with its colon, or the empty line.
LEMMA NameSpan ==
  ASSUME NEW t \in Chars, Fits(t), NEW a, LineStart(t, a)
  PROVE  \E s, e : /\ Span(t, a, s, e, "name") /\ e <= HeadEnd(t) /\ HeadEnd(t) \in Nat
                   /\ EndsHead(t, a, s, e) \/ \E l \in HeaderLines(t) : NamesLine(t, l, a, s, e)
<1> DEFINE n == Len(t)
           h == HeadEnd(t)
           s == Begin(t, a + 1)
           D == {":", "lf"}
<1>1. PICK k \in BlankLines(t) : /\ k[2] = h /\ k[1] > 1 /\ Word(t, k[1], k[2]) = <<>>
                                 /\ LineAt(t, k[1], h)
  <2>1. Complete(t)
    BY DEF Fits
  <2> QED
    BY <2>1, HeadPlace
<1> HIDE DEF n, h, s
<1>2. /\ n \in Nat /\ h \in Nat /\ h <= n /\ t[h] = "lf" /\ a \in Nat /\ 1 <= a /\ a < h /\ t[a] = "lf"
  BY <1>1 DEF LineAt, LineStart, Chars, n, h
<1>3. PICK b \in Nat : LineAt(t, a + 1, b) /\ b <= h
  BY <1>2, NextLine DEF n
<1>4. /\ a + 1 <= b /\ t[b] = "lf" /\ b <= n /\ \A j \in a + 1..b - 1 : t[j] # "lf"
  BY <1>3 DEF LineAt, n
<1>5. Leads(t, a + 1, s)
  <2>1. a + 1 \in Nat /\ a + 1 >= 1 /\ a + 1 <= n + 1
    BY <1>2
  <2> QED
    BY <2>1, BeginLeads DEF s, n
<1>6. /\ s \in Nat /\ a + 1 <= s /\ s <= n + 1 /\ \A j \in a + 1..s - 1 : t[j] = "sp"
  BY <1>5 DEF Leads, n
<1>7. Delim("name") = D /\ Limit("name") = Siz
  BY DEF Delim, Limit
<1>8. CASE b < h
  <2> DEFINE l == <<a + 1, b>>
             c == End(t, a + 1, {":"})
  <2>1. l[1] = a + 1 /\ l[2] = b
    OBVIOUS
  <2>2. l \in HeaderLines(t)
    <3>1. a + 1 > 1
      BY <1>2
    <3> QED
      BY <1>3, <1>8, <3>1, HeaderLineBack DEF h
  <2>3. HeaderFits(t, l) /\ Colon(t, l) = c
    BY <2>2 DEF Fits, Colon
  <2>4. /\ c < b /\ Name(t, l) # <<>> /\ Room(t, a + 1, c, Siz)
    BY <2>3 DEF HeaderFits
  <2>5. Name(t, l) = Clean(Part(t, s, c - 1))
    BY <2>3 DEF Name, Word, Part, s
  <2> HIDE DEF l, c
  <2>6. Ends(t, a + 1, {":"}, c)
    <3>1. a + 1 \in Nat /\ a + 1 >= 1 /\ a + 1 <= n + 1
      BY <1>2
    <3> QED
      BY <3>1, EndEnds DEF c, n
  <2>7. c \in Nat /\ a + 1 <= c /\ (c <= n => t[c] = ":") /\ \A j \in a + 1..c - 1 : t[j] # ":"
    BY <2>6 DEF Ends, n
  <2>8. t[c] = ":" /\ c <= n
    BY <1>2, <1>4, <2>4, <2>7
  <2>9. s <= c
    <3> SUFFICES ASSUME c < s PROVE FALSE
      BY <1>6, <2>7
    <3>1. c \in a + 1..s - 1
      BY <1>6, <2>7
    <3> QED
      BY <1>6, <2>8, <3>1
  <2>10. Ends(t, s, D, c)
    <3>1. \A j \in s..c - 1 : t[j] \notin D
      <4> SUFFICES ASSUME NEW j \in s..c - 1 PROVE t[j] # ":" /\ t[j] # "lf"
        OBVIOUS
      <4>1. j \in a + 1..c - 1 /\ j \in a + 1..b - 1
        BY <1>2, <1>6, <2>4, <2>7
      <4> QED
        BY <1>4, <2>7, <4>1
    <3>2. c <= n + 1 /\ t[c] \in D
      BY <1>2, <2>7, <2>8
    <3> QED
      BY <2>7, <2>9, <3>1, <3>2 DEF Ends, n
  <2>11. c - s < Siz
    BY <2>4 DEF Room, s
  <2>12. a <= n
    BY <1>2
  <2>13. Span(t, a, s, c, "name")
    BY <1>2, <1>5, <1>7, <2>10, <2>11, <2>12 DEF Span, n
  <2>14. NamesLine(t, l, a, s, c)
    BY <2>1, <2>2, <2>3, <2>4, <2>5 DEF NamesLine
  <2>15. c <= h
    BY <1>2, <1>8, <2>4, <2>7
  <2> QED
    BY <1>2, <2>2, <2>13, <2>14, <2>15 DEF h
<1>9. CASE b = h
  <2>1. k[1] = a + 1
    <3>1. LineAt(t, a + 1, h) /\ a + 1 <= h
      BY <1>3, <1>4, <1>9
    <3> QED
      BY <1>1, <1>2, <3>1, SameLine
  <2>2. Clean(Part(t, s, h - 1)) = <<>>
    BY <1>1, <2>1 DEF Word, Part, s
  <2>3. s <= h
    <3> SUFFICES ASSUME h < s PROVE FALSE
      BY <1>2, <1>6
    <3>1. h \in a + 1..s - 1
      BY <1>2, <1>6
    <3> QED
      BY <1>2, <1>6, <3>1
  <2>4. Ends(t, s, D, h)
    <3>1. ASSUME NEW j \in s..h - 1 PROVE t[j] \notin D
      <4>1. t[j] # "lf"
        <5>1. j \in a + 1..b - 1
          BY <1>2, <1>6, <1>9
        <5> QED
          BY <1>4, <5>1
      <4>2. t[j] # ":"
        <5> SUFFICES ASSUME t[j] = ":" PROVE FALSE
          OBVIOUS
        <5>1. /\ s >= 1 /\ j \in Nat /\ s <= j /\ j <= h - 1 /\ h - 1 \in Nat /\ h - 1 <= n
          BY <1>2, <1>6
        <5>2. t[j] # "cr"
          OBVIOUS
        <5>3. Clean(Part(t, s, h - 1)) # <<>>
          BY <1>6, <5>1, <5>2, CleanKeeps DEF n
        <5> QED
          BY <2>2, <5>3
      <4> QED
        BY <4>1, <4>2
    <3>2. h <= n + 1 /\ t[h] \in D
      BY <1>2
    <3> QED
      BY <1>2, <2>3, <3>1, <3>2 DEF Ends, n
  <2>5. h - s < Siz
    <3>1. Room(t, a + 1, h, Siz)
      BY <1>1, <2>1 DEF Fits, h
    <3> QED
      BY <3>1 DEF Room, s
  <2>6. a <= n
    BY <1>2
  <2>7. Span(t, a, s, h, "name")
    BY <1>2, <1>5, <1>7, <2>4, <2>5, <2>6 DEF Span, n
  <2>8. ASSUME NEW l \in HeaderLines(t) PROVE l[2] <= a
    <3>1. LineAt(t, l[1], l[2]) /\ l[2] < h
      BY HeaderLineFacts DEF h
    <3>2. l[2] \in Nat
      BY <3>1 DEF LineAt
    <3> SUFFICES ASSUME a + 1 <= l[2] PROVE FALSE
      BY <1>2, <3>2
    <3>3. LineAt(t, a + 1, h) /\ l[2] <= h
      BY <1>2, <1>3, <1>9, <3>1, <3>2
    <3>4. l[2] = h
      BY <3>1, <3>3, SameLine
    <3> QED
      BY <1>2, <3>1, <3>4
  <2>9. EndsHead(t, a, s, h)
    BY <2>2, <2>8 DEF EndsHead, h
  <2>10. h <= h
    BY <1>2
  <2> QED
    BY <1>2, <2>7, <2>9, <2>10 DEF h
<1> QED
  BY <1>2, <1>3, <1>8, <1>9

-----------------------------------------------------------------------------
(***************************************************************************)
(* The headers found so far: those of the lines above the place reached.   *)
(***************************************************************************)

\* The headers of the lines that end by place a.
LinesUpTo(t, a, n) == {l \in HeaderLines(t) : Name(t, l) = n /\ l[2] <= a}
LastOf(t, S) == IF S = {} THEN <<>> ELSE Value(t, CHOOSE l \in S : \A k \in S : k[2] <= l[2])
HeadersUpTo(t, hdr, a) == \A n \in Known : hdr[n] = LastOf(t, LinesUpTo(t, a, n))
NoHeaders(hdr) == \A n \in Known : hdr[n] = <<>>

LEMMA HeadersNone ==
  ASSUME NEW t \in Chars, NEW v \in Nat, OneLine(t, v), NEW hdr, NoHeaders(hdr)
  PROVE  HeadersUpTo(t, hdr, v)
<1>1. ASSUME NEW l \in HeaderLines(t), l[2] <= v PROVE FALSE
  <2>1. LineAt(t, l[1], l[2]) /\ l[1] > 1
    BY HeaderLineFacts
  <2>2. /\ l[1] \in Nat /\ l[2] \in Nat /\ l[1] <= l[2] /\ t[l[1] - 1] = "lf"
    BY <2>1 DEF LineAt
  <2>3. l[1] - 1 \in 1..v - 1
    BY <1>1, <2>1, <2>2
  <2> QED
    BY <2>2, <2>3 DEF OneLine
<1>2. \A n : LinesUpTo(t, v, n) = {}
  BY <1>1 DEF LinesUpTo
<1> QED
  BY <1>2 DEF HeadersUpTo, NoHeaders, LastOf

LEMMA HeadersAll ==
  ASSUME NEW t, NEW a, NEW hdr, HeadersUpTo(t, hdr, a), \A l \in HeaderLines(t) : l[2] <= a
  PROVE  \A n \in Known : hdr[n] = Header(t, n)
<1> SUFFICES ASSUME NEW n \in Known PROVE hdr[n] = Header(t, n)
  OBVIOUS
<1> DEFINE S == {l \in HeaderLines(t) : Name(t, l) = n}
<1>1. LinesUpTo(t, a, n) = S
  BY DEF LinesUpTo
<1>2. Header(t, n) = LastOf(t, S)
  BY DEF Header, LastOf
<1> HIDE DEF S
<1> QED
  BY <1>1, <1>2 DEF HeadersUpTo

\* The next line decides on its own header.
LEMMA HeadersNext ==
  ASSUME NEW t \in Chars, NEW l \in HeaderLines(t), NEW a \in Nat, l[1] = a + 1, NEW n
  PROVE  LastOf(t, LinesUpTo(t, l[2], n)) =
           IF Name(t, l) = n THEN Value(t, l) ELSE LastOf(t, LinesUpTo(t, a, n))
<1>1. /\ l = <<l[1], l[2]>> /\ LineAt(t, l[1], l[2])
      /\ l[1] \in Nat /\ l[2] \in Nat /\ l[1] <= l[2]
  BY HeaderLineFacts DEF LineAt
<1>2. ASSUME NEW k \in HeaderLines(t)
      PROVE  /\ k[2] \in Nat
             /\ k[2] <= l[2] <=> k[2] <= a \/ k = l
             /\ l[2] <= k[2] /\ k[2] <= l[2] => k = l
  <2>1. k = <<k[1], k[2]>> /\ LineAt(t, k[1], k[2]) /\ k[2] \in Nat
    BY HeaderLineFacts DEF LineAt
  <2>2. l[1] <= k[2] /\ k[2] <= l[2] => k = l
    <3> SUFFICES ASSUME l[1] <= k[2], k[2] <= l[2] PROVE k = l
      OBVIOUS
    <3>1. k[1] = l[1] /\ k[2] = l[2]
      BY <1>1, <2>1, SameLine
    <3> QED
      BY <1>1, <2>1, <3>1
  <2> DEFINE x == k[2]
             y == l[2]
  <2>3. x \in Nat /\ y \in Nat /\ a + 1 <= y
    BY <1>1, <2>1
  <2>4. a + 1 <= x /\ x <= y => k = l
    BY <2>2
  <2>5. k = l => x = y
    OBVIOUS
  <2> HIDE DEF x, y
  <2>6. x <= y <=> x <= a \/ k = l
    BY <2>3, <2>4, <2>5
  <2>7. y <= x /\ x <= y => k = l
    BY <2>3, <2>4
  <2> QED
    BY <2>3, <2>6, <2>7 DEF x, y
<1> DEFINE S == LinesUpTo(t, l[2], n)
           P(m) == \A k \in S : k[2] <= m[2]
<1>3. CASE Name(t, l) # n
  <2>1. S = LinesUpTo(t, a, n)
    BY <1>2, <1>3 DEF LinesUpTo
  <2> QED
    BY <1>3, <2>1
<1>4. CASE Name(t, l) = n
  <2>1. l \in S /\ \A k \in S : k \in HeaderLines(t) /\ k[2] <= l[2]
    BY <1>1, <1>4 DEF LinesUpTo
  <2> HIDE DEF S
  <2> DEFINE m == CHOOSE j \in S : P(j)
  <2>2. P(l)
    BY <2>1
  <2>3. m \in S /\ P(m)
    BY <2>1, <2>2
  <2> HIDE DEF m
  <2>4. m = l
    BY <1>2, <2>1, <2>3
  <2>5. LastOf(t, S) = Value(t, m)
    BY <2>1 DEF LastOf, m
  <2> QED
    BY <1>4, <2>4, <2>5 DEF S
<1> QED
  BY <1>3, <1>4

-----------------------------------------------------------------------------
\* What is read behind place a, and what is known of the header then.
LineRead(t, l, w) ==
  IF w.is = "value" THEN w.key = Name(t, l) /\ w.key \in Known
  ELSE w.is = "skip" /\ Name(t, l) \notin Known
Context(t, w, hdr, a) ==
  \/ w.is = "method" /\ a = 0 /\ NoHeaders(hdr)
  \/ w.is = "uri" /\ a = MethodEnd(t) /\ NoHeaders(hdr)
  \/ w.is = "version" /\ a = UriEnd(t) /\ NoHeaders(hdr)
  \/ w.is = "name" /\ LineStart(t, a) /\ HeadersUpTo(t, hdr, a)
  \/ \E l \in HeaderLines(t) :
       LineRead(t, l, w) /\ a = Colon(t, l) /\ HeadersUpTo(t, hdr, l[1] - 1)
Reading(t, w, hdr, p, a, s, e) ==
  /\ ~w.eof /\ Context(t, w, hdr, a) /\ e <= HeadEnd(t)
  /\ Span(t, a, s, e, w.is) /\ Tracks(t, w, p, a, s, e)

Parses ==
  /\ Fits(text) /\ cl # NoClient /\ link[cl] # "reset"
  /\ ~(link[cl] = "fin" /\ sent < HeadEnd(text))
HeaderState ==
  Parses =>
    /\ pc = "read" => \E a, s, e : Reading(text, word, req.hdr, ipos, a, s, e)
    /\ pc = "serve" => ipos = HeadEnd(text) /\ \A n \in Known : req.hdr[n] = Header(text, n)

\* What the clients do moves no place of the text.
LEMMA HeaderEnvironment ==
  ASSUME HttpInv, HeaderState, Environment
  PROVE  HeaderState'
<1>1. CASE pc = "accept"
  <2>1. pc' = pc
    BY DEF Environment, Send, Connect, HangUp
  <2> QED
    BY <1>1, <2>1 DEF HeaderState
<1>2. CASE pc # "accept"
  <2>1. /\ UNCHANGED <<text, pc, cl, ipos, word, req>>
        /\ link[cl] = "fin" => link'[cl] \in {"fin", "reset"} /\ sent' = sent
        /\ link[cl] = "reset" => link'[cl] = "reset" /\ sent' = sent
    BY <1>2, ClientSteps
  <2>2. Parses' => Parses
    BY <2>1 DEF Parses
  <2> QED
    BY <2>1, <2>2 DEF HeaderState
<1> QED
  BY <1>1, <1>2

LEMMA HeadNumber ==
  ASSUME NEW t \in Chars, Fits(t)
  PROVE  HeadEnd(t) \in Nat
BY FirstLine

\* A segment more, or the end of the input, which the header never meets.
LEMMA HeaderFill ==
  ASSUME HttpInv, HeaderState, Fill
  PROVE  HeaderState'
<1>1. /\ UNCHANGED <<link, text, sent, pc, cl, ipos, req>> /\ pc = "read" /\ ~word.done
      /\ \/ /\ link[cl] = "reset" /\ word'.done
         \/ word' = word
         \/ link[cl] = "fin" /\ ipos = sent
  BY FillSteps
<1> SUFFICES ASSUME Parses' PROVE HeaderState'
  BY DEF HeaderState
<1>2. Parses
  BY <1>1 DEF Parses
<1>3. PICK a, s, e : Reading(text, word, req.hdr, ipos, a, s, e)
  BY <1>1, <1>2 DEF HeaderState
<1>4. CASE word' = word
  BY <1>1, <1>3, <1>4 DEF HeaderState
<1>5. CASE link[cl] = "fin" /\ ipos = sent
  <2>1. text \in Chars /\ ipos \in Nat
    BY DEF HttpInv, StreamHolds, Chars
  <2>2. HeadEnd(text) \in Nat /\ HeadEnd(text) <= ipos
    BY <1>2, <1>5, <2>1, HeadNumber DEF Parses
  <2>3. e \in Nat /\ e <= HeadEnd(text)
    BY <1>3, <2>1, SpanPlaces DEF Reading
  <2>4. ipos <= e /\ ipos # e
    BY <1>1, <1>3 DEF Reading, Tracks
  <2> QED
    BY <2>1, <2>2, <2>3, <2>4
<1> QED
  BY <1>1, <1>2, <1>4, <1>5 DEF Parses

\* A character more of the word that is read.
LEMMA HeaderTake ==
  ASSUME HttpInv, HeaderState, TakeChar
  PROVE  HeaderState'
<1>1. UNCHANGED <<link, text, sent, pc, cl, req>> /\ pc = "read" /\ ipos' = ipos + 1
  BY DEF TakeChar, client
<1> SUFFICES ASSUME Parses' PROVE HeaderState'
  BY DEF HeaderState
<1>2. Parses
  BY <1>1 DEF Parses
<1>3. PICK a, s, e : Reading(text, word, req.hdr, ipos, a, s, e)
  BY <1>1, <1>2 DEF HeaderState
<1>4. /\ Tracks(text, word', ipos + 1, a, s, e)
      /\ ~word'.eof /\ word'.is = word.is /\ word'.key = word.key
  BY <1>3, TracksTake DEF HttpInv, Reading
<1>5. Context(text, word', req.hdr, a)
  BY <1>3, <1>4 DEF Reading, Context, LineRead
<1>6. Reading(text', word', req'.hdr, ipos', a, s, e)
  BY <1>1, <1>3, <1>4, <1>5 DEF Reading
<1> QED
  BY <1>1, <1>6 DEF HeaderState

-----------------------------------------------------------------------------
(***************************************************************************)
(* The header, word by word.                                               *)
(***************************************************************************)

\* A word that was read up to its end.
Found(t, w, p, a, s) ==
  /\ Span(t, a, s, p, w.is)
  /\ w.is \in Buffered => w.buf = Clean(Part(t, s, p - 1))
  /\ Got(w) # 0

LEMMA WordFound ==
  ASSUME HttpInv, HeaderState, Parses, pc = "read", word.done
  PROVE  \E a, s : Found(text, word, ipos, a, s) /\ Context(text, word, req.hdr, a)
<1>1. PICK a, s, e : Reading(text, word, req.hdr, ipos, a, s, e)
  BY DEF HeaderState
<1>2. /\ ~word.eof /\ Span(text, a, s, e, word.is) /\ Tracks(text, word, ipos, a, s, e)
      /\ Context(text, word, req.hdr, a)
  BY <1>1 DEF Reading
<1>3. text \in Chars /\ word \in Words
  BY DEF HttpInv, StreamHolds, WordHolds, Chars
<1>4. a \in Nat /\ s \in Nat /\ e \in Nat /\ a < s /\ s <= e
  BY <1>2, <1>3, SpanPlaces
<1>5. ipos = e /\ (word.is \in Buffered => word.buf = Clean(Part(text, s, e - 1)))
  BY <1>2 DEF Tracks
<1>6. Got(word) # 0
  <2>1. ipos # a
    BY <1>4, <1>5
  <2>2. ~(word.rc = 0 /\ ~word.skip)
    BY <1>2, <2>1 DEF Tracks
  <2> QED
    BY <1>3, <2>2, GotNothing
<1>7. Found(text, word, ipos, a, s)
  BY <1>2, <1>5, <1>6 DEF Found
<1> QED
  BY <1>2, <1>7

\* The next word is asked for where the last one ended.
LEMMA NextRead ==
  ASSUME NEW is \in Kinds, NEW key \in Keys, StartWord(is, key), text' \in Chars, HeadEnd(text') \in Nat,
         NEW s, NEW e, Span(text', ipos', s, e, is), e <= HeadEnd(text'), Context(text', word', req'.hdr, ipos')
  PROVE  HeaderState'
<1>1. /\ word'.is = is /\ ~word'.eof /\ pc' = "read"
      /\ word' = [NoWord EXCEPT !.is = is, !.key = key]
  BY FreshWordOf DEF StartWord
<1>2. Tracks(text', word', ipos', ipos', s, e)
  BY <1>1, TracksNone
<1>3. Reading(text', word', req'.hdr, ipos', ipos', s, e)
  BY <1>1, <1>2 DEF Reading
<1> QED
  BY <1>1, <1>3 DEF HeaderState

LEMMA HeaderMethod ==
  ASSUME HttpInv, HeaderState, GotMethod
  PROVE  HeaderState'
<1>1. /\ UNCHANGED <<link, text, sent, cl, ipos, req>>
      /\ pc = "read" /\ word.done /\ word.is = "method"
  BY DEF GotMethod, Parsed, client, stream
<1> SUFFICES ASSUME Parses', pc' \in {"read", "serve"} PROVE HeaderState'
  BY DEF HeaderState
<1>2. Parses /\ Fits(text) /\ text \in Chars
  BY <1>1 DEF Parses, HttpInv, StreamHolds, Chars
<1>3. StartWord("uri", <<>>)
  BY DEF GotMethod, Respond
<1>4. PICK a, s : Found(text, word, ipos, a, s) /\ Context(text, word, req.hdr, a)
  BY <1>1, <1>2, WordFound
<1>5. a = 0 /\ NoHeaders(req.hdr)
  BY <1>1, <1>4 DEF Context, LineRead
<1>6. ipos = MethodEnd(text)
  <2>1. Span(text, 0, Begin(text, 1), MethodEnd(text), "method")
    BY <1>2, MethodSpan DEF Fits
  <2>2. Span(text, 0, s, ipos, "method")
    BY <1>1, <1>4, <1>5 DEF Found
  <2> QED
    BY <1>2, <2>1, <2>2, SpanOnce
<1>7. /\ Span(text, MethodEnd(text), Begin(text, MethodEnd(text)), UriEnd(text), "uri")
      /\ UriEnd(text) <= HeadEnd(text) /\ HeadEnd(text) \in Nat
  BY <1>2, FirstLine
<1>8. "uri" \in Kinds /\ <<>> \in Keys
  BY EmptyString DEF Kinds
<1>9. word'.is = "uri"
  BY <1>3, <1>8, FreshWordOf
<1>10. Context(text', word', req'.hdr, ipos')
  BY <1>1, <1>5, <1>6, <1>9 DEF Context
<1> QED
  BY <1>1, <1>2, <1>3, <1>6, <1>7, <1>8, <1>10, NextRead

LEMMA HeaderUri ==
  ASSUME HttpInv, RequestHolds, HeaderState, GotUri
  PROVE  HeaderState'
<1>1. /\ UNCHANGED <<link, text, sent, cl, ipos>>
      /\ pc = "read" /\ word.done /\ word.is = "uri" /\ StartWord("version", <<>>)
  BY DEF GotUri, Parsed, client, stream
<1>a. req'.hdr = req.hdr
  BY DEF GotUri, RequestHolds
<1> SUFFICES ASSUME Parses' PROVE HeaderState'
  BY DEF HeaderState
<1>2. Parses /\ Fits(text) /\ text \in Chars
  BY <1>1 DEF Parses, HttpInv, StreamHolds, Chars
<1>4. PICK a, s : Found(text, word, ipos, a, s) /\ Context(text, word, req.hdr, a)
  BY <1>1, <1>2, WordFound
<1>5. a = MethodEnd(text) /\ NoHeaders(req.hdr)
  BY <1>1, <1>4 DEF Context, LineRead
<1>6. PICK s2, v : /\ HeadEnd(text) \in Nat
                   /\ Span(text, MethodEnd(text), Begin(text, MethodEnd(text)), UriEnd(text), "uri")
                   /\ Span(text, UriEnd(text), s2, v, "version")
                   /\ v \in Nat /\ v < HeadEnd(text)
  BY <1>2, FirstLine
<1>7. ipos = UriEnd(text)
  <2>1. Span(text, MethodEnd(text), s, ipos, "uri")
    BY <1>1, <1>4, <1>5 DEF Found
  <2> QED
    BY <1>2, <1>6, <2>1, SpanOnce
<1>8. "version" \in Kinds /\ <<>> \in Keys
  BY EmptyString DEF Kinds
<1>9. word'.is = "version"
  BY <1>1, <1>8, FreshWordOf
<1>10. Context(text', word', req'.hdr, ipos')
  BY <1>1, <1>a, <1>5, <1>7, <1>9 DEF Context
<1>11. v <= HeadEnd(text)
  BY <1>6
<1> QED
  BY <1>1, <1>2, <1>6, <1>7, <1>8, <1>10, <1>11, NextRead

\* A new line of the header.
LEMMA HeaderLine ==
  ASSUME StartWord("name", <<>>), text' \in Chars, Fits(text'), LineStart(text', ipos'),
         HeadersUpTo(text', req'.hdr, ipos')
  PROVE  HeaderState'
<1>1. PICK s, e : /\ Span(text', ipos', s, e, "name") /\ e <= HeadEnd(text') /\ HeadEnd(text') \in Nat
  BY NameSpan
<1>2. "name" \in Kinds /\ <<>> \in Keys
  BY EmptyString DEF Kinds
<1>3. word'.is = "name"
  BY <1>2, FreshWordOf
<1>4. Context(text', word', req'.hdr, ipos')
  BY <1>3 DEF Context
<1> QED
  BY <1>1, <1>2, <1>4, NextRead

\* Behind the version the first header line begins, or the empty one.
LEMMA HeaderVersion ==
  ASSUME HttpInv, HeaderState, GotVersion
  PROVE  HeaderState'
<1>1. /\ UNCHANGED <<link, text, sent, cl, ipos, req>>
      /\ pc = "read" /\ word.done /\ word.is = "version" /\ StartWord("name", <<>>)
  BY DEF GotVersion, Parsed, client, stream
<1> SUFFICES ASSUME Parses' PROVE HeaderState'
  BY DEF HeaderState
<1>2. Parses /\ Fits(text) /\ text \in Chars
  BY <1>1 DEF Parses, HttpInv, StreamHolds, Chars
<1>4. PICK a, s : Found(text, word, ipos, a, s) /\ Context(text, word, req.hdr, a)
  BY <1>1, <1>2, WordFound
<1>5. a = UriEnd(text) /\ NoHeaders(req.hdr)
  BY <1>1, <1>4 DEF Context, LineRead
<1>6. PICK s2, v : /\ Span(text, UriEnd(text), s2, v, "version")
                   /\ v \in Nat /\ 1 <= v /\ v < HeadEnd(text) /\ v <= Len(text)
                   /\ text[v] = "lf" /\ OneLine(text, v)
  BY <1>2, FirstLine
<1>7. ipos = v
  <2>1. Span(text, UriEnd(text), s, ipos, "version")
    BY <1>1, <1>4, <1>5 DEF Found
  <2> QED
    BY <1>2, <1>6, <2>1, SpanOnce
<1>8. LineStart(text, ipos)
  BY <1>6, <1>7 DEF LineStart
<1>9. HeadersUpTo(text, req.hdr, ipos)
  BY <1>2, <1>5, <1>6, <1>7, HeadersNone
<1> QED
  BY <1>1, <1>2, <1>8, <1>9, HeaderLine

\* The name says how the rest of its line is read; none at all is the end.
LEMMA HeaderName ==
  ASSUME HttpInv, HeaderState, GotName
  PROVE  HeaderState'
<1>1. /\ UNCHANGED <<link, text, sent, cl, ipos, req>>
      /\ pc = "read" /\ word.done /\ word.is = "name"
      /\ \/ EndOfHeader(word) /\ pc' = "serve"
         \/ ~EndOfHeader(word) /\ word.buf \in Known /\ StartWord("value", word.buf)
         \/ ~EndOfHeader(word) /\ word.buf \notin Known /\ StartWord("skip", <<>>)
  BY DEF GotName, Parsed, client, stream
<1> SUFFICES ASSUME Parses' PROVE HeaderState'
  BY DEF HeaderState
<1>2. Parses /\ Fits(text) /\ text \in Chars
  BY <1>1 DEF Parses, HttpInv, StreamHolds, Chars
<1>4. PICK a, s : Found(text, word, ipos, a, s) /\ Context(text, word, req.hdr, a)
  BY <1>1, <1>2, WordFound
<1>5. LineStart(text, a) /\ HeadersUpTo(text, req.hdr, a)
  BY <1>1, <1>4 DEF Context, LineRead
<1>6. PICK s2, e : /\ Span(text, a, s2, e, "name") /\ HeadEnd(text) \in Nat
                   /\ EndsHead(text, a, s2, e) \/ \E l \in HeaderLines(text) : NamesLine(text, l, a, s2, e)
  BY <1>2, <1>5, NameSpan
<1>7. s = s2 /\ ipos = e
  <2>1. Span(text, a, s, ipos, "name")
    BY <1>1, <1>4 DEF Found
  <2> QED
    BY <1>2, <1>6, <2>1, SpanOnce
<1>8. word.buf = Clean(Part(text, s, ipos - 1)) /\ Got(word) # 0
  BY <1>1, <1>4 DEF Found, Buffered
<1>9. CASE EndsHead(text, a, s2, e)
  <2>1. ipos = HeadEnd(text) /\ word.buf = <<>> /\ \A l \in HeaderLines(text) : l[2] <= a
    BY <1>7, <1>8, <1>9 DEF EndsHead
  <2>2. pc' = "serve"
    BY <1>1, <2>1 DEF EndOfHeader
  <2>3. \A n \in Known : req.hdr[n] = Header(text, n)
    BY <1>5, <2>1, HeadersAll
  <2> QED
    BY <1>1, <2>1, <2>2, <2>3 DEF HeaderState
<1>10. ASSUME NEW l \in HeaderLines(text), NamesLine(text, l, a, s2, e)
       PROVE  HeaderState'
  <2>1. /\ l[1] = a + 1 /\ ipos = Colon(text, l) /\ word.buf = Name(text, l) /\ word.buf # <<>>
    BY <1>7, <1>8, <1>10 DEF NamesLine
  <2>2. ~EndOfHeader(word)
    BY <1>8, <2>1 DEF EndOfHeader
  <2> DEFINE is == IF Name(text, l) \in Known THEN "value" ELSE "skip"
             key == IF Name(text, l) \in Known THEN word.buf ELSE <<>>
  <2>3. is \in Kinds /\ key \in Keys /\ StartWord(is, key)
    BY <1>1, <2>1, <2>2 DEF Kinds, Keys
  <2>4. word'.is = is /\ word'.key = key
    <3> HIDE DEF is, key
    <3> QED
      BY <2>3, FreshWordOf
  <2>5. LineRead(text, l, word')
    BY <2>1, <2>4 DEF LineRead
  <2>6. l[1] - 1 = a
    BY <1>5, <2>1 DEF LineStart
  <2>7. Context(text', word', req'.hdr, ipos')
    BY <1>1, <1>5, <2>1, <2>5, <2>6 DEF Context
  <2>8. /\ Span(text, ipos, Begin(text, ipos + 1), l[2], is) /\ LineStart(text, l[2])
    BY <1>2, <2>1, ValueSpan
  <2>9. l[2] <= HeadEnd(text)
    BY <1>6, <2>8 DEF LineStart
  <2> HIDE DEF is, key
  <2> QED
    BY <1>1, <1>2, <1>6, <2>3, <2>7, <2>8, <2>9, NextRead
<1> QED
  BY <1>6, <1>9, <1>10

\* With the end of the line its header is decided.
LEMMA HeaderValue ==
  ASSUME HttpInv, RequestHolds, HeaderState, GotValue \/ GotSkipped
  PROVE  HeaderState'
<1>1. /\ UNCHANGED <<link, text, sent, cl, ipos>>
      /\ pc = "read" /\ word.done /\ word.is \in {"value", "skip"} /\ StartWord("name", <<>>)
      /\ IF word.is = "value" THEN req' = [req EXCEPT !.hdr[word.key] = word.buf] ELSE req' = req
  BY DEF GotValue, GotSkipped, Parsed, client, stream
<1> SUFFICES ASSUME Parses' PROVE HeaderState'
  BY DEF HeaderState
<1>2. Parses /\ Fits(text) /\ text \in Chars
  BY <1>1 DEF Parses, HttpInv, StreamHolds, Chars
<1>4. PICK a, s : Found(text, word, ipos, a, s) /\ Context(text, word, req.hdr, a)
  BY <1>1, <1>2, WordFound
<1>5. PICK l \in HeaderLines(text) :
        LineRead(text, l, word) /\ a = Colon(text, l) /\ HeadersUpTo(text, req.hdr, l[1] - 1)
  BY <1>1, <1>4 DEF Context
<1>6. word.is = IF Name(text, l) \in Known THEN "value" ELSE "skip"
  BY <1>1, <1>5 DEF LineRead
<1>7. /\ Span(text, a, Begin(text, a + 1), l[2], word.is) /\ LineStart(text, l[2])
      /\ Clean(Part(text, Begin(text, a + 1), l[2] - 1)) = Value(text, l)
  BY <1>2, <1>5, <1>6, ValueSpan
<1>8. ipos = l[2] /\ s = Begin(text, a + 1)
  BY <1>2, <1>4, <1>7, SpanOnce DEF Found
<1>9. word.is = "value" => word.key = Name(text, l) /\ word.buf = Value(text, l) /\ word.key \in Known
  BY <1>4, <1>5, <1>7, <1>8 DEF Found, Buffered, LineRead
<1>10. \A n \in Known : req'.hdr[n] = IF Name(text, l) = n THEN Value(text, l) ELSE req.hdr[n]
  <2>1. CASE word.is = "value"
    <3>1. req' = [req EXCEPT !.hdr[word.key] = word.buf]
      BY <1>1, <2>1
    <3>2. req'.hdr = [req.hdr EXCEPT ![word.key] = word.buf] /\ req.hdr \in Values
      BY <3>1 DEF RequestHolds
    <3> QED
      BY <1>9, <2>1, <3>2 DEF Values
  <2>2. CASE word.is # "value"
    <3>1. Name(text, l) \notin Known
      BY <1>6, <2>2
    <3> QED
      BY <1>1, <2>2, <3>1
  <2> QED
    BY <2>1, <2>2
<1> DEFINE b == l[1] - 1
<1>11. b \in Nat /\ l[1] = b + 1
  BY <1>2, HeaderLineFacts DEF LineAt
<1>12. HeadersUpTo(text, req'.hdr, l[2])
  <2>1. HeadersUpTo(text, req.hdr, b)
    BY <1>5
  <2> HIDE DEF b
  <2>2. ASSUME NEW n \in Known
        PROVE  req'.hdr[n] = LastOf(text, LinesUpTo(text, l[2], n))
    BY <1>2, <1>10, <1>11, <2>1, HeadersNext DEF HeadersUpTo
  <2> QED
    BY <2>2 DEF HeadersUpTo
<1> QED
  BY <1>1, <1>2, <1>7, <1>8, <1>12, HeaderLine

LEMMA HeaderAccept ==
  ASSUME HttpInv, Accept
  PROVE  HeaderState'
<1>1. /\ text' \in Texts /\ ipos' = 0 /\ req' = NoReq /\ StartWord("method", <<>>)
  BY DEF Accept
<1> SUFFICES ASSUME Parses' PROVE HeaderState'
  BY DEF HeaderState
<1>2. text' \in Chars /\ Fits(text')
  BY <1>1, HttpAssumption DEF Chars, Parses
<1>3. Span(text', 0, Begin(text', 1), MethodEnd(text'), "method")
  BY <1>2, MethodSpan DEF Fits
<1>4. HeadEnd(text') \in Nat /\ MethodEnd(text') <= HeadEnd(text')
  BY <1>2, FirstLine
<1>5. "method" \in Kinds /\ <<>> \in Keys
  BY EmptyString DEF Kinds
<1>6. word'.is = "method"
  BY <1>1, <1>5, FreshWordOf
<1>7. NoHeaders(req'.hdr)
  BY <1>1 DEF NoReq, NoHeaders
<1>8. Context(text', word', req'.hdr, ipos')
  BY <1>1, <1>6, <1>7 DEF Context
<1> QED
  BY <1>1, <1>2, <1>3, <1>4, <1>5, <1>8, NextRead

LEMMA HeaderStateKept ==
  ASSUME HttpInv, RequestHolds, HeaderState, Next
  PROVE  HeaderState'
<1>1. CASE HttpParseHeader
  BY <1>1, HeaderMethod, HeaderUri, HeaderVersion, HeaderName, HeaderValue DEF HttpParseHeader
<1>2. CASE Serve \/ SendPiece \/ SendChunk \/ Answered \/ CloseSocket
  BY <1>2 DEF Serve, Respond, SendPiece, SendChunk, Answered, CloseSocket, HeaderState
<1> QED
  BY <1>1, <1>2, HeaderEnvironment, HeaderFill, HeaderTake, HeaderAccept DEF Next, HttpTask

\* While the header of a request that fits is read, the word that is read is
\* one of its lines, at its place, and the headers found are those of the
\* lines above (HttpParseHeader, StreamReadUntilChars).
THEOREM HeaderInvariance == Spec => []HeaderState
<1>1. Init => HeaderState
  BY DEF Init, HeaderState
<1>2. HttpInv /\ AnswerInv /\ HeaderState /\ [Next]_vars => HeaderState'
  <2>1. CASE Next
    BY <2>1, HeaderStateKept DEF AnswerInv
  <2>2. CASE UNCHANGED vars
    BY <2>2 DEF vars, client, stream, HeaderState, Parses
  <2> QED
    BY <2>1, <2>2
<1> QED
  BY <1>1, <1>2, HttpInvariance, AnswerInvariance, PTL DEF Spec

\* A request whose words have room is parsed as its lines say, for any
\* requests and however they are cut into segments: the parser stops behind
\* the empty line, each header that is kept has the value its last line gives
\* it, and one that is not sent has none (HttpParseHeader,
\* StreamReadUntilChars).
THEOREM HeaderParsed == Spec => []HeaderAsSent
<1>1. HttpInv /\ HeaderState => HeaderAsSent
  <2> SUFFICES ASSUME HttpInv, HeaderState, pc = "serve", link[cl] # "reset", text \in FitTexts,
                      sent >= HeadEnd(text)
               PROVE  /\ ipos = HeadEnd(text)
                      /\ \A n \in Known : req.hdr[n] = Header(text, n)
    BY DEF HeaderAsSent
  <2>1. Fits(text) /\ text \in Chars /\ sent \in Nat
    BY DEF FitTexts, HttpInv, StreamHolds, Chars
  <2>2. HeadEnd(text) \in Nat
    BY <2>1, HeadNumber
  <2>3. cl # NoClient
    BY HttpAssumption DEF HttpInv, LinksHold
  <2>4. Parses
    BY <2>1, <2>2, <2>3 DEF Parses
  <2> QED
    BY <2>4 DEF HeaderState
<1> QED
  BY <1>1, HttpInvariance, HeaderInvariance, PTL
=============================================================================
