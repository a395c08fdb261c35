--------------------------- MODULE HttpServerProofs ---------------------------
(***************************************************************************)
(* Proofs about HttpServer, for any requests, sizes of files and of their  *)
(* parts: the types, the wake-ups, that what a head announces is done, and *)
(* that a file is sent whole.                                              *)
(***************************************************************************)
EXTENDS HttpServer, FifoLemmas

States == {"eExpectRequestLine", "eReadingHeaders", "eReadingBody", "eResponsing", "eError"}
Finals == {"eResponsing", "eError"}

RequestRecords ==
  [state : States, method : Methods \cup {"eINVALID"}, line : Seq(Tokens),
   headers : SUBSET Fields, content : 0 .. BodyLength]

(* What of the body has come is no more than it is to have. *)
Sound(r) ==
  /\ r.state = "eReadingBody" => r.content <= ContentLength(r)
  /\ r.state \in {"eExpectRequestLine", "eReadingHeaders"} => r.content = 0

(* The values of mDataSize, of st_size, and of the status. *)
Lefts == 0 .. SizeLimit - 1
Lengths == FileSizes \cup {0}
Statuses == {0, 200, 307, 400, 401, 404, 503}

ResponseRecords ==
  [status : Statuses, close : BOOLEAN, locked : BOOLEAN,
   left : Lefts, body : Nat, size : Lengths, pos : Nat,
   loads : Nat, length : Nat, announced : BOOLEAN]

Answers == [status : Nat, announced : BOOLEAN, length : Nat, body : Nat]

Early == {"ParseCookie", "Identify", "UpgradeWs", "Login", "CheckURL", "CheckMethod",
          "UnSupport", "LoadFile"}

Types ==
  /\ upgrades \in BOOLEAN /\ sent \in Seq(Requests) /\ Len(sent) <= MaxRequests
  /\ inbox \in Seq(Tokens)
  /\ rest \in Seq(Tokens) \cup {Null, Beyond}
  /\ loop \in {"idle", "parse", "check"}
  /\ req \in RequestRecords /\ Sound(req)
  /\ res \in ResponseRecords
  /\ task \in Early \cup {"none", "NextLoad", "Response"}
  /\ wake \in BOOLEAN /\ conn \in {"open", "closing", "shutting", "closed", "upgraded"}
  /\ out \in Seq(Answers) /\ done \in Nat
  /\ failed \in {"none", "overrun", "SetStatusCode", "SetFile", "LoadContent"}
  /\ changed \in BOOLEAN /\ tame \in BOOLEAN /\ split \in BOOLEAN

(* Where the bytes of the chunk are. *)
Chunk ==
  /\ loop = "parse" /\ failed = "none" => rest \in Seq(Tokens)
  /\ loop = "idle" => rest = Null
  /\ rest = Beyond => failed # "none"
  /\ rest \in Seq(Tokens) \ {<< >>} /\ rest[Len(rest)] \in {"CR", "BAD"} => split

(* The assertions, but for that of SetStatusCode. *)
Failures ==
  /\ failed = "overrun" => split
  /\ failed # "SetFile"
  /\ failed = "LoadContent" => changed

(* A request that is being answered has come to its end, and bytes behind  *)
(* it keep the loop in OnMessage: no task is run any more.                 *)
Chain ==
  /\ task # "none" => req.state \in Finals
  /\ task # "none" /\ loop # "idle" => rest \notin {Null, << >>}
  /\ conn = "closing" => loop = "idle"

(* The head is locked for the last modules only. *)
Locks ==
  /\ res.locked => task # "none"
  /\ failed = "none" /\ loop = "idle" => (res.locked <=> task \in {"NextLoad", "Response"})
  /\ failed = "none" /\ loop = "idle" /\ task \in {"CheckMethod", "LoadFile"} =>
       res.status = 200
  /\ res.status = 200 => res.size \in FileSizes
  /\ res.loads = 0 => res.pos = 0
  /\ res.locked => res.announced = CloseConnection(res)

(* What has been sent of the answer that is not finished. *)
Total == IF res.loads >= 2 THEN out[Len(out)].body ELSE 0

Counting ==
  /\ Len(out) \in {done, done + 1}
  /\ ~res.locked => res.loads = 0
  /\ failed = "none" =>
       IF res.loads <= 1 THEN Len(out) = done
       ELSE /\ Len(out) = done + 1
            /\ out[Len(out)] = [Answer EXCEPT !.body = Total]

Announced ==
  \A k \in 1 .. done :
    out[k].announced =>
      /\ k = Len(out) /\ conn \in {"closing", "shutting", "closed"}
      /\ conn = "closing" => task = "none"

(* The rest suffices for what is missing of length behind t units. *)
Suffices(t, length, left) == t < length => left >= length - t

(* t units of a file that has not changed are loaded, and more are to be. *)
Unread(t, length, size, pos, left) ==
  /\ size = length /\ pos = t /\ left = length - t
  /\ t < length \/ (t = 0 /\ length = 0)

(* They are loaded, the last part of l units included. *)
IsRead(t, l, length, size, pos, left) ==
  /\ size = length
  /\ \/ t <= length /\ pos = t /\ left = length - t
     \/ t > length /\ left = 0
  /\ t - l < length \/ length = 0

(* How far the file has been loaded: n units, the part in mContent included. *)
Loaded(n) ==
  /\ res.status = 200 /\ res.body = LoadSize /\ Total % LoadSize = 0
  /\ Suffices(n, res.length, res.left)
  /\ changed \/ IsRead(n, LoadSize, res.length, res.size, res.pos, res.left)

Loading ==
  /\ failed = "none" /\ res.locked /\ res.loads = 0 => res.status # 200 /\ res.body = res.length
  /\ failed = "none" /\ res.loads >= 1 => Loaded(Total + res.body)
  /\ failed = "none" /\ task = "Response" /\ loop = "idle" => res.loads = 0
  /\ failed = "none" /\ task = "NextLoad" /\ loop = "idle" => res.loads >= 1

IInv ==
  /\ Types /\ Chunk /\ Failures /\ Chain /\ Locks /\ Counting /\ Announced /\ Loading
  /\ WakeDrivesTask /\ WholeFileIsSent

-----------------------------------------------------------------------------
(* The requests. *)

(* A line end is found where the first CR is, unless that is the last      *)
(* token, and not at all without one or in a chunk of one token.           *)
LEMMA FindCrlfFacts ==
  ASSUME NEW c \in Seq(Tokens)
  PROVE  /\ FindCrlf(c) \in -1 .. Len(c)
         /\ FindCrlf(c) > 0 =>
              /\ FindCrlf(c) < Len(c) /\ c[FindCrlf(c)] = "CR"
              /\ \A j \in 1 .. FindCrlf(c) - 1 : c[j] # "CR"
         /\ FindCrlf(c) = 0 => Len(c) < 2 \/ \A j \in 1 .. Len(c) : c[j] # "CR"
         /\ FindCrlf(c) = -1 => Len(c) > 0 /\ c[Len(c)] = "CR"
<1> DEFINE crs == {i \in 1 .. Len(c) : c[i] = "CR"}
           cr  == CHOOSE i \in crs : \A j \in crs : i <= j
<1>0. Len(c) \in Nat
  OBVIOUS
<1>1. FindCrlf(c) = IF Len(c) < 2 \/ crs = {} THEN 0 ELSE IF cr = Len(c) THEN -1 ELSE cr
  BY DEF FindCrlf
<1>2. CASE Len(c) < 2 \/ crs = {}
  <2>1. FindCrlf(c) = 0
    BY <1>1, <1>2
  <2>2. crs = {} => \A j \in 1 .. Len(c) : c[j] # "CR"
    OBVIOUS
  <2>3. Len(c) < 2 \/ \A j \in 1 .. Len(c) : c[j] # "CR"
    BY <1>2, <2>2
  <2> HIDE DEF crs
  <2>4. FindCrlf(c) \in -1 .. Len(c)
    BY <1>0, <2>1
  <2> QED
    BY <2>1, <2>3, <2>4
<1>3. CASE ~(Len(c) < 2 \/ crs = {})
  <2>1. crs \in SUBSET Nat /\ crs # {}
    BY <1>3
  <2>2. \E i \in crs : \A j \in crs : i <= j
    <3> HIDE DEF crs
    <3> QED
      BY <2>1, HasLeast
  <2>3. cr \in crs /\ \A j \in crs : cr <= j
    BY <2>2
  <2> HIDE DEF cr
  <2>4. cr \in 1 .. Len(c) /\ c[cr] = "CR"
    BY <2>3
  <2>5. \A j \in 1 .. cr - 1 : c[j] # "CR"
    <3> SUFFICES ASSUME NEW j \in 1 .. cr - 1, c[j] = "CR" PROVE FALSE
      OBVIOUS
    <3>1. j \in crs /\ ~(cr <= j)
      BY <1>0, <2>4
    <3> QED
      BY <2>3, <3>1
  <2>6. FindCrlf(c) = IF cr = Len(c) THEN -1 ELSE cr
    BY <1>1, <1>3
  <2> QED
    BY <1>0, <2>4, <2>5, <2>6
<1> QED
  BY <1>2, <1>3

(* What a handler may leave of the chunk c. *)
Leaves(c, b) ==
  /\ b \in Seq(Tokens) \cup {Null, Beyond}
  /\ b = Beyond => Len(c) > 0 /\ c[Len(c)] = "CR"
  /\ b \in Seq(Tokens) \ {<< >>} => c # << >> /\ b[Len(b)] = c[Len(c)]

LEMMA NullIsNoChunk == Null \notin Seq(Tokens) /\ Beyond \notin Seq(Tokens) /\ Null # Beyond
<1>1. "nullptr" \notin Tokens /\ "beyond" \notin Tokens
  BY DEF Tokens, Methods, Fields
<1>2. \A s \in Seq(Tokens) : Len(s) = 1 => s[1] \in Tokens
  OBVIOUS
<1>3. Len(Null) = 1 /\ Null[1] = "nullptr" /\ Len(Beyond) = 1 /\ Beyond[1] = "beyond"
  BY DEF Null, Beyond
<1> QED
  BY <1>1, <1>2, <1>3

(* The rest of a chunk is one that may be left of it. *)
LEMMA RestIsLeft ==
  ASSUME NEW c \in Seq(Tokens), NEW k \in 0 .. Len(c)
  PROVE  Leaves(c, SubSeq(c, k + 1, Len(c)))
<1> DEFINE b == SubSeq(c, k + 1, Len(c))
<1>1. b \in Seq(Tokens) /\ Len(b) = Len(c) - k /\ \A i \in 1 .. Len(c) - k : b[i] = c[k + i]
  BY Parts
<1> HIDE DEF b
<1>2. Len(c) \in Nat
  OBVIOUS
<1>3. ASSUME b # << >> PROVE c # << >> /\ b[Len(b)] = c[Len(c)]
  <2>1. Len(b) > 0
    BY <1>1, <1>3
  <2>2. Len(b) \in 1 .. Len(c) - k /\ k + Len(b) = Len(c)
    BY <1>1, <1>2, <2>1
  <2> QED
    BY <1>1, <1>2, <2>2
<1> QED
  BY <1>1, <1>3, NullIsNoChunk DEF Leaves, b

LEMMA GetLineFacts ==
  ASSUME NEW q \in RequestRecords, NEW c \in Seq(Tokens)
  PROVE  LET i == FindCrlf(c)
             g == GetLine(q, c)
         IN  /\ i > 0 => /\ i + 1 \in 0 .. Len(c)
                         /\ g.line = q.line \o SubSeq(c, 1, i - 1) /\ g.line \in Seq(Tokens)
                         /\ g.line # Null
                         /\ g.begin = SubSeq(c, i + 2, Len(c))
             /\ ~(i > 0) => g.line = Null /\ g.begin = IF i = 0 THEN Null ELSE Beyond
             /\ Leaves(c, g.begin)
<1> DEFINE i == FindCrlf(c)
           g == GetLine(q, c)
<1>0. Len(c) \in Nat /\ q.line \in Seq(Tokens)
  BY DEF RequestRecords
<1>1. i \in -1 .. Len(c) /\ (i > 0 => i < Len(c)) /\ (i = -1 => Len(c) > 0 /\ c[Len(c)] = "CR")
  BY FindCrlfFacts
<1>2. g = IF i > 0 THEN [line |-> q.line \o SubSeq(c, 1, i - 1), begin |-> SubSeq(c, i + 2, Len(c))]
          ELSE [line |-> Null, begin |-> IF i = 0 THEN Null ELSE Beyond]
  BY <1>0, <1>1 DEF GetLine
<1> HIDE DEF i, g
<1>3. CASE i > 0
  <2>1. i + 1 \in 0 .. Len(c) /\ i - 1 \in 0 .. Len(c) /\ (i + 1) + 1 = i + 2
    BY <1>0, <1>1, <1>3
  <2>2. SubSeq(c, 1, i - 1) \in Seq(Tokens)
    BY <2>1, Parts
  <2>3. q.line \o SubSeq(c, 1, i - 1) \in Seq(Tokens)
    BY <1>0, <2>2, ConcatProperties
  <2>4. Leaves(c, SubSeq(c, i + 2, Len(c)))
    <3> DEFINE k == i + 1
    <3>1. k \in 0 .. Len(c) /\ k + 1 = i + 2
      BY <2>1
    <3> HIDE DEF k
    <3>2. Leaves(c, SubSeq(c, k + 1, Len(c)))
      BY <3>1, RestIsLeft
    <3> QED
      BY <3>1, <3>2
  <2>5. g.line = q.line \o SubSeq(c, 1, i - 1) /\ g.begin = SubSeq(c, i + 2, Len(c))
    BY <1>2, <1>3
  <2>6. g.line \in Seq(Tokens) /\ g.line # Null /\ Leaves(c, g.begin)
    BY <2>3, <2>4, <2>5, NullIsNoChunk
  <2> QED
    BY <1>3, <2>1, <2>5, <2>6 DEF i, g
<1>4. CASE ~(i > 0)
  <2>1. g.line = Null /\ g.begin = IF i = 0 THEN Null ELSE Beyond
    BY <1>2, <1>4
  <2>2. i # 0 => i = -1
    BY <1>1, <1>4
  <2>3. Leaves(c, g.begin)
    BY <1>1, <2>1, <2>2, NullIsNoChunk DEF Leaves
  <2> QED
    BY <1>4, <2>1, <2>3 DEF i, g
<1> QED
  BY <1>3, <1>4

LEMMA KeptFacts ==
  ASSUME NEW q \in RequestRecords, NEW c \in Seq(Tokens), Sound(q)
  PROVE  Kept(q, c) \in RequestRecords /\ (q.state # "eReadingBody" => Sound(Kept(q, c)))
<1>1. q.line \o c \in Seq(Tokens) /\ << >> \in Seq(Tokens)
  BY ConcatProperties DEF RequestRecords
<1> DEFINE line == q.line \o c
<1> HIDE DEF line
<1>2. Kept(q, c) = IF Overlong(line) THEN [q EXCEPT !.line = << >>, !.state = "eError"]
                   ELSE [q EXCEPT !.line = line]
  BY DEF Kept, line
<1>3. line \in Seq(Tokens)
  BY <1>1 DEF line
<1>4. CASE Overlong(line)
  BY <1>1, <1>2, <1>3, <1>4 DEF RequestRecords, States, Sound
<1>5. CASE ~Overlong(line)
  <2>1. Kept(q, c) = [q EXCEPT !.line = line]
    BY <1>2, <1>5
  <2>2. Kept(q, c) \in RequestRecords
    BY <1>3, <2>1 DEF RequestRecords
  <2>3. Kept(q, c).state = q.state /\ Kept(q, c).content = q.content
    BY <2>1 DEF RequestRecords
  <2> QED
    BY <2>2, <2>3 DEF Sound
<1> QED
  BY <1>4, <1>5

(* A body has at most BodyLength tokens. *)
LEMMA ContentLengthFacts ==
  ASSUME NEW q \in RequestRecords
  PROVE  ContentLength(q) \in 0 .. BodyLength
BY HttpAssumption DEF ContentLength

(* What a handler makes of a request and a chunk. *)
Handling(c, r) ==
  r.req \in RequestRecords /\ Sound(r.req) /\ Leaves(c, r.begin)

LEMMA StartLineKeeps ==
  ASSUME NEW q \in RequestRecords, NEW c \in Seq(Tokens), Sound(q),
         q.state = "eExpectRequestLine"
  PROVE  Handling(c, OnExpectRequestLine(q, c))
<1> DEFINE g == GetLine(q, c)
           r == OnExpectRequestLine(q, c)
<1>1. Kept(q, c) \in RequestRecords /\ Sound(Kept(q, c))
  BY KeptFacts
<1>2. /\ r.begin = g.begin
      /\ r.req = CASE g.line # Null -> ParseRequestLine(q, g.line)
                   [] g.line = Null /\ NoSuchMethod(Kept(q, c).line) ->
                        [Kept(q, c) EXCEPT !.state = "eError", !.line = << >>]
                   [] OTHER -> Kept(q, c)
  BY DEF OnExpectRequestLine
<1>3. (g.line # Null => g.line \in Seq(Tokens)) /\ Leaves(c, g.begin)
  BY GetLineFacts
<1> HIDE DEF g, r
<1>4. << >> \in Seq(Tokens)
  OBVIOUS
<1>5. CASE g.line # Null
  <2>1. r.req = ParseRequestLine(q, g.line)
    BY <1>2, <1>5
  <2>2. CASE g.line # << >> /\ g.line[1] \in Methods
    <3>1. r.req = [q EXCEPT !.state = "eReadingHeaders", !.method = g.line[1], !.line = << >>]
      BY <2>1, <2>2 DEF ParseRequestLine
    <3>2. r.req \in RequestRecords
      BY <1>4, <2>2, <3>1 DEF RequestRecords, States
    <3>3. r.req.state = "eReadingHeaders" /\ r.req.content = q.content
      BY <3>1 DEF RequestRecords
    <3> QED
      BY <1>2, <1>3, <3>2, <3>3 DEF Handling, Sound, r
  <2>3. CASE ~(g.line # << >> /\ g.line[1] \in Methods)
    <3>1. r.req = [q EXCEPT !.state = "eError", !.line = << >>]
      BY <2>1, <2>3 DEF ParseRequestLine
    <3>2. r.req \in RequestRecords /\ r.req.state = "eError"
      BY <1>4, <3>1 DEF RequestRecords, States
    <3> QED
      BY <1>2, <1>3, <3>2 DEF Handling, Sound, r
  <2> QED
    BY <2>2, <2>3
<1>6. CASE g.line = Null /\ NoSuchMethod(Kept(q, c).line)
  <2>1. r.req = [Kept(q, c) EXCEPT !.state = "eError", !.line = << >>]
    BY <1>2, <1>6
  <2>2. r.req \in RequestRecords /\ r.req.state = "eError"
    BY <1>1, <1>4, <2>1 DEF RequestRecords, States
  <2> QED
    BY <1>2, <1>3, <2>2 DEF Handling, Sound, r
<1>7. CASE g.line = Null /\ ~NoSuchMethod(Kept(q, c).line)
  <2>1. r.req = Kept(q, c)
    BY <1>2, <1>7
  <2> QED
    BY <1>1, <1>2, <1>3, <2>1 DEF Handling, r
<1> QED
  BY <1>5, <1>6, <1>7

LEMMA HeadersKeep ==
  ASSUME NEW q \in RequestRecords, NEW c \in Seq(Tokens), Sound(q),
         q.state = "eReadingHeaders"
  PROVE  Handling(c, OnReadingHeaders(q, c))
<1> DEFINE g == GetLine(q, c)
           r == OnReadingHeaders(q, c)
<1>1. Kept(q, c) \in RequestRecords /\ Sound(Kept(q, c))
  BY KeptFacts
<1>2. /\ r.begin = g.begin
      /\ r.req = IF g.line = Null THEN Kept(q, c) ELSE ParseHeader(q, g.line)
  BY DEF OnReadingHeaders
<1>3. (g.line # Null => g.line \in Seq(Tokens)) /\ Leaves(c, g.begin)
  BY GetLineFacts
<1> HIDE DEF g, r
<1>4. << >> \in Seq(Tokens) /\ q.content = 0
  BY DEF Sound
<1>5. CASE g.line = Null
  BY <1>1, <1>2, <1>3, <1>5 DEF Handling, r
<1>6. CASE g.line # Null
  <2>0. r.req = ParseHeader(q, g.line)
    BY <1>2, <1>6
  <2>1. CASE g.line = << >>
    <3>1. r.req = [q EXCEPT !.state = "eReadingBody", !.line = << >>]
      BY <2>0, <2>1 DEF ParseHeader
    <3>2. r.req \in RequestRecords /\ r.req.state = "eReadingBody" /\ r.req.content = 0
      BY <1>4, <3>1 DEF RequestRecords, States
    <3>3. r.req.content <= ContentLength(r.req)
      BY <3>2, ContentLengthFacts, HttpAssumption
    <3> QED
      BY <1>2, <1>3, <3>2, <3>3 DEF Handling, Sound, r
  <2>2. CASE g.line # << >> /\ \A i \in 1 .. Len(g.line) : g.line[i] \notin Fields
    <3>1. r.req = [q EXCEPT !.state = "eError", !.line = << >>]
      BY <2>0, <2>2 DEF ParseHeader
    <3>2. r.req \in RequestRecords /\ r.req.state = "eError"
      BY <1>4, <3>1 DEF RequestRecords, States
    <3> QED
      BY <1>2, <1>3, <3>2 DEF Handling, Sound, r
  <2>3. CASE g.line # << >> /\ ~\A i \in 1 .. Len(g.line) : g.line[i] \notin Fields
    <3>1. r.req = [q EXCEPT !.line = << >>,
                            !.headers = IF Len(g.line) = 1 THEN @ \cup {g.line[1]} ELSE @]
      BY <2>0, <2>3 DEF ParseHeader
    <3> DEFINE h == IF Len(g.line) = 1 THEN q.headers \cup {g.line[1]} ELSE q.headers
    <3>2. h \subseteq Fields
      BY <1>3, <1>6, <2>3 DEF RequestRecords
    <3>3. r.req = [q EXCEPT !.line = << >>, !.headers = h]
      BY <3>1 DEF RequestRecords
    <3> HIDE DEF h
    <3>4. r.req \in RequestRecords /\ r.req.state = q.state /\ r.req.content = q.content
      BY <1>4, <3>2, <3>3 DEF RequestRecords
    <3> QED
      BY <1>2, <1>3, <1>4, <3>4 DEF Handling, Sound, r
  <2> QED
    BY <2>1, <2>2, <2>3
<1> QED
  BY <1>5, <1>6

LEMMA BodyKeeps ==
  ASSUME NEW q \in RequestRecords, NEW c \in Seq(Tokens), Sound(q),
         q.state = "eReadingBody"
  PROVE  Handling(c, OnReadingBody(q, c))
<1> DEFINE need == ContentLength(q) - q.content
           r == OnReadingBody(q, c)
<1>1. ContentLength(q) \in 0 .. BodyLength /\ q.content \in 0 .. ContentLength(q)
  BY ContentLengthFacts DEF Sound, RequestRecords
<1>2. need \in 0 .. BodyLength /\ q.content + need = ContentLength(q) /\ Len(c) \in Nat
  BY <1>1, HttpAssumption
<1>3. r = IF need <= Len(c)
            THEN [req |-> [q EXCEPT !.content = @ + need, !.state = "eResponsing"],
                  begin |-> SubSeq(c, need + 1, Len(c))]
            ELSE [req |-> [q EXCEPT !.content = @ + Len(c)], begin |-> Null]
  BY DEF OnReadingBody
<1> HIDE DEF need, r
<1>4. CASE need <= Len(c)
  <2>1. r.req = [q EXCEPT !.content = q.content + need, !.state = "eResponsing"]
        /\ r.begin = SubSeq(c, need + 1, Len(c))
    BY <1>3, <1>4 DEF RequestRecords
  <2>2. q.content + need \in 0 .. BodyLength
    BY <1>1, <1>2
  <2>3. r.req \in RequestRecords /\ r.req.state = "eResponsing"
    BY <2>1, <2>2 DEF RequestRecords, States
  <2>4. Leaves(c, r.begin)
    BY <1>2, <1>4, <2>1, RestIsLeft
  <2> QED
    BY <2>3, <2>4 DEF Handling, Sound, r
<1>5. CASE ~(need <= Len(c))
  <2>1. r.req = [q EXCEPT !.content = q.content + Len(c)] /\ r.begin = Null
    BY <1>3, <1>5 DEF RequestRecords
  <2>2. q.content + Len(c) \in 0 .. BodyLength /\ q.content + Len(c) <= ContentLength(q)
    BY <1>1, <1>2, <1>5, HttpAssumption
  <2>3. /\ r.req \in RequestRecords /\ r.req.state = "eReadingBody"
        /\ r.req.content = q.content + Len(c)
        /\ r.req.method = q.method /\ r.req.headers = q.headers
    BY <2>1, <2>2 DEF RequestRecords
  <2>4. r.req.content <= ContentLength(r.req)
    BY <2>2, <2>3 DEF ContentLength
  <2>5. Leaves(c, r.begin)
    BY <2>1, NullIsNoChunk DEF Leaves
  <2> QED
    BY <2>3, <2>4, <2>5 DEF Handling, Sound, r
<1> QED
  BY <1>4, <1>5

(* One call of a handler keeps the types; in the last states nothing of the *)
(* chunk is used.                                                           *)
LEMMA ParseStepKeeps ==
  ASSUME NEW q \in RequestRecords, NEW c \in Seq(Tokens), Sound(q)
  PROVE  /\ Handling(c, ParseStep(q, c))
         /\ q.state \in Finals =>
              /\ ParseStep(q, c).begin = c
              /\ ParseStep(q, c).req.state = q.state
<1> DEFINE h == Handled(q, c)
           r == ParseStep(q, c)
<1>1. q.state \in States
  BY DEF RequestRecords
<1>2. Handling(c, h) /\ (q.state \in Finals => h.begin = c /\ h.req = q)
      /\ DOMAIN h = {"req", "begin"} /\ h = [req |-> h.req, begin |-> h.begin]
  <2>1. CASE q.state = "eExpectRequestLine"
    <3>1. h = OnExpectRequestLine(q, c)
      BY <2>1 DEF Handled
    <3> QED
      BY <2>1, <3>1, StartLineKeeps DEF Finals, OnExpectRequestLine
  <2>2. CASE q.state = "eReadingHeaders"
    <3>1. h = OnReadingHeaders(q, c)
      BY <2>2 DEF Handled
    <3> QED
      BY <2>2, <3>1, HeadersKeep DEF Finals, OnReadingHeaders
  <2>3. CASE q.state = "eReadingBody"
    <3>1. h = OnReadingBody(q, c)
      BY <2>3 DEF Handled
    <3> DEFINE b == OnReadingBody(q, c)
               need == ContentLength(q) - q.content
    <3>2. b = IF need <= Len(c)
                THEN [req |-> [q EXCEPT !.content = @ + need, !.state = "eResponsing"],
                      begin |-> SubSeq(c, need + 1, Len(c))]
                ELSE [req |-> [q EXCEPT !.content = @ + Len(c)], begin |-> Null]
      BY DEF OnReadingBody
    <3> HIDE DEF b, need
    <3>3. DOMAIN b = {"req", "begin"} /\ b = [req |-> b.req, begin |-> b.begin]
      BY <3>2
    <3> QED
      BY <2>3, <3>1, <3>3, BodyKeeps DEF Finals, b
  <2>4. CASE q.state \in Finals
    <3>1. h = [req |-> q, begin |-> c]
      BY <2>4 DEF Handled, Finals
    <3>2. Leaves(c, c)
      BY NullIsNoChunk DEF Leaves
    <3> QED
      BY <3>1, <3>2 DEF Handling
  <2> QED
    BY <1>1, <2>1, <2>2, <2>3, <2>4 DEF States, Finals
<1>3. r = IF h.req.state = "eError" /\ h.begin \notin {Null, Beyond}
            THEN [h EXCEPT !.req.method = "eINVALID"] ELSE h
  BY DEF ParseStep
<1> HIDE DEF h, r
<1>4. CASE h.req.state = "eError" /\ h.begin \notin {Null, Beyond}
  <2>1. r.begin = h.begin /\ r.req = [h.req EXCEPT !.method = "eINVALID"]
    BY <1>2, <1>3, <1>4
  <2>2. r.req \in RequestRecords /\ r.req.state = "eError"
    BY <1>2, <1>4, <2>1 DEF Handling, RequestRecords
  <2> QED
    BY <1>2, <1>4, <2>1, <2>2 DEF Handling, Sound, r
<1>5. CASE ~(h.req.state = "eError" /\ h.begin \notin {Null, Beyond})
  BY <1>2, <1>3, <1>5 DEF r
<1> QED
  BY <1>4, <1>5

-----------------------------------------------------------------------------
(* The actions: each of them keeps IInv. *)

LEMMA InitInv == Init => IInv
<1> SUFFICES ASSUME Init PROVE IInv
  OBVIOUS
<1>1. NewRequest \in RequestRecords /\ Sound(NewRequest)
  BY HttpAssumption DEF NewRequest, RequestRecords, States, Sound
<1>2. NewResponse \in ResponseRecords
  BY HttpAssumption DEF NewResponse, ResponseRecords, Lefts, Statuses, Lengths
<1>3. Types
  <2>1. sent \in Seq(Requests) /\ Len(sent) <= MaxRequests
    BY HttpAssumption DEF Init
  <2>2. inbox \in Seq(Tokens) /\ out \in Seq(Answers)
    BY DEF Init
  <2> QED
    BY <1>1, <1>2, <2>1, <2>2 DEF Init, Types
<1>4. Chunk /\ Failures /\ Chain /\ WakeDrivesTask
  BY NullIsNoChunk DEF Init, Chunk, Failures, Chain, WakeDrivesTask
<1>5. Locks /\ Loading
  BY DEF Init, Locks, Loading, NewResponse
<1>6. Counting /\ Announced /\ WholeFileIsSent
  BY DEF Init, Counting, Announced, WholeFileIsSent, NewResponse
<1> QED
  BY <1>3, <1>4, <1>5, <1>6 DEF IInv

(* What IInv says of the answers alone. *)
Sending == Locks /\ Counting /\ Announced /\ Loading /\ WakeDrivesTask /\ WholeFileIsSent

(* A step that leaves the session as it is, but for the request. *)
LEMMA SessionStands ==
  ASSUME Types, Sending, UNCHANGED <<res, task, wake, out, done, changed>>,
         failed' \in {failed, "overrun"},
         loop' = "idle" => loop = "idle",
         \/ conn' = conn
         \/ conn' = "closing" /\ conn = "open"
         \/ conn' \in {"shutting", "closed"}
  PROVE  Sending'
<1>1. failed' = "none" => failed = "none"
  BY DEF Types
<1>2. Locks'
  BY DEF Sending, Locks, CloseConnection
<1>3. Counting' /\ WakeDrivesTask' /\ WholeFileIsSent'
  BY <1>1 DEF Sending, Counting, WakeDrivesTask, WholeFileIsSent, Total, Answer
<1>4. Announced'
  BY DEF Sending, Announced
<1>5. Loading'
  BY <1>1 DEF Sending, Loading, Loaded, Total
<1> QED
  BY <1>2, <1>3, <1>4, <1>5 DEF Sending

LEMMA SendInv == ASSUME IInv, NEW r \in Requests, Send(r) PROVE IInv'
<1>0. r \in Seq(Tokens)
  BY HttpAssumption
<1>1. Types'
  <2>1. sent' = Append(sent, r) /\ inbox' = inbox \o r /\ Len(sent) < MaxRequests
    BY DEF Send
  <2>2. sent' \in Seq(Requests) /\ Len(sent') <= MaxRequests
    BY <2>1, HttpAssumption DEF IInv, Types
  <2>3. inbox' \in Seq(Tokens)
    BY <1>0, <2>1, ConcatProperties DEF IInv, Types
  <2>4. tame' \in BOOLEAN
    BY DEF Send, Tame, IInv, Types
  <2> QED
    BY <2>2, <2>3, <2>4 DEF IInv, Types, Send, session
<1>2. Sending'
  BY SessionStands DEF IInv, Send, session, Sending
<1>3. Chunk' /\ Failures' /\ Chain'
  BY DEF IInv, Send, session, Chunk, Failures, Chain
<1> QED
  BY <1>1, <1>2, <1>3 DEF IInv, Sending

LEMMA ReadInv == ASSUME IInv, NEW n \in 1 .. Len(inbox), Read(n) PROVE IInv'
<1> USE DEF Read
<1>1. inbox \in Seq(Tokens) /\ n \in 0 .. Len(inbox)
  BY DEF IInv, Types
<1>2. /\ rest' \in Seq(Tokens) /\ Len(rest') = n /\ \A i \in 1 .. n : rest'[i] = inbox[i]
      /\ inbox' \in Seq(Tokens)
  BY <1>1, Parts
<1>3. Types'
  <2>1. split' \in BOOLEAN /\ conn' \in {"open", "shutting"}
    BY DEF IInv, Types
  <2> QED
    BY <1>2, <2>1 DEF IInv, Types, session
<1>4. Sending'
  BY SessionStands DEF IInv, session, Sending
<1>5. /\ rest' # << >> /\ rest' # Null /\ rest' # Beyond
      /\ rest'[Len(rest')] = inbox[n]
  <2> DEFINE b == rest'
  <2>1. b \in Seq(Tokens) /\ Len(b) = n /\ b[n] = inbox[n] /\ n > 0
    BY <1>2
  <2> HIDE DEF b
  <2>2. b # << >> /\ b # Null /\ b # Beyond /\ b[Len(b)] = inbox[n]
    BY <2>1, NullIsNoChunk
  <2> QED
    BY <2>2 DEF b
<1>6. Chunk'
  <2>1. inbox[n] \in {"CR", "BAD"} => split'
    OBVIOUS
  <2> QED
    BY <1>2, <1>5, <2>1 DEF Chunk
<1>7. Failures' /\ Chain'
  BY <1>5 DEF IInv, session, Failures, Chain
<1> QED
  BY <1>3, <1>4, <1>6, <1>7 DEF IInv, Sending

LEMMA CloseInv ==
  ASSUME IInv, PeerCloses \/ TimeOut \/ OnCloseConnection PROVE IInv'
<1> USE DEF PeerCloses, TimeOut, OnCloseConnection
<1>1. UNCHANGED <<session, client, rest, loop, failed>> /\ loop = "idle"
  OBVIOUS
<1>2. (conn' = "closing" /\ conn = "open") \/ conn' = "closed"
  OBVIOUS
<1>3. Types'
  BY <1>1, <1>2 DEF IInv, Types, session, client
<1>4. Sending'
  BY <1>1, <1>2, SessionStands DEF IInv, session, Sending
<1>5. Chunk' /\ Failures' /\ Chain'
  BY <1>1, <1>2 DEF IInv, session, client, Chunk, Failures, Chain
<1> QED
  BY <1>3, <1>4, <1>5 DEF IInv, Sending

LEMMA ParseInv == ASSUME IInv, Parse PROVE IInv'
<1>1. rest \in Seq(Tokens) /\ req \in RequestRecords /\ Sound(req) /\ loop = "parse"
      /\ failed = "none"
  BY DEF Parse, IInv, Chunk, Types
<1> DEFINE r == ParseStep(req, rest)
<1>2. /\ req' = r.req /\ rest' = r.begin
      /\ failed' = IF r.begin = Beyond THEN "overrun" ELSE failed
      /\ loop' = IF Stops(r) THEN "check" ELSE "parse"
      /\ UNCHANGED <<client, res, task, wake, conn, out, done, changed>>
  BY DEF Parse
<1>3. /\ Handling(rest, r)
      /\ req.state \in Finals => r.begin = rest /\ r.req.state = req.state
  BY <1>1, ParseStepKeeps
<1>4. Stops(r) \/ r.begin \notin {Null, Beyond}
  BY DEF Stops
<1> HIDE DEF r
<1>5. Types'
  BY <1>1, <1>2, <1>3 DEF IInv, Types, client, Handling, Leaves
<1>6. Sending'
  BY <1>1, <1>2, SessionStands DEF IInv, Sending
<1>7. Chunk'
  <2>1. rest' = Beyond => failed' # "none"
    BY <1>2
  <2>2. rest' \in Seq(Tokens) \/ rest' = Null \/ rest' = Beyond
    BY <1>2, <1>3 DEF Handling, Leaves
  <2>3. loop' = "parse" => rest' \in Seq(Tokens)
    BY <1>2, <1>4, <2>2
  <2>4. rest' \in Seq(Tokens) \ {<< >>} /\ rest'[Len(rest')] \in {"CR", "BAD"} => split'
    BY <1>1, <1>2, <1>3 DEF Handling, Leaves, IInv, Chunk, client
  <2>5. loop' # "idle"
    BY <1>2
  <2> QED
    BY <2>1, <2>3, <2>4, <2>5 DEF Chunk
<1>8. Failures'
  <2>1. r.begin = Beyond => rest # << >> /\ rest[Len(rest)] = "CR"
    BY <1>1, <1>3 DEF Handling, Leaves
  <2>2. r.begin = Beyond => split
    BY <1>1, <2>1 DEF IInv, Chunk
  <2> QED
    BY <1>1, <1>2, <2>2 DEF IInv, Failures, client
<1>9. Chain'
  BY <1>1, <1>2, <1>3 DEF IInv, Chain
<1> QED
  BY <1>5, <1>6, <1>7, <1>8, <1>9 DEF IInv, Sending

Refusals == {307, 400, 401, 404, 503}

(* A refusal locks an open head over n units, and fails on a locked one. *)
LEMMA RefuseFacts ==
  ASSUME NEW r \in ResponseRecords, NEW status \in Refusals, NEW n \in {0, 1},
         Refuse(r, status, n), ~r.locked
  PROVE  /\ res' \in ResponseRecords /\ res'.locked /\ res'.status = status
         /\ res'.body = n /\ res'.length = n /\ res'.loads = r.loads /\ res'.pos = r.pos
         /\ res'.announced = CloseConnection(res')
         /\ task' = "Response" /\ wake' = TRUE /\ failed' = failed
<1> DEFINE a == [r EXCEPT !.status = status]
           b == LockHead(a, n)
<1>1. res' = AppendContent(b, n) /\ task' = "Response" /\ wake' = TRUE /\ failed' = failed
  BY DEF Refuse, Refused
<1>2. a \in ResponseRecords /\ a.status = status /\ a.loads = r.loads /\ a.pos = r.pos
  BY DEF ResponseRecords, Refusals, Statuses
<1> HIDE DEF a
<1> DEFINE w == CloseConnection(a)
<1>3. b = [a EXCEPT !.locked = TRUE, !.left = n, !.body = 0, !.length = n, !.announced = w]
  BY DEF LockHead
<1>4. n \in Lefts /\ n \in Nat /\ w \in BOOLEAN
  BY <1>2, HttpAssumption DEF CloseConnection, ResponseRecords, Lefts
<1> HIDE DEF b, w
<1>5. /\ b \in ResponseRecords /\ b.locked /\ b.status = status /\ b.body = 0
      /\ b.length = n /\ b.loads = r.loads /\ b.close = a.close /\ b.pos = r.pos
      /\ b.announced = w
  <2>1. b \in ResponseRecords
    BY <1>2, <1>3, <1>4 DEF ResponseRecords
  <2>2. b.locked = TRUE /\ b.body = 0 /\ b.length = n /\ b.announced = w
    BY <1>2, <1>3 DEF ResponseRecords
  <2>3. b.status = status /\ b.loads = r.loads /\ b.close = a.close /\ b.pos = r.pos
    BY <1>2, <1>3 DEF ResponseRecords
  <2> QED
    BY <2>1, <2>2, <2>3
<1>6. res' = [b EXCEPT !.body = 0 + n]
  BY <1>1, <1>5 DEF AppendContent, ResponseRecords
<1>7. res' = [b EXCEPT !.body = n]
  BY <1>6
<1>8. /\ res' \in ResponseRecords /\ res'.locked /\ res'.status = status
      /\ res'.body = n /\ res'.length = n /\ res'.loads = r.loads /\ res'.pos = r.pos
      /\ res'.announced = w /\ res'.close = a.close
  BY <1>5, <1>7 DEF ResponseRecords
<1> QED
  BY <1>1, <1>2, <1>8 DEF CloseConnection, w

(* Refusing keeps what IInv says of the answers. *)
LEMMA RefusalStands ==
  ASSUME Types, Sending, failed = "none", conn = "closing" => task # "none",
         NEW r \in ResponseRecords, NEW status \in Refusals, NEW n \in {0, 1},
         ~res.locked, ~r.locked, r.loads = res.loads, r.pos = res.pos,
         Refuse(r, status, n), UNCHANGED <<conn, out, done, changed>>
  PROVE  /\ Sending' /\ res' \in ResponseRecords /\ task' = "Response" /\ wake' = TRUE
         /\ failed' = "none"
<1>1. /\ res' \in ResponseRecords /\ res'.locked /\ res'.status = status
      /\ res'.body = n /\ res'.length = n /\ res'.loads = res.loads /\ res'.pos = res.pos
      /\ res'.announced = CloseConnection(res')
      /\ task' = "Response" /\ wake' = TRUE /\ failed' = "none"
  BY RefuseFacts
<1>2. res.loads = 0 /\ res'.loads = 0 /\ status # 200
  BY <1>1 DEF Sending, Counting, Refusals
<1>3. Locks' /\ WakeDrivesTask'
  BY <1>1, <1>2 DEF Sending, Locks, WakeDrivesTask
<1>4. Counting' /\ Loading' /\ WholeFileIsSent'
  BY <1>1, <1>2 DEF Sending, Counting, Loading, WholeFileIsSent
<1>5. Announced'
  BY <1>1 DEF Sending, Announced
<1> QED
  BY <1>1, <1>3, <1>4, <1>5 DEF Sending

(* Check: the first module refuses, fails or hands the request on. *)
LEMMA CheckInv == ASSUME IInv, Check PROVE IInv'
<1>1. /\ failed = "none" /\ loop = "check" /\ conn # "closing"
      /\ loop' = IF rest \in {Null, << >>} THEN "idle" ELSE "parse"
      /\ rest' = IF rest = << >> THEN Null ELSE rest
      /\ UNCHANGED <<client, req, conn, out, done, changed>>
  BY DEF Check, IInv, Chain
<1>2. /\ rest \in Seq(Tokens) \/ rest = Null
      /\ rest' \in Seq(Tokens) \/ rest' = Null
      /\ rest' = Beyond => rest = Beyond
      /\ loop' = "parse" => rest' = rest /\ rest \in Seq(Tokens) \ {<< >>}
      /\ loop' = "idle" => rest' = Null
      /\ rest' \notin {Null, << >>} => rest' = rest
  BY <1>1, NullIsNoChunk DEF IInv, Types, Chunk
<1>3. loop' = "idle" => task = "none"
  BY <1>1 DEF IInv, Chain
<1>4. Chunk'
  <2>1. rest' # Beyond
    BY <1>1, <1>2 DEF IInv, Chunk
  <2>2. rest' \in Seq(Tokens) \ {<< >>} /\ rest'[Len(rest')] \in {"CR", "BAD"} => split'
    BY <1>1, <1>2, NullIsNoChunk DEF IInv, Chunk, client
  <2> QED
    BY <1>1, <1>2, <2>1, <2>2 DEF Chunk
<1> DEFINE Rest0 ==
      /\ upgrades' \in BOOLEAN /\ sent' \in Seq(Requests) /\ Len(sent') <= MaxRequests
      /\ inbox' \in Seq(Tokens) /\ rest' \in Seq(Tokens) \cup {Null, Beyond}
      /\ loop' \in {"idle", "parse", "check"}
      /\ req' \in RequestRecords /\ Sound(req')
      /\ conn' \in {"open", "closing", "shutting", "closed", "upgraded"}
      /\ out' \in Seq(Answers) /\ done' \in Nat
      /\ changed' \in BOOLEAN /\ tame' \in BOOLEAN /\ split' \in BOOLEAN
<1>5. Rest0
  BY <1>1, <1>2 DEF IInv, Types, client
<1>6. CASE req.state \notin Finals
  <2>1. UNCHANGED <<res, task, wake, failed>>
    BY <1>6 DEF Check, Finals
  <2>2. task = "none"
    BY <1>6 DEF IInv, Chain
  <2>3. Types'
    BY <1>5, <2>1 DEF IInv, Types
  <2>4. Sending'
    <3>1. Locks' /\ WakeDrivesTask' /\ Announced' /\ WholeFileIsSent'
      BY <1>1, <2>1, <2>2
      DEF IInv, Locks, WakeDrivesTask, Announced, WholeFileIsSent, CloseConnection
    <3>2. Counting' /\ Loading'
      BY <1>1, <2>1, <2>2 DEF IInv, Counting, Loading, Loaded, Total, Answer
    <3> QED
      BY <3>1, <3>2 DEF Sending
  <2>5. Failures' /\ Chain'
    BY <1>1, <1>2, <2>1, <2>2 DEF IInv, Failures, Chain, client
  <2> QED
    BY <1>4, <2>3, <2>4, <2>5 DEF IInv, Sending
<1>7. CASE req.state \in Finals /\ req.method = "eINVALID" /\ res.locked
  <2>1. failed' = "SetStatusCode" /\ UNCHANGED <<res, task, wake>>
    BY <1>7 DEF Check, Finals, InvalidRequest, Refuse
  <2>2. task # "none" /\ loop' # "idle"
    BY <1>3, <1>7 DEF IInv, Locks
  <2>3. Types'
    BY <1>5, <2>1 DEF IInv, Types
  <2>4. Sending'
    <3>1. Locks' /\ WakeDrivesTask' /\ Announced' /\ WholeFileIsSent'
      BY <1>1, <2>1, <2>2
      DEF IInv, Locks, WakeDrivesTask, Announced, WholeFileIsSent, CloseConnection
    <3>2. Counting' /\ Loading'
      BY <1>1, <2>1, <2>2 DEF IInv, Counting, Loading, Loaded, Total, Answer
    <3> QED
      BY <3>1, <3>2 DEF Sending
  <2>5. Failures' /\ Chain'
    BY <1>1, <1>2, <2>1, <2>2 DEF IInv, Failures, Chain, client
  <2> QED
    BY <1>4, <2>3, <2>4, <2>5 DEF IInv, Sending
<1>8. CASE req.state \in Finals /\ req.method = "eINVALID" /\ ~res.locked
  <2>1. Refuse(res, 400, 0)
    BY <1>8 DEF Check, Finals, InvalidRequest
  <2>2. /\ Sending' /\ res' \in ResponseRecords /\ task' = "Response" /\ wake' = TRUE
        /\ failed' = "none"
    <3>1. Types /\ Sending /\ res \in ResponseRecords
      BY DEF IInv, Sending, Types
    <3>2. 400 \in Refusals /\ 0 \in {0, 1} /\ UNCHANGED <<conn, out, done, changed>>
      BY <1>1 DEF Refusals
    <3> QED
      BY <1>1, <1>8, <2>1, <3>1, <3>2, RefusalStands
  <2>3. Types'
    BY <1>5, <2>2 DEF Types
  <2>4. Failures' /\ Chain'
    BY <1>1, <1>2, <1>8, <2>2 DEF IInv, Failures, Chain, client
  <2> QED
    BY <1>4, <2>2, <2>3, <2>4 DEF IInv, Sending
<1>9. CASE req.state \in Finals /\ req.method # "eINVALID"
  <2>1. task' = "ParseCookie" /\ wake' = TRUE /\ UNCHANGED <<res, failed>>
    BY <1>9 DEF Check, Finals, InvalidRequest
  <2>2. loop' = "idle" => ~res.locked
    BY <1>3 DEF IInv, Locks
  <2>3. Types'
    BY <1>5, <2>1 DEF IInv, Types, Early
  <2>4. Sending'
    <3>1. Locks' /\ WakeDrivesTask' /\ WholeFileIsSent'
      BY <1>1, <2>1, <2>2 DEF IInv, Locks, WakeDrivesTask, WholeFileIsSent, CloseConnection
    <3>2. Counting' /\ Loading'
      BY <1>1, <2>1, <2>2 DEF IInv, Counting, Loading, Loaded, Total, Answer
    <3>3. Announced'
      BY <1>1 DEF IInv, Announced
    <3> QED
      BY <3>1, <3>2, <3>3 DEF Sending
  <2>5. Failures' /\ Chain'
    BY <1>1, <1>2, <1>9, <2>1 DEF IInv, Failures, Chain, client
  <2> QED
    BY <1>4, <2>3, <2>4, <2>5 DEF IInv, Sending
<1> QED
  BY <1>6, <1>7, <1>8, <1>9

(* No finished answer has announced the close. *)
NoneAnnounced == \A k \in 1 .. done : ~out[k].announced

(* What a task can rely on when it is run, and what the first tasks can:   *)
(* an open head, and nothing sent.                                         *)
Ready(m) ==
  /\ failed = "none" /\ loop = "idle" /\ task = m /\ wake = TRUE /\ m # "none"
  /\ conn \in {"open", "closing"} /\ req.state \in Finals /\ rest = Null
  /\ NoneAnnounced

HeadOpen == ~res.locked /\ res.loads = 0 /\ Len(out) = done

LEMMA DueFacts ==
  ASSUME IInv, NEW m, m # "none", Due(m)
  PROVE  Ready(m)
BY DEF IInv, Due, Types, Chain, Chunk, Announced, WakeDrivesTask, NoneAnnounced, Ready

LEMMA EarlyFacts ==
  ASSUME IInv, NEW m \in Early, Due(m)
  PROVE  Ready(m) /\ HeadOpen
<1>1. m # "none" /\ m \notin {"NextLoad", "Response"}
  BY DEF Early
<1>2. Ready(m)
  BY <1>1, DueFacts
<1>3. ~res.locked
  BY <1>1, <1>2 DEF IInv, Locks, Ready
<1>4. res.loads = 0 /\ Len(out) = done
  BY <1>2, <1>3 DEF IInv, Counting, Ready
<1> QED
  BY <1>2, <1>3, <1>4 DEF HeadOpen

(* A module of the first ones that goes on with another of them. *)
LEMMA GoOnInv ==
  ASSUME IInv, NEW m \in Early, NEW n \in Early, Due(m), GoOn(n), UNCHANGED res, Unmoved,
         n \in {"CheckMethod", "LoadFile"} => res.status = 200
  PROVE  IInv'
<1>1. /\ failed = "none" /\ loop = "idle" /\ task = m /\ wake = TRUE /\ rest = Null
      /\ conn \in {"open", "closing"} /\ req.state \in Finals
      /\ NoneAnnounced
      /\ ~res.locked /\ res.loads = 0 /\ Len(out) = done
  <2>1. Ready(m) /\ HeadOpen
    BY EarlyFacts
  <2> QED
    BY <2>1 DEF Ready, HeadOpen
<1>2. /\ task' = n
      /\ UNCHANGED <<req, wake, conn, out, done, failed, res, client, rest, loop, changed>>
  BY DEF GoOn, Unmoved, Quiet
<1>3. Types'
  BY <1>2 DEF IInv, Types, client, Early
<1>4. Chunk' /\ Failures' /\ Chain' /\ WakeDrivesTask'
  BY <1>1, <1>2 DEF IInv, Chunk, Failures, Chain, client, WakeDrivesTask, Early
<1>5. Locks' /\ Loading' /\ Announced'
  BY <1>1, <1>2 DEF IInv, Locks, Loading, Announced, Early
<1>6. Counting' /\ WholeFileIsSent'
  BY <1>1, <1>2 DEF IInv, Counting, WholeFileIsSent
<1> QED
  BY <1>3, <1>4, <1>5, <1>6 DEF IInv

(* A module of the first ones that refuses; its response may have been     *)
(* told to keep the connection.                                            *)
LEMMA RefuseInv ==
  ASSUME IInv, NEW m \in Early, Due(m), NEW close \in BOOLEAN,
         NEW status \in Refusals, Refuse([res EXCEPT !.close = close], status, 1),
         UNCHANGED <<req, conn, out, done>>, Unmoved
  PROVE  IInv'
<1>1. /\ failed = "none" /\ loop = "idle" /\ task = m /\ wake = TRUE /\ rest = Null
      /\ conn \in {"open", "closing"} /\ req.state \in Finals /\ m # "none"
      /\ ~res.locked
  <2>1. Ready(m) /\ HeadOpen
    BY EarlyFacts
  <2> QED
    BY <2>1 DEF Ready, HeadOpen
<1> DEFINE r == [res EXCEPT !.close = close]
<1>2. r \in ResponseRecords /\ r.locked = res.locked /\ r.loads = res.loads /\ r.pos = res.pos
  BY DEF IInv, Types, ResponseRecords
<1>3. Refuse(r, status, 1) /\ 1 \in {0, 1}
  OBVIOUS
<1> HIDE DEF r
<1>4. UNCHANGED <<req, conn, out, done, client, rest, loop, changed>>
  BY DEF Unmoved, Quiet
<1>5. /\ Sending' /\ res' \in ResponseRecords /\ task' = "Response" /\ wake' = TRUE
      /\ failed' = "none"
  <2>1. Types /\ Sending
    BY DEF IInv, Sending
  <2>2. UNCHANGED <<conn, out, done, changed>>
    BY <1>4
  <2> QED
    BY <1>1, <1>2, <1>3, <2>1, <2>2, RefusalStands
<1>6. Types'
  BY <1>4, <1>5 DEF IInv, Types, client
<1>7. Chunk' /\ Failures' /\ Chain'
  BY <1>1, <1>4, <1>5 DEF IInv, Chunk, Failures, Chain, client
<1> QED
  BY <1>5, <1>6, <1>7 DEF IInv, Sending

LEMMA UpgradeInv == ASSUME IInv, UpgradeWs PROVE IInv'
<1>0. Due("UpgradeWs") /\ UNCHANGED res /\ Unmoved
  BY DEF UpgradeWs
<1>1. /\ failed = "none" /\ loop = "idle" /\ task = "UpgradeWs" /\ rest = Null
      /\ NoneAnnounced
      /\ ~res.locked /\ res.loads = 0 /\ Len(out) = done
  <2>1. "UpgradeWs" \in Early
    BY DEF Early
  <2>2. Ready("UpgradeWs") /\ HeadOpen
    BY <1>0, <2>1, EarlyFacts
  <2> QED
    BY <2>2 DEF Ready, HeadOpen
<1>2. CASE ~HandShakes
  <2>1. GoOn("CheckURL")
    BY <1>2 DEF UpgradeWs
  <2> QED
    BY <1>0, <2>1, GoOnInv DEF Early
<1>3. CASE HandShakes
  <2> DEFINE a == [status |-> 101, announced |-> FALSE, length |-> 0, body |-> 0]
  <2>1. /\ out' = Append(out, a) /\ done' = done + 1 /\ conn' = "upgraded"
        /\ task' = "none" /\ wake' = FALSE
        /\ UNCHANGED <<req, failed, res, client, rest, loop, changed>>
    BY <1>0, <1>3 DEF UpgradeWs, Unmoved, Quiet
  <2>2. a \in Answers /\ a.announced = FALSE /\ a.status = 101 /\ a.body = a.length
    BY DEF Answers
  <2> HIDE DEF a
  <2>3. out \in Seq(Answers) /\ done \in Nat
    BY DEF IInv, Types
  <2>4. /\ out' \in Seq(Answers) /\ Len(out') = done + 1 /\ out'[done + 1] = a
        /\ \A k \in 1 .. done : out'[k] = out[k]
    BY <1>1, <2>1, <2>2, <2>3
  <2>5. Types'
    <3>0. done' \in Nat
      BY <2>1, <2>3
    <3>1. task' = "none" /\ wake' \in BOOLEAN /\ conn' = "upgraded"
      BY <2>1
    <3>2. UNCHANGED <<req, failed, res, upgrades, sent, inbox, tame, split, rest, loop, changed>>
      BY <2>1 DEF client
    <3> QED
      BY <2>4, <3>0, <3>1, <3>2 DEF IInv, Types
  <2>6. Chunk' /\ Failures' /\ Chain' /\ WakeDrivesTask'
    BY <1>1, <2>1 DEF IInv, Chunk, Failures, Chain, client, WakeDrivesTask
  <2>7. Locks' /\ Counting' /\ Loading'
    BY <1>1, <2>1, <2>3, <2>4 DEF IInv, Locks, Counting, Loading, Early
  <2>8. Announced'
    BY <1>1, <2>1, <2>2, <2>3, <2>4 DEF Announced, NoneAnnounced
  <2>9. WholeFileIsSent'
    <3> SUFFICES ASSUME NEW k \in 1 .. done + 1
                 PROVE  IF out'[k].status = 200
                          THEN /\ out'[k].body >= out'[k].length
                               /\ out'[k].body % LoadSize = 0
                               /\ \/ out'[k].body - out'[k].length < LoadSize
                                  \/ out'[k].length = 0 \/ changed'
                          ELSE out'[k].body = out'[k].length
      BY <2>1 DEF WholeFileIsSent
    <3>1. CASE k = done + 1
      BY <2>2, <2>4, <3>1
    <3>2. CASE k \in 1 .. done
      BY <2>1, <2>4, <3>2 DEF IInv, WholeFileIsSent
    <3> QED
      BY <2>3, <3>1, <3>2
  <2> QED
    BY <2>5, <2>6, <2>7, <2>8, <2>9 DEF IInv
<1> QED
  BY <1>2, <1>3

-----------------------------------------------------------------------------
(* The loads of a file. *)

(* One load in numbers: n units are read where l are asked for, and the    *)
(* rest wraps around at m.                                                 *)
LEMMA LoadStep ==
  ASSUME NEW l \in Nat \ {0}, NEW m \in Nat \ {0}, NEW t \in Nat, NEW length \in Nat,
         NEW size \in Nat, NEW pos \in Nat, NEW left \in 0 .. m - 1, NEW n \in 0 .. l,
         size <= pos => n = 0,
         size > pos /\ size <= pos + l => n = size - pos,
         size > pos + l => n = l,
         Suffices(t, length, left),
         NEW left2, left2 = (left - n) % m,
         NEW pos2, pos2 = IF n < l THEN 0 ELSE pos + n
  PROVE  /\ Suffices(t + l, length, left2)
         /\ Unread(t, length, size, pos, left) => IsRead(t + l, l, length, size, pos2, left2)
<1>1. n <= left => left2 = left - n
  <2> SUFFICES ASSUME n <= left PROVE left2 = left - n
    OBVIOUS
  <2> DEFINE d == left - n
  <2>1. d \in 0 .. m - 1
    OBVIOUS
  <2> HIDE DEF d
  <2>2. d % m = d
    BY <2>1
  <2> QED
    BY <2>2 DEF d
<1>2. Suffices(t + l, length, left2)
  <2> SUFFICES ASSUME t + l < length PROVE left2 >= length - (t + l)
    BY DEF Suffices
  <2>1. left >= length - t
    BY DEF Suffices
  <2>2. n <= left
    BY <2>1
  <2> QED
    BY <1>1, <2>1, <2>2
<1>3. ASSUME Unread(t, length, size, pos, left)
      PROVE  IsRead(t + l, l, length, size, pos2, left2)
  <2>1. /\ size = length /\ t <= length /\ pos = t /\ left = length - t
        /\ t < length \/ length = 0
    BY <1>3 DEF Unread
  <2>2. CASE t + l <= length
    <3>1. n = l
      BY <2>1, <2>2
    <3>2. left2 = length - (t + l) /\ pos2 = t + l
      BY <1>1, <2>1, <2>2, <3>1
    <3>3. (t + l) - l < length
      BY <2>2
    <3> QED
      BY <2>1, <2>2, <3>2, <3>3 DEF IsRead
  <2>3. CASE ~(t + l <= length)
    <3>1. n = length - t
      BY <2>1, <2>3
    <3>2. left2 = 0
      BY <1>1, <2>1, <3>1
    <3>3. (t + l) - l < length \/ length = 0
      BY <2>1
    <3> QED
      BY <2>1, <2>3, <3>2, <3>3 DEF IsRead
  <2> QED
    BY <2>2, <2>3
<1> QED
  BY <1>2, <1>3

(* One load of the response r, in which t units have been loaded before. *)
LEMMA LoadEffect ==
  ASSUME NEW r \in ResponseRecords, NEW t \in Nat, r.size \in FileSizes, changed \in BOOLEAN,
         r.body \in {0, LoadSize}, Load(r), failed = "none",
         Suffices(t, r.length, r.left),
         changed \/ Unread(t, r.length, r.size, r.pos, r.left)
  PROVE  \/ failed' = "LoadContent" /\ res' = res /\ changed' = TRUE
         \/ /\ failed' = "none" /\ res' \in ResponseRecords /\ changed' \in BOOLEAN
            /\ changed => changed'
            /\ res'.status = r.status /\ res'.close = r.close /\ res'.locked = r.locked
            /\ res'.length = r.length /\ res'.announced = r.announced
            /\ res'.loads = r.loads + 1 /\ res'.size \in FileSizes /\ res'.body = LoadSize
            /\ Suffices(t + LoadSize, r.length, res'.left)
            /\ \/ changed'
               \/ IsRead(t + LoadSize, LoadSize, r.length, res'.size, res'.pos, res'.left)
<1>0. /\ LoadSize \in Nat \ {0} /\ SizeLimit \in Nat \ {0} /\ FileSizes \subseteq Nat
      /\ Gone \notin FileSizes
  BY HttpAssumption
<1>1. PICK size \in Sizes(r) :
        /\ changed' = (changed \/ size # r.size)
        /\ IF size = Gone
             THEN failed' = "LoadContent" /\ UNCHANGED res
             ELSE res' = LoadContent([r EXCEPT !.size = size]) /\ UNCHANGED failed
  BY DEF Load
<1>2. CASE size = Gone
  BY <1>0, <1>1, <1>2
<1>3. CASE size # Gone
  <2>1. size \in FileSizes /\ size \in Nat
    BY <1>0, <1>3 DEF Sizes
  <2> DEFINE q == [r EXCEPT !.size = size]
             n == FileRead(q)
  <2>2. /\ q \in ResponseRecords /\ q.size = size /\ q.pos = r.pos /\ q.left = r.left
        /\ q.body = r.body /\ q.status = r.status /\ q.close = r.close
        /\ q.locked = r.locked /\ q.length = r.length /\ q.announced = r.announced
        /\ q.loads = r.loads
    BY <2>1 DEF ResponseRecords, Lengths
  <2>3. res' = LoadContent(q) /\ failed' = "none" /\ changed' = (changed \/ size # r.size)
    BY <1>1, <1>3
  <2> HIDE DEF q
  <2>4. /\ n = CASE q.size <= q.pos -> 0
                 [] q.size \in q.pos .. q.pos + LoadSize -> q.size - q.pos
                 [] OTHER -> LoadSize
        /\ res' = [q EXCEPT !.body = IF @ < LoadSize THEN LoadSize ELSE @,
                            !.left = (@ - n) % SizeLimit, !.loads = @ + 1,
                            !.pos = IF n < LoadSize THEN 0 ELSE @ + n]
    BY <2>3 DEF LoadContent, FileRead
  <2> HIDE DEF n
  <2> DEFINE left2 == (r.left - n) % SizeLimit
             pos2  == IF n < LoadSize THEN 0 ELSE r.pos + n
  <2>5. r.pos \in Nat /\ r.left \in 0 .. SizeLimit - 1 /\ r.length \in Nat /\ r.loads \in Nat
    BY DEF ResponseRecords, Lefts
  <2>6. /\ n \in 0 .. LoadSize /\ (size <= r.pos => n = 0)
        /\ size > r.pos /\ size <= r.pos + LoadSize => n = size - r.pos
        /\ size > r.pos + LoadSize => n = LoadSize
    <3>1. n = CASE size <= r.pos -> 0
                [] size \in r.pos .. r.pos + LoadSize -> size - r.pos
                [] OTHER -> LoadSize
      BY <2>2, <2>4
    <3>2. CASE size <= r.pos
      BY <1>0, <2>1, <2>5, <3>1, <3>2
    <3>3. CASE size > r.pos /\ size <= r.pos + LoadSize
      <4>1. ~(size <= r.pos) /\ size \in r.pos .. r.pos + LoadSize
        BY <1>0, <2>1, <2>5, <3>3
      <4> QED
        BY <1>0, <2>1, <2>5, <3>1, <3>3, <4>1
    <3>4. CASE size > r.pos + LoadSize
      <4>1. ~(size <= r.pos) /\ size \notin r.pos .. r.pos + LoadSize
        BY <1>0, <2>1, <2>5, <3>4
      <4> QED
        BY <1>0, <2>1, <2>5, <3>1, <3>4, <4>1
    <3> QED
      BY <1>0, <2>1, <2>5, <3>2, <3>3, <3>4
  <2>7. left2 \in Lefts /\ pos2 \in Nat
    BY <1>0, <2>5, <2>6 DEF Lefts
  <2>9. res' = [q EXCEPT !.body = LoadSize, !.left = left2, !.loads = r.loads + 1, !.pos = pos2]
    <3>1. q.body \in {0, LoadSize} /\ (q.body < LoadSize => q.body = 0)
      BY <1>0, <2>2
    <3> DEFINE body2 == IF q.body < LoadSize THEN LoadSize ELSE q.body
    <3>2. body2 = LoadSize
      BY <1>0, <3>1
    <3>3. /\ (q.left - n) % SizeLimit = left2 /\ q.loads + 1 = r.loads + 1
          /\ (IF n < LoadSize THEN 0 ELSE q.pos + n) = pos2
      BY <2>2
    <3>4. res' = [q EXCEPT !.body = body2, !.left = (q.left - n) % SizeLimit,
                           !.loads = q.loads + 1,
                           !.pos = IF n < LoadSize THEN 0 ELSE q.pos + n]
      BY <2>4, Zenon
    <3> HIDE DEF body2
    <3> QED
      BY <3>2, <3>3, <3>4, Zenon
  <2> HIDE DEF left2, pos2
  <2>10. /\ res' \in ResponseRecords /\ res'.body = LoadSize /\ res'.left = left2
         /\ res'.loads = r.loads + 1 /\ res'.pos = pos2
    <3>1. LoadSize \in Nat /\ r.loads + 1 \in Nat
      BY <1>0, <2>5
    <3> DEFINE j == r.loads + 1
    <3>2. res' = [q EXCEPT !.body = LoadSize, !.left = left2, !.loads = j, !.pos = pos2]
      BY <2>9
    <3> HIDE DEF j
    <3>3. j \in Nat
      BY <3>1 DEF j
    <3>4. res' \in ResponseRecords
      BY <2>2, <2>7, <3>1, <3>2, <3>3 DEF ResponseRecords
    <3>5. res'.body = LoadSize /\ res'.left = left2 /\ res'.loads = j /\ res'.pos = pos2
      BY <2>2, <3>2 DEF ResponseRecords
    <3> QED
      BY <3>4, <3>5 DEF j
  <2>11. /\ res'.status = r.status /\ res'.close = r.close /\ res'.locked = r.locked
         /\ res'.length = r.length /\ res'.announced = r.announced /\ res'.size = size
    BY <2>2, <2>9 DEF ResponseRecords
  <2>12. Suffices(t, r.length, r.left)
         /\ (changed' \/ Unread(t, r.length, size, r.pos, r.left))
    BY <2>3
  <2>13. changed' \in BOOLEAN /\ (changed => changed')
    BY <2>3
  <2>14. /\ Suffices(t + LoadSize, r.length, left2)
         /\ changed' \/ IsRead(t + LoadSize, LoadSize, r.length, size, pos2, left2)
    <3> DEFINE length == r.length
               pos    == r.pos
               left   == r.left
               l      == LoadSize
               m      == SizeLimit
    <3>1. /\ length \in Nat /\ pos \in Nat /\ left \in 0 .. m - 1
          /\ l \in Nat \ {0} /\ m \in Nat \ {0} /\ size \in Nat /\ n \in 0 .. l
      BY <1>0, <2>1, <2>5, <2>6
    <3>2. /\ size <= pos => n = 0
          /\ size > pos /\ size <= pos + l => n = size - pos
          /\ size > pos + l => n = l
      BY <2>6
    <3>3. left2 = (left - n) % m /\ pos2 = IF n < l THEN 0 ELSE pos + n
      BY DEF left2, pos2
    <3>4. Suffices(t, length, left) /\ (changed' \/ Unread(t, length, size, pos, left))
      BY <2>12
    <3> HIDE DEF length, pos, left, l, m
    <3>5. /\ Suffices(t + l, length, left2)
          /\ Unread(t, length, size, pos, left) => IsRead(t + l, l, length, size, pos2, left2)
      BY <3>1, <3>2, <3>3, <3>4, LoadStep
    <3> QED
      BY <3>4, <3>5 DEF length, pos, left, l, m
  <2> QED
    BY <2>1, <2>3, <2>10, <2>11, <2>13, <2>14
<1> QED
  BY <1>2, <1>3

-----------------------------------------------------------------------------

LEMMA LoadFileInv == ASSUME IInv, LoadFile PROVE IInv'
<1>1. /\ Due("LoadFile") /\ Load(LockHead(res, res.size)) /\ task' = "NextLoad"
      /\ UNCHANGED <<req, wake, conn, out, done, client, rest, loop>>
  BY DEF LoadFile, Quiet
<1>2. /\ failed = "none" /\ loop = "idle" /\ task = "LoadFile" /\ wake = TRUE /\ rest = Null
      /\ conn \in {"open", "closing"} /\ req.state \in Finals
      /\ NoneAnnounced
      /\ ~res.locked /\ res.loads = 0 /\ Len(out) = done
  <2>1. "LoadFile" \in Early
    BY DEF Early
  <2>2. Ready("LoadFile") /\ HeadOpen
    BY <1>1, <2>1, EarlyFacts
  <2> QED
    BY <2>2 DEF Ready, HeadOpen
<1>3. /\ res \in ResponseRecords /\ res.status = 200 /\ res.size \in FileSizes /\ res.pos = 0
      /\ changed \in BOOLEAN
  BY <1>2 DEF IInv, Types, Locks
<1>4. /\ LoadSize \in Nat \ {0} /\ FileSizes \subseteq Nat
      /\ \A size \in FileSizes : size < SizeLimit
      /\ SizeLimit \in Nat
  BY HttpAssumption
<1> DEFINE w == CloseConnection(res)
           r == LockHead(res, res.size)
<1>5. r = [res EXCEPT !.locked = TRUE, !.left = res.size, !.body = 0, !.length = res.size,
                      !.announced = w]
  BY DEF LockHead
<1>6. w \in BOOLEAN /\ res.size \in Lefts /\ res.size \in Nat
  <2>1. w \in BOOLEAN
    BY <1>3 DEF CloseConnection, ResponseRecords
  <2>2. res.size \in Nat /\ res.size < SizeLimit
    BY <1>3, <1>4
  <2> QED
    BY <1>4, <2>1, <2>2 DEF Lefts
<1>7. Load(r)
  BY <1>1
<1> HIDE DEF r, w
<1>8. r \in ResponseRecords
  BY <1>3, <1>5, <1>6 DEF ResponseRecords
<1>9. /\ r.locked = TRUE /\ r.left = res.size /\ r.body = 0 /\ r.length = res.size
      /\ r.announced = w /\ r.status = 200 /\ r.close = res.close /\ r.size = res.size
      /\ r.pos = 0 /\ r.loads = 0
  BY <1>2, <1>3, <1>5 DEF ResponseRecords
<1>10. \/ failed' = "LoadContent" /\ res' = res /\ changed' = TRUE
       \/ /\ failed' = "none" /\ res' \in ResponseRecords /\ changed' \in BOOLEAN
          /\ changed => changed'
          /\ res'.status = r.status /\ res'.close = r.close /\ res'.locked = r.locked
          /\ res'.length = r.length /\ res'.announced = r.announced
          /\ res'.loads = r.loads + 1 /\ res'.size \in FileSizes /\ res'.body = LoadSize
          /\ Suffices(0 + LoadSize, r.length, res'.left)
          /\ \/ changed'
             \/ IsRead(0 + LoadSize, LoadSize, r.length, res'.size, res'.pos, res'.left)
  <2>1. Suffices(0, r.length, r.left) /\ Unread(0, r.length, r.size, r.pos, r.left)
    <3>1. \A size \in Nat : Suffices(0, size, size) /\ Unread(0, size, size, 0, size)
      <4> TAKE size \in Nat
      <4>1. size - 0 = size /\ (0 < size \/ size = 0)
        OBVIOUS
      <4> QED
        BY <4>1 DEF Suffices, Unread
    <3> QED
      BY <1>6, <1>9, <3>1
  <2>2. r.size \in FileSizes /\ r.body \in {0, LoadSize} /\ 0 \in Nat
    BY <1>3, <1>9
  <2> QED
    BY <1>2, <1>3, <1>7, <1>8, <2>1, <2>2, LoadEffect
<1>11. UNCHANGED <<upgrades, sent, inbox, tame, split>>
  BY <1>1 DEF client
<1>12. Announced'
  BY <1>1, <1>2 DEF Announced, NoneAnnounced
<1>13. WholeFileIsSent'
  BY <1>1, <1>10 DEF IInv, WholeFileIsSent
<1>14. WakeDrivesTask' /\ Chain' /\ Chunk'
  BY <1>1, <1>2, <1>10, <1>11 DEF IInv, WakeDrivesTask, Chain, Chunk
<1>15. CASE failed' = "LoadContent" /\ res' = res /\ changed' = TRUE
  <2>1. Types'
    BY <1>1, <1>11, <1>15 DEF IInv, Types
  <2>2. Failures' /\ Locks' /\ Counting' /\ Loading'
    BY <1>1, <1>2, <1>15 DEF IInv, Failures, Locks, Counting, Loading, CloseConnection
  <2> QED
    BY <1>12, <1>13, <1>14, <2>1, <2>2 DEF IInv
<1>16. CASE failed' # "LoadContent"
  <2>1. /\ failed' = "none" /\ res' \in ResponseRecords /\ changed' \in BOOLEAN
        /\ res'.status = 200 /\ res'.close = res.close /\ res'.locked = TRUE
        /\ res'.length = res.size /\ res'.announced = w
        /\ res'.loads = 1 /\ res'.size \in FileSizes /\ res'.body = LoadSize
        /\ Suffices(LoadSize, res.size, res'.left)
        /\ \/ changed'
           \/ IsRead(LoadSize, LoadSize, res.size, res'.size, res'.pos, res'.left)
    BY <1>4, <1>9, <1>10, <1>16
  <2>2. Types'
    BY <1>1, <1>11, <2>1 DEF IInv, Types
  <2>3. Locks'
    BY <1>1, <1>2, <1>3, <2>1 DEF Locks, CloseConnection, w
  <2>4. Failures' /\ Counting'
    BY <1>1, <1>2, <2>1 DEF Failures, Counting
  <2>5. Loading'
    <3>1. Total' = 0 /\ Total' + res'.body = LoadSize /\ 0 % LoadSize = 0
      BY <1>4, <2>1 DEF Total
    <3>2. Loaded(Total + res.body)'
      BY <2>1, <3>1 DEF Loaded
    <3> QED
      BY <1>1, <2>1, <3>2 DEF Loading
  <2> QED
    BY <1>12, <1>13, <1>14, <2>2, <2>3, <2>4, <2>5 DEF IInv
<1> QED
  BY <1>10, <1>15, <1>16

(* What is sent of the response: a new answer, or more of the last one. *)
LEMMA SendFacts ==
  ASSUME IInv, failed = "none", SendContent
  PROVE  LET n == done + 1
             total == Total + res.body
         IN  /\ out' \in Seq(Answers) /\ Len(out') = n
             /\ \A k \in 1 .. done : out'[k] = out[k]
             /\ out'[n].status = res.status /\ out'[n].announced = res.announced
             /\ out'[n].length = res.length /\ out'[n].body = total
             /\ total \in Nat /\ Total \in Nat
<1>1. /\ res \in ResponseRecords /\ out \in Seq(Answers) /\ done \in Nat
      /\ res.body \in Nat /\ res.loads \in Nat
  BY DEF IInv, Types, ResponseRecords
<1>2. /\ Answer \in Answers /\ Answer.status = res.status /\ Answer.length = res.length
      /\ Answer.announced = res.announced /\ Answer.body = res.body
  BY <1>1 DEF Answer, Answers, ResponseRecords, Statuses
<1> DEFINE a == Answer
<1> HIDE DEF a
<1>3. CASE res.loads <= 1
  <2>1. Len(out) = done /\ Total = 0
    BY <1>1, <1>3 DEF IInv, Counting, Total
  <2>2. out' = Append(out, a)
    BY <1>3 DEF SendContent, a
  <2>3. /\ out' \in Seq(Answers) /\ Len(out') = done + 1 /\ out'[done + 1] = a
        /\ \A k \in 1 .. done : out'[k] = out[k]
    BY <1>1, <1>2, <2>1, <2>2 DEF a
  <2>4. Total + res.body = res.body
    BY <1>1, <2>1
  <2> QED
    BY <1>1, <1>2, <2>1, <2>3, <2>4 DEF a
<1>4. CASE ~(res.loads <= 1)
  <2>1. Len(out) = done + 1 /\ Total = out[Len(out)].body
    BY <1>1, <1>4 DEF IInv, Counting, Total
  <2>2. Total \in Nat /\ Total + res.body \in Nat
    <3>1. out[Len(out)] \in Answers
      BY <1>1, <2>1
    <3>2. Total \in Nat
      BY <2>1, <3>1 DEF Answers
    <3> QED
      BY <1>1, <3>2
  <2> DEFINE total == Total + res.body
             b == [a EXCEPT !.body = total]
  <2>3. out' = [out EXCEPT ![done + 1] = b]
    BY <1>4, <2>1 DEF SendContent, a
  <2>4. total \in Nat
    BY <2>2
  <2> HIDE DEF total
  <2>5. /\ b \in Answers /\ b.status = res.status /\ b.length = res.length
        /\ b.announced = res.announced /\ b.body = total
    BY <1>2, <2>4 DEF Answers, a
  <2> HIDE DEF b
  <2>6. /\ out' \in Seq(Answers) /\ Len(out') = done + 1 /\ out'[done + 1] = b
        /\ \A k \in 1 .. done : out'[k] = out[k]
    BY <1>1, <2>1, <2>3, <2>5
  <2> QED
    BY <2>2, <2>4, <2>5, <2>6 DEF total
<1> QED
  BY <1>3, <1>4

(* The answer is finished, with all that is to be sent of it. *)
LEMMA FinishInv ==
  ASSUME IInv, NEW m \in {"NextLoad", "Response"}, Due(m), SendContent, Finish,
         UNCHANGED <<failed, changed, client, rest, loop>>,
         IF res.status = 200
           THEN LET total == Total + res.body
                IN  /\ total >= res.length /\ total % LoadSize = 0
                    /\ total - res.length < LoadSize \/ res.length = 0 \/ changed
           ELSE Total + res.body = res.length
  PROVE  IInv'
<1>1. /\ failed = "none" /\ loop = "idle" /\ task = m /\ rest = Null
      /\ conn \in {"open", "closing"} /\ NoneAnnounced
  <2>1. m # "none"
    OBVIOUS
  <2>2. Ready(m)
    BY <2>1, DueFacts
  <2> QED
    BY <2>2 DEF Ready
<1> DEFINE total == Total + res.body
           n == done + 1
<1>2. /\ out' \in Seq(Answers) /\ Len(out') = n
      /\ \A k \in 1 .. done : out'[k] = out[k]
      /\ out'[n].status = res.status /\ out'[n].announced = res.announced
      /\ out'[n].length = res.length /\ out'[n].body = total
  BY <1>1, SendFacts
<1>3. IF res.status = 200
        THEN /\ total >= res.length /\ total % LoadSize = 0
             /\ total - res.length < LoadSize \/ res.length = 0 \/ changed
        ELSE total = res.length
  OBVIOUS
<1> HIDE DEF total
<1>4. done \in Nat /\ res.announced = CloseConnection(res)
  BY <1>1 DEF IInv, Types, Locks
<1>5. /\ conn' = (IF CloseConnection(res) THEN "closing" ELSE conn)
      /\ done' = n /\ req' = NewRequest /\ res' = NewResponse /\ task' = "none"
      /\ wake' = FALSE
      /\ UNCHANGED <<failed, changed, upgrades, sent, inbox, tame, split, rest, loop>>
  BY DEF Finish, client
<1>6. NewRequest \in RequestRecords /\ Sound(NewRequest) /\ NewResponse \in ResponseRecords
  BY HttpAssumption
  DEF NewRequest, RequestRecords, States, Sound, NewResponse, ResponseRecords, Lefts, Statuses, Lengths
<1>7. Types'
  <2>1. conn' = conn \/ conn' = "closing"
    BY <1>5
  <2>2. conn' \in {"open", "closing"}
    BY <1>1, <2>1
  <2>3. done' \in Nat
    BY <1>4, <1>5
  <2> QED
    <3>1. /\ req' \in RequestRecords /\ Sound(req') /\ res' \in ResponseRecords
          /\ task' = "none" /\ wake' \in BOOLEAN /\ out' \in Seq(Answers)
      BY <1>2, <1>5, <1>6
    <3>2. UNCHANGED <<failed, changed, upgrades, sent, inbox, tame, split, rest, loop>>
      BY <1>5
    <3> QED
      BY <2>2, <2>3, <3>1, <3>2 DEF IInv, Types
<1>8. Chunk' /\ Failures' /\ Chain' /\ WakeDrivesTask'
  BY <1>1, <1>5 DEF IInv, Chunk, Failures, Chain, WakeDrivesTask
<1>9. Locks' /\ Counting' /\ Loading'
  BY <1>1, <1>2, <1>5 DEF Locks, Counting, Loading, NewResponse
<1>10. Announced'
  <2> SUFFICES ASSUME NEW k \in 1 .. n, out'[k].announced
               PROVE  k = Len(out') /\ conn' = "closing" /\ task' = "none"
    BY <1>5 DEF Announced
  <2>1. k = n
    BY <1>1, <1>2, <1>4 DEF NoneAnnounced
  <2> QED
    BY <1>2, <1>4, <1>5, <2>1
<1>11. WholeFileIsSent'
  <2> SUFFICES ASSUME NEW k \in 1 .. n
               PROVE  IF out'[k].status = 200
                        THEN /\ out'[k].body >= out'[k].length
                             /\ out'[k].body % LoadSize = 0
                             /\ \/ out'[k].body - out'[k].length < LoadSize
                                \/ out'[k].length = 0 \/ changed'
                        ELSE out'[k].body = out'[k].length
    BY <1>5 DEF WholeFileIsSent
  <2>1. CASE k = n
    BY <1>2, <1>3, <1>5, <2>1
  <2>2. CASE k \in 1 .. done
    BY <1>2, <1>5, <2>2 DEF IInv, WholeFileIsSent
  <2> QED
    BY <1>4, <2>1, <2>2
<1> QED
  BY <1>7, <1>8, <1>9, <1>10, <1>11 DEF IInv

LEMMA ResponseInv == ASSUME IInv, Response PROVE IInv'
<1>1. /\ Due("Response") /\ SendContent /\ Finish
      /\ UNCHANGED <<failed, changed, client, rest, loop>>
  BY DEF Response, Unmoved, Quiet
<1>2. failed = "none" /\ loop = "idle" /\ task = "Response"
  <2>1. Ready("Response")
    BY <1>1, DueFacts
  <2> QED
    BY <2>1 DEF Ready
<1>3. res.loads = 0 /\ res.status # 200 /\ res.body = res.length /\ res.body \in Nat
  BY <1>2 DEF IInv, Locks, Loading, Types, ResponseRecords
<1>4. Total + res.body = res.length
  BY <1>3 DEF Total
<1> QED
  BY <1>1, <1>3, <1>4, FinishInv

LEMMA NextLoadInv == ASSUME IInv, NextLoad PROVE IInv'
<1>1. Due("NextLoad") /\ SendContent /\ UNCHANGED <<client, rest, loop>>
  BY DEF NextLoad, Quiet
<1>2. /\ failed = "none" /\ loop = "idle" /\ task = "NextLoad" /\ wake = TRUE /\ rest = Null
      /\ conn \in {"open", "closing"} /\ req.state \in Finals
      /\ NoneAnnounced
  <2>1. Ready("NextLoad")
    BY <1>1, DueFacts
  <2> QED
    BY <2>1 DEF Ready
<1> DEFINE total == Total + res.body
           n == done + 1
<1>3. /\ out' \in Seq(Answers) /\ Len(out') = n
      /\ \A k \in 1 .. done : out'[k] = out[k]
      /\ out'[n].status = res.status /\ out'[n].announced = res.announced
      /\ out'[n].length = res.length /\ out'[n].body = total
      /\ total \in Nat /\ Total \in Nat
  BY <1>1, <1>2, SendFacts
<1>4. /\ res \in ResponseRecords /\ res.loads \in Nat /\ res.loads >= 1 /\ res.locked
      /\ res.status = 200 /\ res.body = LoadSize /\ Total % LoadSize = 0
      /\ Suffices(total, res.length, res.left) /\ res.size \in FileSizes
      /\ changed \/ IsRead(total, LoadSize, res.length, res.size, res.pos, res.left)
      /\ res.left \in Nat /\ res.length \in Nat /\ res.size \in Nat /\ res.pos \in Nat
      /\ res.announced = CloseConnection(res)
      /\ changed \in BOOLEAN /\ done \in Nat
  <2>1. /\ res \in ResponseRecords /\ res.locked /\ res.loads >= 1 /\ Loaded(Total + res.body)
        /\ changed \in BOOLEAN /\ done \in Nat
    BY <1>2 DEF IInv, Types, Locks, Loading
  <2>2. res.loads \in Nat /\ res.left \in Nat /\ res.length \in Nat /\ res.pos \in Nat
    BY <2>1, HttpAssumption DEF ResponseRecords, Lefts
  <2>3. res.status = 200 /\ res.size \in FileSizes /\ res.announced = CloseConnection(res)
    BY <2>1 DEF Loaded, IInv, Locks
  <2>4. res.size \in Nat
    <3>1. FileSizes \subseteq Nat
      BY HttpAssumption
    <3>2. res.size \in FileSizes
      BY <2>3
    <3> QED
      BY <3>1, <3>2
  <2> QED
    BY <2>1, <2>2, <2>3, <2>4 DEF Loaded
<1>5. LoadSize \in Nat \ {0}
  BY HttpAssumption
<1>6. total % LoadSize = 0
  BY <1>3, <1>4, <1>5, NextMultiple
<1>7. CASE ~(res.left > 0)
  <2>1. Finish /\ UNCHANGED <<failed, changed>>
    BY <1>7 DEF NextLoad, Left
  <2>2. total >= res.length
    BY <1>3, <1>4, <1>7 DEF Suffices
  <2>3. total - res.length < LoadSize \/ res.length = 0 \/ changed
    BY <1>3, <1>4, <1>5 DEF IsRead
  <2>4. UNCHANGED <<failed, changed, client, rest, loop>>
    BY <1>1, <2>1
  <2>5. res.status = 200
    BY <1>4
  <2> QED
    BY <1>1, <1>6, <2>1, <2>2, <2>3, <2>4, <2>5, FinishInv
<1>8. CASE res.left > 0
  <2>1. Load(res) /\ UNCHANGED <<req, task, wake, conn, done>>
    BY <1>8 DEF NextLoad, Left
  <2> HIDE DEF total
  <2>2. \/ failed' = "LoadContent" /\ res' = res /\ changed' = TRUE
        \/ /\ failed' = "none" /\ res' \in ResponseRecords /\ changed' \in BOOLEAN
           /\ changed => changed'
           /\ res'.status = res.status /\ res'.close = res.close /\ res'.locked = res.locked
           /\ res'.length = res.length /\ res'.announced = res.announced
           /\ res'.loads = res.loads + 1 /\ res'.size \in FileSizes /\ res'.body = LoadSize
           /\ Suffices(total + LoadSize, res.length, res'.left)
           /\ \/ changed'
              \/ IsRead(total + LoadSize, LoadSize, res.length, res'.size, res'.pos, res'.left)
    <3>1. changed \/ Unread(total, res.length, res.size, res.pos, res.left)
      BY <1>3, <1>4, <1>8 DEF IsRead, Unread
    <3>2. /\ res \in ResponseRecords /\ total \in Nat /\ res.size \in FileSizes
          /\ changed \in BOOLEAN /\ res.body \in {0, LoadSize} /\ Load(res)
          /\ failed = "none" /\ Suffices(total, res.length, res.left)
      BY <1>2, <1>3, <1>4, <2>1
    <3> QED
      BY <3>1, <3>2, LoadEffect
  <2>3. UNCHANGED <<upgrades, sent, inbox, tame, split, rest, loop>>
    BY <1>1 DEF client
  <2>4. Announced'
    BY <1>2, <1>3, <2>1 DEF Announced, NoneAnnounced
  <2>5. WholeFileIsSent'
    BY <1>3, <2>1, <2>2 DEF IInv, WholeFileIsSent
  <2>6. WakeDrivesTask' /\ Chain' /\ Chunk'
    BY <1>2, <2>1, <2>2, <2>3 DEF IInv, WakeDrivesTask, Chain, Chunk
  <2>7. CASE failed' = "LoadContent" /\ res' = res /\ changed' = TRUE
    <3>1. Types'
      BY <1>3, <2>1, <2>3, <2>7 DEF IInv, Types
    <3>2. Failures' /\ Locks' /\ Counting' /\ Loading'
      BY <1>2, <1>3, <1>4, <2>1, <2>7
      DEF IInv, Failures, Locks, Counting, Loading, CloseConnection
    <3> QED
      BY <2>4, <2>5, <2>6, <3>1, <3>2 DEF IInv
  <2>8. CASE failed' # "LoadContent"
    <3>1. /\ failed' = "none" /\ res' \in ResponseRecords /\ changed' \in BOOLEAN
          /\ res'.status = 200 /\ res'.close = res.close /\ res'.locked
          /\ res'.length = res.length /\ res'.announced = res.announced
          /\ res'.loads = res.loads + 1 /\ res'.size \in FileSizes /\ res'.body = LoadSize
          /\ Suffices(total + LoadSize, res.length, res'.left)
          /\ \/ changed'
             \/ IsRead(total + LoadSize, LoadSize, res.length, res'.size, res'.pos, res'.left)
      BY <1>4, <2>2, <2>8
    <3>2. Types'
      BY <1>3, <2>1, <2>3, <3>1 DEF IInv, Types
    <3>3. Failures'
      BY <2>3, <3>1 DEF Failures
    <3>4. Locks'
      BY <1>2, <1>4, <2>1, <2>3, <3>1 DEF Locks, CloseConnection
    <3>5. res'.loads >= 2 /\ res'.loads >= 1 /\ res'.loads # 0 /\ Total' = total
      BY <1>3, <1>4, <3>1 DEF Total
    <3>6. Counting'
      <4>1. out'[n] = [Answer' EXCEPT !.body = total]
        <5>1. out'[n] \in Answers
          BY <1>3, <1>4
        <5>2. out'[n] = [status |-> res.status, announced |-> res.announced,
                         length |-> res.length, body |-> total]
          BY <1>3, <5>1 DEF Answers
        <5> QED
          BY <1>4, <3>1, <5>2 DEF Answer
      <4> QED
        BY <1>3, <1>4, <2>1, <3>1, <3>5, <4>1 DEF Counting
    <3>7. Loading'
      <4>1. Loaded(Total + res.body)'
        BY <1>6, <3>1, <3>5 DEF Loaded
      <4> QED
        BY <1>2, <2>1, <3>1, <3>5, <4>1 DEF Loading
    <3> QED
      BY <2>4, <2>5, <2>6, <3>2, <3>3, <3>4, <3>6, <3>7 DEF IInv
  <2> QED
    BY <2>2, <2>7, <2>8
<1> QED
  BY <1>4, <1>7, <1>8

LEMMA PlainRefuseInv ==
  ASSUME IInv, NEW m \in Early, Due(m), NEW status \in Refusals, Refuse(res, status, 1),
         UNCHANGED <<req, conn, out, done>>, Unmoved
  PROVE  IInv'
<1>1. res.close \in BOOLEAN /\ res = [res EXCEPT !.close = res.close]
  BY DEF IInv, Types, ResponseRecords
<1> DEFINE close == res.close
<1>2. close \in BOOLEAN /\ Refuse([res EXCEPT !.close = close], status, 1)
  BY <1>1
<1> HIDE DEF close
<1> QED
  BY <1>2, RefuseInv

LEMMA ServedFacts ==
  ASSUME NEW r \in ResponseRecords, NEW status \in Statuses, NEW size \in Lengths
  PROVE  [r EXCEPT !.status = status, !.size = size] \in ResponseRecords
BY DEF ResponseRecords

LEMMA CheckURLInv == ASSUME IInv, CheckURL PROVE IInv'
<1> DEFINE close == ~KeepAlive(req)
           r     == [res EXCEPT !.close = close]
<1>1. /\ Due("CheckURL") /\ Unmoved
      /\ \/ \E size \in FileSizes : Serve(r, size) /\ UNCHANGED <<req, wake, conn, out, done>>
         \/ \E status \in {404, 503} : Refuse(r, status, 1) /\ UNCHANGED <<req, conn, out, done>>
  BY DEF CheckURL
<1>2. close \in BOOLEAN
  BY DEF KeepAlive
<1> HIDE DEF close
<1>3. ASSUME NEW status \in {404, 503}, Refuse(r, status, 1),
             UNCHANGED <<req, conn, out, done>>
      PROVE  IInv'
  <2>1. status \in Refusals /\ "CheckURL" \in Early
    BY DEF Refusals, Early
  <2> QED
    BY <1>1, <1>2, <1>3, <2>1, RefuseInv
<1>4. ASSUME NEW size \in FileSizes, Serve(r, size), UNCHANGED <<req, wake, conn, out, done>>
      PROVE  IInv'
  <2>1. /\ failed = "none" /\ loop = "idle" /\ task = "CheckURL" /\ wake = TRUE
        /\ rest = Null /\ conn \in {"open", "closing"} /\ req.state \in Finals
        /\ NoneAnnounced
        /\ ~res.locked /\ res.loads = 0 /\ Len(out) = done
    <3>1. "CheckURL" \in Early
      BY DEF Early
    <3>2. Ready("CheckURL") /\ HeadOpen
      BY <1>1, <3>1, EarlyFacts
    <3> QED
      BY <3>2 DEF Ready, HeadOpen
  <2>2. r \in ResponseRecords /\ r.locked = res.locked /\ r.loads = 0 /\ r.pos = res.pos
    BY <1>2, <2>1 DEF IInv, Types, ResponseRecords
  <2> HIDE DEF r
  <2>3. res' = [r EXCEPT !.status = 200, !.size = size] /\ task' = "CheckMethod"
        /\ failed' = "none"
    BY <1>4, <2>1, <2>2 DEF Serve
  <2>4. /\ res' \in ResponseRecords /\ ~res'.locked /\ res'.loads = 0 /\ res'.pos = res.pos
        /\ res'.status = 200 /\ res'.size = size
    <3>1. res' \in ResponseRecords
      <4> DEFINE ok == 200
                 s  == [r EXCEPT !.status = ok, !.size = size]
      <4>1. ok \in Statuses /\ size \in Lengths
        BY DEF Statuses, Lengths
      <4>2. res' = s
        BY <2>3
      <4> HIDE DEF ok
      <4>3. s \in ResponseRecords
        BY <2>2, <4>1 DEF ResponseRecords
      <4> HIDE DEF s
      <4> QED
        BY <4>2, <4>3
    <3>2. /\ res'.locked = r.locked /\ res'.loads = r.loads /\ res'.pos = r.pos
          /\ res'.status = 200 /\ res'.size = size
      BY <2>2, <2>3 DEF ResponseRecords
    <3> QED
      BY <2>1, <2>2, <3>1, <3>2
  <2>5. UNCHANGED <<upgrades, sent, inbox, tame, split, rest, loop, changed>>
    BY <1>1 DEF Unmoved, Quiet, client
  <2>6. Types'
    BY <1>4, <2>3, <2>4, <2>5 DEF IInv, Types, Early
  <2>7. Chunk' /\ Failures' /\ Chain' /\ WakeDrivesTask'
    BY <1>4, <2>1, <2>3, <2>5 DEF IInv, Chunk, Failures, Chain, WakeDrivesTask
  <2>8. Locks' /\ Counting' /\ Loading'
    BY <1>4, <2>1, <2>3, <2>4, <2>5 DEF IInv, Locks, Counting, Loading
  <2>9. Announced' /\ WholeFileIsSent'
    BY <1>4, <2>1, <2>3, <2>5 DEF IInv, Announced, WholeFileIsSent
  <2> QED
    BY <2>6, <2>7, <2>8, <2>9 DEF IInv
<1> QED
  BY <1>1, <1>3, <1>4

LEMMA TaskInv == ASSUME IInv, OnTaskFinished PROVE IInv'
<1>1. CASE ParseCookie
  BY <1>1, GoOnInv DEF ParseCookie, Early
<1>2. CASE Identify
  <2> DEFINE n == IF ~Identified THEN "Login" ELSE IF upgrades THEN "UpgradeWs" ELSE "CheckURL"
  <2>1. Due("Identify") /\ GoOn(n) /\ UNCHANGED res /\ Unmoved
    BY <1>2 DEF Identify
  <2>2. n \in Early /\ n \notin {"CheckMethod", "LoadFile"} /\ "Identify" \in Early
    BY DEF Early
  <2> HIDE DEF n
  <2> QED
    BY <2>1, <2>2, GoOnInv
<1>3. CASE UpgradeWs
  BY <1>3, UpgradeInv
<1>4. CASE Login
  <2>1. CASE GoOn("CheckURL") /\ UNCHANGED res
    BY <1>4, <2>1, GoOnInv DEF Login, Early
  <2>2. ASSUME NEW status \in {401, 307}, Refuse(res, status, 1),
               UNCHANGED <<req, conn, out, done>>
        PROVE  IInv'
    <3>1. status \in Refusals /\ "Login" \in Early
      BY DEF Refusals, Early
    <3> QED
      BY <1>4, <2>2, <3>1, PlainRefuseInv DEF Login
  <2> QED
    BY <1>4, <2>1, <2>2 DEF Login
<1>5. CASE CheckURL
  BY <1>5, CheckURLInv
<1>6. CASE CheckMethod
  <2> DEFINE n == IF req.method \in {"GET", "POST"} THEN "LoadFile" ELSE "UnSupport"
  <2>1. Due("CheckMethod") /\ GoOn(n) /\ UNCHANGED res /\ Unmoved
    BY <1>6 DEF CheckMethod
  <2>2. n \in Early /\ "CheckMethod" \in Early
    BY DEF Early
  <2>3. res.status = 200
    BY <2>1, <2>2, EarlyFacts DEF IInv, Locks, Ready
  <2> HIDE DEF n
  <2> QED
    BY <2>1, <2>2, <2>3, GoOnInv
<1>7. CASE UnSupport
  <2>1. 503 \in Refusals /\ "UnSupport" \in Early
    BY DEF Refusals, Early
  <2> QED
    BY <1>7, <2>1, PlainRefuseInv DEF UnSupport
<1>8. CASE LoadFile
  BY <1>8, LoadFileInv
<1>9. CASE NextLoad
  BY <1>9, NextLoadInv
<1>10. CASE Response
  BY <1>10, ResponseInv
<1> QED
  BY <1>1, <1>2, <1>3, <1>4, <1>5, <1>6, <1>7, <1>8, <1>9, <1>10 DEF OnTaskFinished

LEMMA StutterInv == ASSUME IInv, UNCHANGED vars PROVE IInv'
<1>1. UNCHANGED <<upgrades, sent, inbox, rest, loop, req, res, task, wake, conn, out, done,
                  failed, changed, tame, split>>
  BY DEF vars
<1>2. Types' /\ Chunk' /\ Failures' /\ Chain'
  BY <1>1 DEF IInv, Types, Chunk, Failures, Chain
<1>3. Sending'
  BY <1>1, SessionStands DEF IInv, Sending
<1> QED
  BY <1>2, <1>3 DEF IInv, Sending

LEMMA StepInv == IInv /\ [Next]_vars => IInv'
<1> SUFFICES ASSUME IInv, [Next]_vars PROVE IInv'
  OBVIOUS
<1>1. CASE UNCHANGED vars
  BY <1>1, StutterInv
<1>2. ASSUME NEW r \in Requests, Send(r) PROVE IInv'
  BY <1>2, SendInv
<1>3. ASSUME NEW n \in 1 .. Len(inbox), Read(n) PROVE IInv'
  BY <1>3, ReadInv
<1>4. CASE PeerCloses \/ TimeOut \/ OnCloseConnection
  BY <1>4, CloseInv
<1>5. CASE Parse
  BY <1>5, ParseInv
<1>6. CASE Check
  BY <1>6, CheckInv
<1>7. CASE OnTaskFinished
  BY <1>7, TaskInv
<1> QED
  BY <1>1, <1>2, <1>3, <1>4, <1>5, <1>6, <1>7 DEF Next, OnTaskFinished

(* The inductive invariant holds in every state of every behaviour. *)
THEOREM Invariance == Spec => []IInv
<1> QED
  BY InitInv, StepInv, PTL DEF Spec

(* What the head of an answer announces is done: nothing follows one that  *)
(* announces the close, and the server closes when it is finished.         *)
THEOREM AnnouncedIsAlwaysDone == Spec => []AnnouncedIsDone
<1>1. IInv => AnnouncedIsDone
  <2> SUFFICES ASSUME IInv, NEW k \in 1 .. Len(out), out[k].announced
               PROVE  k = Len(out) /\ (k <= done => conn # "open")
    BY DEF AnnouncedIsDone
  <2>1. done \in Nat /\ Len(out) \in {done, done + 1}
    BY DEF IInv, Types, Counting
  <2>2. CASE k \in 1 .. done
    BY <2>2 DEF IInv, Announced
  <2>3. CASE k \notin 1 .. done
    BY <2>1, <2>3
  <2> QED
    BY <2>2, <2>3
<1> QED
  BY <1>1, Invariance, PTL

(* Every finished answer is as long as its head says, or longer by less    *)
(* than a part: for any sizes of files and parts, even when the file       *)
(* shrinks, grows or goes while it is sent.                                *)
THEOREM WholeFileIsAlwaysSent == Spec => []WholeFileIsSent
<1>1. IInv => WholeFileIsSent
  BY DEF IInv
<1> QED
  BY <1>1, Invariance, PTL

(* The session has the values the code gives it, and a wake-up exactly     *)
(* when a module is to be run.                                             *)
THEOREM WakeAlwaysDrivesTask == Spec => [](TypeOK /\ WakeDrivesTask)
<1>1. IInv => TypeOK /\ WakeDrivesTask
  <2> SUFFICES ASSUME IInv PROVE TypeOK
    BY DEF IInv
  <2>1. /\ req.state \in States /\ req.method \in Methods \cup {"eINVALID"}
        /\ req.headers \subseteq Fields /\ req.content \in 0 .. BodyLength
        /\ res.status \in Statuses /\ res.left \in Lefts /\ res.body \in Nat
        /\ res.locked \in BOOLEAN
    BY DEF IInv, Types, RequestRecords, ResponseRecords
  <2> QED
    BY <2>1 DEF IInv, Types, TypeOK, States, Statuses, Lefts, Early
<1> QED
  BY <1>1, Invariance, PTL

-----------------------------------------------------------------------------
(* What a tame client gets: how its request is read, and the way it takes  *)
(* through the modules.                                                    *)

(* What of the chunk has not been used, the request it is of, and how much *)
(* of that has been used.                                                  *)
Bytes == IF rest \in {Null, Beyond} THEN << >> ELSE rest

Pending == sent[done + 1]

Place == Len(Pending) - Len(inbox) - Len(Bytes)

(* What the parser q has made of the first p tokens of the message r of n  *)
(* lines.                                                                  *)
AtStart(r, p, q) ==
  /\ q.method = "eINVALID" /\ q.headers = {}
  /\ \/ p = 0 /\ q.line = << >>
     \/ p = 1 /\ q.line = <<r[1]>> /\ r[1] # "BAD"

InHeaders(r, n, p, q) ==
  /\ q.method = r[1] /\ ~BadStart(r)
  /\ \E k \in 1 .. n :
       /\ q.headers = FieldsOf(r, k)
       /\ \/ p = 3 * k /\ q.line = << >> /\ (k = n => Ends(r, n))
          \/ k < n /\ p = 3 * k + 1 /\ q.line = <<r[p]>>

Known(r, n, q) == Ends(r, n) /\ q.method = r[1] /\ q.headers = FieldsOf(r, n)

Parsed(r, n, p, q) ==
  /\ q.state = "eExpectRequestLine" => AtStart(r, p, q)
  /\ q.state = "eReadingHeaders" => InHeaders(r, n, p, q)
  /\ q.state = "eReadingBody" => Known(r, n, q) /\ p = 3 * n + 2 + q.content
  /\ q.state = "eResponsing" => Known(r, n, q) /\ p = Len(r)
  /\ q.state = "eError" => Breaks(r, n) /\ q.method = "eINVALID" /\ p = Len(r)

(* The chunk and what has not been read are the rest of the request r.     *)
Follows(r, p) ==
  /\ \A i \in 1 .. Len(Bytes) : Bytes[i] = r[p + i]
  /\ \A i \in 1 .. Len(inbox) : inbox[i] = r[Len(r) - Len(inbox) + i]

Idling ==
  Len(sent) = done /\ inbox = << >> /\ Bytes = << >> /\ req = NewRequest

Reading(r, p) ==
  /\ p \in 0 .. Len(r) /\ Follows(r, p)
  /\ \E n \in 1 .. Len(r) :
       Lines(r, n) /\ (Breaks(r, n) \/ Ends(r, n)) /\ Parsed(r, n, p, req)

Parsing ==
  tame /\ ~split /\ failed = "none" /\ conn # "upgraded" =>
    Idling \/ (Len(sent) = done + 1 /\ Reading(Pending, Place))

(* The request is one the connection is handed over for. *)
Upgrading == upgrades /\ Identified /\ HandShakes

(* The status fits the request as it has been parsed. *)
Suits(status) ==
  /\ status = 400 <=> req.method = "eINVALID"
  /\ status = 200 => req.method \in {"GET", "POST"}
  /\ status \in {307, 401} => ~Identified
  /\ status = 101 <=> req.method # "eINVALID" /\ Upgrading

Routing ==
  failed = "none" /\ loop = "idle" =>
    /\ task \in Early => req.method # "eINVALID"
    /\ task = "Login" => ~Identified
    /\ task = "UpgradeWs" => upgrades /\ Identified
    /\ task \in {"CheckURL", "CheckMethod", "UnSupport", "LoadFile"} => ~Upgrading
    /\ task = "LoadFile" => req.method \in {"GET", "POST"}
    /\ task \in {"NextLoad", "Response"} => Suits(res.status)

(* Nothing runs on the session any more when it is handed over. *)
HandedOver == conn = "upgraded" => loop = "idle"

(* Parse is called again without any bytes for a body only. *)
Fed == loop = "parse" /\ rest = << >> => req.state = "eReadingBody"

(* What a tame client gets fits. *)
TInv == Parsing /\ Routing /\ HandedOver /\ Fed /\ OnlyWildClientsFail /\ AnswerFits

(* Where a token of the first n lines stands. *)
LEMMA Thirds ==
  ASSUME NEW n \in Nat, NEW i \in 1 .. 3 * n
  PROVE  \E k \in 1 .. n : i = 3 * k - 2 \/ i = 3 * k - 1 \/ i = 3 * k
<1> DEFINE k == (i + 2) \div 3
<1>1. k \in Nat /\ 3 * k <= i + 2 /\ i + 2 < 3 * k + 3
  OBVIOUS
<1> HIDE DEF k
<1>2. k \in 1 .. n /\ (i = 3 * k - 2 \/ i = 3 * k - 1 \/ i = 3 * k)
  BY <1>1
<1> QED
  BY <1>2

(* A whole message is as its headers say; one that breaks off is malformed. *)
LEMMA WholeMessage ==
  ASSUME NEW r \in Seq(Tokens), NEW n \in 1 .. Len(r), Lines(r, n), Ends(r, n)
  PROVE  /\ ~Malformed(r) /\ r[1] \in Methods
         /\ \A t \in Fields : Has(r, t) <=> t \in FieldsOf(r, n)
<1>0. Len(r) \in Nat /\ 3 * n <= Len(r)
  BY DEF Lines
<1>1. r[1] \in Methods
  BY DEF Ends, BadStart
<1>2. \A k \in 2 .. n : r[3 * k - 2] \in Fields
  <2> TAKE k \in 2 .. n
  <2>1. CASE k = n
    BY <2>1 DEF Ends
  <2>2. CASE k # n
    <3>1. k \in 2 .. n - 1
      BY <2>2
    <3> QED
      BY <3>1 DEF Lines
  <2> QED
    BY <2>1, <2>2
<1>3. ASSUME NEW i \in 1 .. Len(r)
      PROVE  i = 1 \/ r[i] \in {"CR", "LF", "byte"} \/ \E k \in 2 .. n : i = 3 * k - 2
  <2>1. CASE i \in 1 .. 3 * n
    <3>1. PICK k \in 1 .. n : i = 3 * k - 2 \/ i = 3 * k - 1 \/ i = 3 * k
      <4>1. n \in Nat
        BY <1>0
      <4> QED
        BY <2>1, <4>1, Thirds
    <3>2. CASE i = 3 * k - 2
      <4>1. k = 1 => i = 1
        BY <3>2
      <4>2. k # 1 => k \in 2 .. n
        OBVIOUS
      <4> QED
        BY <3>2, <4>1, <4>2
    <3>3. CASE i = 3 * k - 1 \/ i = 3 * k
      <4>1. r[3 * k - 1] = "CR" /\ r[3 * k] = "LF"
        BY DEF Lines
      <4> QED
        BY <3>3, <4>1
    <3> QED
      BY <3>1, <3>2, <3>3
  <2>2. CASE i \notin 1 .. 3 * n
    <3>1. i = 3 * n + 1 \/ i = 3 * n + 2 \/ i \in 3 * n + 3 .. Len(r)
      BY <1>0, <2>2
    <3>2. /\ r[3 * n + 1] = "CR" /\ r[3 * n + 2] = "LF"
          /\ \A j \in 3 * n + 3 .. Len(r) : r[j] = "byte"
      BY DEF Ends
    <3> QED
      BY <3>1, <3>2
  <2> QED
    BY <2>1, <2>2
<1>4. \A i \in 1 .. Len(r) : r[i] # "word"
  <2> SUFFICES ASSUME NEW i \in 1 .. Len(r), r[i] = "word" PROVE FALSE
    OBVIOUS
  <2>1. "word" \notin Methods /\ "word" \notin Fields
    BY DEF Methods, Fields
  <2>2. PICK k \in 2 .. n : i = 3 * k - 2
    BY <1>1, <1>3, <2>1
  <2> QED
    BY <1>2, <2>1, <2>2
<1>5. ~Malformed(r)
  BY <1>1, <1>4 DEF Malformed, BadStart, Has
<1>6. ASSUME NEW t \in Fields, Has(r, t) PROVE t \in FieldsOf(r, n)
  <2>1. PICK i \in 1 .. Len(r) : r[i] = t
    BY <1>6 DEF Has
  <2>2. t \notin Methods /\ t \notin {"CR", "LF", "byte"}
    BY DEF Fields, Methods
  <2>3. PICK k \in 2 .. n : i = 3 * k - 2
    BY <1>1, <1>3, <2>1, <2>2
  <2> QED
    BY <2>1, <2>3 DEF FieldsOf
<1>7. ASSUME NEW t \in FieldsOf(r, n) PROVE Has(r, t)
  <2>1. PICK k \in 2 .. n : t = r[3 * k - 2]
    BY DEF FieldsOf
  <2>2. 3 * k - 2 \in 1 .. Len(r)
    BY <1>0
  <2> QED
    BY <2>1, <2>2 DEF Has
<1> QED
  BY <1>1, <1>5, <1>6, <1>7

LEMMA BrokenMessage ==
  ASSUME NEW r \in Seq(Tokens), NEW n \in 1 .. Len(r), Breaks(r, n)
  PROVE  Malformed(r)
<1>1. CASE n = 1
  BY <1>1 DEF Breaks, Malformed
<1>2. CASE n # 1
  <2>1. r[3 * n - 2] = "word" /\ 3 * n - 2 \in 1 .. Len(r)
    BY <1>2 DEF Breaks
  <2> QED
    BY <2>1 DEF Malformed, Has
<1> QED
  BY <1>1, <1>2

-----------------------------------------------------------------------------
(* The parser on a chunk that is cut neither behind CR nor behind BAD.     *)

(* A chunk that begins with a line end, or has one behind its first token. *)
LEMMA FindsFirst ==
  ASSUME NEW c \in Seq(Tokens), c # << >>, c[1] = "CR", c[Len(c)] # "CR"
  PROVE  FindCrlf(c) = 1 /\ Len(c) >= 2
<1>1. Len(c) \in Nat \ {0} /\ Len(c) # 1
  BY EmptySeq
<1>2. FindCrlf(c) # 0
  BY <1>1, FindCrlfFacts
<1>3. FindCrlf(c) > 1 => c[1] # "CR"
  <2> SUFFICES ASSUME FindCrlf(c) > 1 PROVE c[1] # "CR"
    OBVIOUS
  <2>1. FindCrlf(c) \in -1 .. Len(c)
    BY FindCrlfFacts
  <2>2. 1 \in 1 .. FindCrlf(c) - 1 /\ FindCrlf(c) > 0
    BY <2>1
  <2> QED
    BY <2>2, FindCrlfFacts
<1>4. FindCrlf(c) \in -1 .. Len(c) /\ FindCrlf(c) # -1
  BY FindCrlfFacts
<1> QED
  BY <1>1, <1>2, <1>3, <1>4

LEMMA FindsSecond ==
  ASSUME NEW c \in Seq(Tokens), Len(c) >= 2, c[1] # "CR", c[2] = "CR", c[Len(c)] # "CR"
  PROVE  FindCrlf(c) = 2 /\ Len(c) >= 3
<1>1. Len(c) \in Nat /\ Len(c) # 2
  OBVIOUS
<1>2. FindCrlf(c) # 0
  <2>1. ~(\A j \in 1 .. Len(c) : c[j] # "CR") /\ ~(Len(c) < 2)
    BY <1>1
  <2> QED
    BY <2>1, FindCrlfFacts
<1>3. FindCrlf(c) \in -1 .. Len(c) /\ FindCrlf(c) # -1
  BY FindCrlfFacts
<1>4. FindCrlf(c) # 1
  BY FindCrlfFacts
<1>5. FindCrlf(c) > 2 => c[2] # "CR"
  <2> SUFFICES ASSUME FindCrlf(c) > 2 PROVE c[2] # "CR"
    OBVIOUS
  <2>1. 2 \in 1 .. FindCrlf(c) - 1 /\ FindCrlf(c) > 0
    BY <1>3
  <2> QED
    BY <2>1, FindCrlfFacts
<1> QED
  BY <1>1, <1>2, <1>3, <1>4, <1>5

(* The first token of a chunk as a sequence, and none of it. *)
LEMMA FirstToken ==
  ASSUME NEW c \in Seq(Tokens), c # << >>
  PROVE  /\ SubSeq(c, 1, 1) = <<c[1]>> /\ SubSeq(c, 1, 0) = << >>
         /\ Len(c) = 1 => c = <<c[1]>>
<1>1. Len(c) \in Nat \ {0} /\ c[1] \in Tokens
  BY EmptySeq
<1> DEFINE s == SubSeq(c, 1, 1)
           e == SubSeq(c, 1, 0)
           t == <<c[1]>>
<1>2. s \in Seq(Tokens) /\ Len(s) = 1 /\ s[1] = c[1]
  <2>1. 1 \in 0 .. Len(c) /\ 1 \in 1 .. 1
    BY <1>1
  <2> QED
    BY <2>1, Parts
<1>3. e \in Seq(Tokens) /\ Len(e) = 0
  <2>1. 0 \in 0 .. Len(c)
    BY <1>1
  <2> QED
    BY <2>1, Parts
<1>4. t \in Seq(Tokens) /\ Len(t) = 1 /\ t[1] = c[1]
  BY <1>1
<1> HIDE DEF s, e, t
<1>5. s = t
  BY <1>2, <1>4, SeqEqual
<1>6. e = << >>
  BY <1>3, EmptySeq
<1>7. Len(c) = 1 => c = t
  BY <1>4, SeqEqual
<1> QED
  BY <1>5, <1>6, <1>7 DEF s, e, t

(* The empty line that ends the headers. *)
LEMMA EndRead ==
  ASSUME NEW q \in RequestRecords, NEW c \in Seq(Tokens), c # << >>, c[Len(c)] # "CR",
         q.line = << >>, c[1] = "CR"
  PROVE  LET g == GetLine(q, c)
         IN  g.line = << >> /\ g.line # Null /\ g.begin = SubSeq(c, 3, Len(c)) /\ Len(c) >= 2
<1>1. FindCrlf(c) = 1 /\ Len(c) >= 2
  BY FindsFirst
<1>2. /\ GetLine(q, c).line = q.line \o SubSeq(c, 1, 0) /\ GetLine(q, c).line # Null
      /\ GetLine(q, c).begin = SubSeq(c, 3, Len(c))
  <2> DEFINE i == FindCrlf(c)
             g == GetLine(q, c)
  <2>1. i > 0 => /\ g.line = q.line \o SubSeq(c, 1, i - 1) /\ g.line # Null
                 /\ g.begin = SubSeq(c, i + 2, Len(c))
    BY GetLineFacts
  <2>2. i = 1 /\ i - 1 = 0 /\ i + 2 = 3 /\ i > 0
    BY <1>1
  <2> HIDE DEF i, g
  <2>3. g.line = q.line \o SubSeq(c, 1, 0) /\ g.line # Null /\ g.begin = SubSeq(c, 3, Len(c))
    BY <2>1, <2>2
  <2> QED
    BY <2>3 DEF g
<1>3. q.line \o SubSeq(c, 1, 0) = << >>
  <2>1. SubSeq(c, 1, 0) = << >>
    BY FirstToken
  <2>2. << >> \o << >> = << >>
    OBVIOUS
  <2> QED
    BY <2>1, <2>2
<1> QED
  BY <1>1, <1>2, <1>3

(* A line of one token t: the chunk ends behind t, or the line is read.    *)
LEMMA LineRead ==
  ASSUME NEW q \in RequestRecords, NEW c \in Seq(Tokens), c # << >>, c[Len(c)] # "CR",
         NEW t \in Tokens, t # "CR",
         \/ q.line = << >> /\ c[1] = t /\ (Len(c) >= 2 => c[2] = "CR")
         \/ q.line = <<t>> /\ c[1] = "CR"
  PROVE  LET g == GetLine(q, c)
         IN  \/ /\ q.line = << >> /\ c = <<t>>
                /\ g.line = Null /\ g.begin = Null
             \/ /\ g.line = <<t>> /\ g.line # Null
                /\ \E m \in 0 .. Len(c) : /\ m = IF q.line = << >> THEN 3 ELSE 2
                                          /\ g.begin = SubSeq(c, m + 1, Len(c))
<1> DEFINE i == FindCrlf(c)
           g == GetLine(q, c)
<1>0. Len(c) \in Nat \ {0}
  BY EmptySeq
<1>1. /\ i > 0 => /\ g.line = q.line \o SubSeq(c, 1, i - 1) /\ g.line # Null
                  /\ g.begin = SubSeq(c, i + 2, Len(c))
      /\ ~(i > 0) => g.line = Null /\ g.begin = IF i = 0 THEN Null ELSE Beyond
  BY GetLineFacts
<1>2. CASE q.line = << >> /\ c[1] = t /\ Len(c) = 1
  <2>1. i = 0
    BY <1>2 DEF FindCrlf
  <2>2. c = <<t>>
    BY <1>2, FirstToken
  <2> HIDE DEF i, g
  <2>3. g.line = Null /\ g.begin = Null
    BY <1>1, <2>1
  <2> QED
    BY <1>2, <2>2, <2>3 DEF g
<1>3. CASE q.line = << >> /\ c[1] = t /\ Len(c) # 1
  <2>1. i = 2 /\ Len(c) >= 3
    <3>0. Len(c) >= 2
      <4>1. \A k \in Nat \ {0} : k # 1 => k >= 2
        OBVIOUS
      <4> QED
        BY <1>0, <1>3, <4>1
    <3>1. Len(c) >= 2 /\ c[1] # "CR"
      BY <1>3, <3>0
    <3>2. c[2] = "CR"
      <4>1. q.line # <<t>>
        BY <1>3
      <4> QED
        BY <3>1, <4>1
    <3> QED
      BY <3>1, <3>2, FindsSecond
  <2>2. << >> \o SubSeq(c, 1, 1) = <<t>>
    <3>1. SubSeq(c, 1, 1) = <<t>>
      BY <1>3, FirstToken
    <3>2. << >> \o <<t>> = <<t>>
      OBVIOUS
    <3> QED
      BY <3>1, <3>2
  <2> HIDE DEF i, g
  <2>3. g.line = q.line \o SubSeq(c, 1, 1) /\ g.line # Null /\ g.begin = SubSeq(c, 4, Len(c))
    <3>1. i > 0 /\ i - 1 = 1 /\ i + 2 = 4
      BY <2>1
    <3> QED
      BY <1>1, <3>1
  <2>4. g.line = <<t>>
    BY <1>3, <2>2, <2>3
  <2>5. 3 \in 0 .. Len(c) /\ 3 + 1 = 4
    BY <1>0, <2>1
  <2>6. \E m \in 0 .. Len(c) : /\ m = IF q.line = << >> THEN 3 ELSE 2
                               /\ g.begin = SubSeq(c, m + 1, Len(c))
    BY <1>3, <2>3, <2>5
  <2> QED
    BY <2>3, <2>4, <2>6 DEF g
<1>4. CASE q.line = <<t>> /\ c[1] = "CR"
  <2>1. i = 1 /\ Len(c) >= 2
    BY <1>4, FindsFirst
  <2>2. <<t>> \o SubSeq(c, 1, 0) = <<t>>
    <3>1. SubSeq(c, 1, 0) = << >>
      BY FirstToken
    <3>2. <<t>> \o << >> = <<t>>
      OBVIOUS
    <3> QED
      BY <3>1, <3>2
  <2> HIDE DEF i, g
  <2>3. g.line = q.line \o SubSeq(c, 1, 0) /\ g.line # Null /\ g.begin = SubSeq(c, 3, Len(c))
    <3>1. i > 0 /\ i - 1 = 0 /\ i + 2 = 3
      BY <2>1
    <3> QED
      BY <1>1, <3>1
  <2>4. g.line = <<t>>
    BY <1>4, <2>2, <2>3
  <2>5. 2 \in 0 .. Len(c) /\ 2 + 1 = 3 /\ q.line # << >>
    BY <1>0, <1>4, <2>1
  <2>6. \E m \in 0 .. Len(c) : /\ m = IF q.line = << >> THEN 3 ELSE 2
                               /\ g.begin = SubSeq(c, m + 1, Len(c))
    BY <2>3, <2>5
  <2> QED
    BY <2>3, <2>4, <2>6 DEF g
<1> QED
  BY <1>2, <1>3, <1>4

(* The parser q has the first p tokens of the message r of n lines, and c  *)
(* is the chunk that follows them.                                         *)
Midway(r, n, p, q, c) ==
  /\ r \in Seq(Tokens) /\ n \in 1 .. Len(r) /\ Lines(r, n) /\ (Breaks(r, n) \/ Ends(r, n))
  /\ q \in RequestRecords /\ Sound(q) /\ Parsed(r, n, p, q)
  /\ c \in Seq(Tokens) /\ p \in Nat /\ p + Len(c) <= Len(r)
  /\ \A i \in 1 .. Len(c) : c[i] = r[p + i]
  /\ c # << >> => c[Len(c)] \notin {"CR", "BAD"}

(* A call s of a handler uses all of the chunk, or its first m tokens.     *)
Advances(r, n, p, c, s) ==
  \/ s.begin = Null /\ Parsed(r, n, p + Len(c), s.req)
  \/ \E m \in 0 .. Len(c) :
       s.begin = SubSeq(c, m + 1, Len(c)) /\ Parsed(r, n, p + m, s.req)

(* The lines of a message by their first tokens. *)
LEMMA LineStarts ==
  ASSUME NEW r \in Seq(Tokens), NEW n \in 1 .. Len(r), Lines(r, n),
         Breaks(r, n) \/ Ends(r, n), NEW k \in 0 .. n - 1
  PROVE  /\ r[3 * k + 1] \in Tokens /\ r[3 * k + 1] # "CR"
         /\ r[3 * k + 2] = "CR" /\ 3 * k + 3 <= Len(r)
         /\ k > 0 /\ r[3 * k + 1] \in Fields =>
              FieldsOf(r, k + 1) = FieldsOf(r, k) \cup {r[3 * k + 1]}
         /\ k > 0 =>
              IF r[3 * k + 1] \in Fields THEN k + 1 = n => Ends(r, n)
              ELSE k + 1 = n /\ Breaks(r, n)
<1>0. Len(r) \in Nat /\ 3 * n <= Len(r) /\ k + 1 \in 1 .. n
  BY DEF Lines
<1>1. 3 * (k + 1) - 2 = 3 * k + 1 /\ 3 * (k + 1) - 1 = 3 * k + 2 /\ 3 * k + 3 <= Len(r)
  BY <1>0
<1>2. r[3 * k + 2] = "CR"
  <2>1. \A j \in 1 .. n : r[3 * j - 1] = "CR"
    BY DEF Lines
  <2>2. r[3 * (k + 1) - 1] = "CR"
    BY <1>0, <2>1
  <2> QED
    BY <1>1, <2>2
<1>3. r[3 * k + 1] \in Tokens
  <2>1. 3 * k + 1 \in 1 .. Len(r)
    BY <1>0, <1>1
  <2> QED
    BY <2>1
<1>4. k > 0 /\ k + 1 # n => r[3 * k + 1] \in Fields
  <2> SUFFICES ASSUME k > 0, k + 1 # n PROVE r[3 * k + 1] \in Fields
    OBVIOUS
  <2>1. k + 1 \in 2 .. n - 1
    BY <1>0
  <2>2. \A j \in 2 .. n - 1 : r[3 * j - 2] \in Fields
    BY DEF Lines
  <2>3. r[3 * (k + 1) - 2] \in Fields
    BY <2>1, <2>2
  <2> QED
    BY <1>1, <2>3
<1>5. k > 0 /\ k + 1 = n =>
        /\ Ends(r, n) => r[3 * k + 1] \in Fields
        /\ Breaks(r, n) => r[3 * k + 1] = "word"
  <2> SUFFICES ASSUME k > 0, k + 1 = n
               PROVE  /\ Ends(r, n) => r[3 * k + 1] \in Fields
                      /\ Breaks(r, n) => r[3 * k + 1] = "word"
    OBVIOUS
  <2>1. n > 1 /\ n # 1 /\ 3 * n - 2 = 3 * k + 1
    BY <1>0
  <2>2. Ends(r, n) => r[3 * n - 2] \in Fields
    BY <2>1 DEF Ends
  <2>3. Breaks(r, n) => r[3 * n - 2] = "word"
    BY <2>1 DEF Breaks
  <2> QED
    BY <2>1, <2>2, <2>3
<1>6. "CR" \notin Fields /\ "CR" \notin Methods /\ "word" \notin Fields
  BY DEF Fields, Methods
<1>7. r[3 * k + 1] # "CR"
  <2>1. CASE k = 0
    <3>1. r[1] \in Methods \cup {"NOURL", "BAD"}
      BY DEF Lines
    <3>2. 3 * k + 1 = 1
      BY <2>1
    <3> QED
      BY <1>6, <3>1, <3>2
  <2>2. CASE k # 0
    <3>1. k > 0
      BY <2>2
    <3> QED
      BY <1>4, <1>5, <1>6, <3>1
  <2> QED
    BY <2>1, <2>2
<1>8. k > 0 => FieldsOf(r, k + 1) = FieldsOf(r, k) \cup {r[3 * k + 1]}
  <2> SUFFICES ASSUME k > 0 PROVE FieldsOf(r, k + 1) = FieldsOf(r, k) \cup {r[3 * k + 1]}
    OBVIOUS
  <2>1. 2 .. k + 1 = (2 .. k) \cup {k + 1}
    OBVIOUS
  <2> QED
    BY <1>1, <2>1 DEF FieldsOf
<1>9. k > 0 =>
        IF r[3 * k + 1] \in Fields THEN k + 1 = n => Ends(r, n)
        ELSE k + 1 = n /\ Breaks(r, n)
  <2> SUFFICES ASSUME k > 0
               PROVE  IF r[3 * k + 1] \in Fields THEN k + 1 = n => Ends(r, n)
                      ELSE k + 1 = n /\ Breaks(r, n)
    OBVIOUS
  <2> QED
    BY <1>4, <1>5, <1>6
<1> QED
  BY <1>1, <1>2, <1>3, <1>7, <1>8, <1>9

(* A single token is no overlong field. *)
LEMMA OneTokenIsShort ==
  ASSUME NEW line, Len(line) \in {0, 1}
  PROVE  ~Overlong(line)
BY DEF Overlong

LEMMA StartReads ==
  ASSUME NEW r, NEW n, NEW p, NEW q, NEW c, Midway(r, n, p, q, c), c # << >>,
         q.state = "eExpectRequestLine"
  PROVE  Advances(r, n, p, c, ParseStep(q, c))
<1>1. /\ r \in Seq(Tokens) /\ n \in 1 .. Len(r) /\ Lines(r, n) /\ (Breaks(r, n) \/ Ends(r, n))
      /\ q \in RequestRecords /\ q.method = "eINVALID" /\ q.headers = {}
      /\ \/ p = 0 /\ q.line = << >>
         \/ p = 1 /\ q.line = <<r[1]>> /\ r[1] # "BAD"
      /\ c \in Seq(Tokens) /\ p + Len(c) <= Len(r) /\ \A i \in 1 .. Len(c) : c[i] = r[p + i]
      /\ c[Len(c)] # "CR" /\ c[Len(c)] # "BAD"
  BY DEF Midway, Parsed, AtStart
<1>2. Len(c) \in Nat \ {0} /\ Len(r) \in Nat /\ 3 * n <= Len(r) /\ c[1] = r[p + 1]
  BY <1>1, EmptySeq DEF Lines
<1>3. r[1] \in Tokens /\ r[1] # "CR" /\ r[2] = "CR"
  <2>1. 0 \in 0 .. n - 1 /\ 3 * 0 + 1 = 1 /\ 3 * 0 + 2 = 2
    BY <1>1, <1>2
  <2> QED
    BY <1>1, <2>1, LineStarts
<1> DEFINE g == GetLine(q, c)
           t == r[1]
           h == OnExpectRequestLine(q, c)
<1>4. \/ q.line = << >> /\ c = <<t>> /\ g.line = Null /\ g.begin = Null
      \/ /\ g.line = <<t>> /\ g.line # Null
         /\ \E m \in 0 .. Len(c) : /\ m = IF q.line = << >> THEN 3 ELSE 2
                                   /\ g.begin = SubSeq(c, m + 1, Len(c))
  <2>1. \/ q.line = << >> /\ c[1] = t /\ (Len(c) >= 2 => c[2] = "CR")
        \/ q.line = <<t>> /\ c[1] = "CR"
    <3>1. CASE p = 0 /\ q.line = << >>
      BY <1>1, <1>2, <1>3, <3>1
    <3>2. CASE p = 1 /\ q.line = <<t>>
      BY <1>2, <1>3, <3>2
    <3> QED
      BY <1>1, <3>1, <3>2
  <2> HIDE DEF t
  <2>2. t \in Tokens /\ t # "CR"
    BY <1>3 DEF t
  <2> QED
    BY <1>1, <2>1, <2>2, LineRead
<1>5. /\ h.begin = g.begin
      /\ h.req = CASE g.line # Null -> ParseRequestLine(q, g.line)
                   [] g.line = Null /\ NoSuchMethod(Kept(q, c).line) ->
                        [Kept(q, c) EXCEPT !.state = "eError", !.line = << >>]
                   [] OTHER -> Kept(q, c)
      /\ h = [begin |-> h.begin, req |-> h.req]
  BY DEF OnExpectRequestLine
<1>6. ParseStep(q, c) = IF h.req.state = "eError" /\ h.begin \notin {Null, Beyond}
                          THEN [h EXCEPT !.req.method = "eINVALID"] ELSE h
  <2>1. Handled(q, c) = h
    BY DEF Handled
  <2> QED
    BY <2>1 DEF ParseStep
<1> HIDE DEF g, h, t
<1>7. t \in Tokens /\ Len(<<t>>) = 1 /\ <<t>>[1] = t /\ <<t>> # << >>
  BY <1>3 DEF t
<1>8. CASE q.line = << >> /\ c = <<t>> /\ g.line = Null /\ g.begin = Null
  <2>1. Len(c) = 1 /\ t # "BAD" /\ p = 0
    BY <1>1, <1>7, <1>8
  <2>2. Kept(q, c) = [q EXCEPT !.line = <<t>>]
    <3>1. q.line \o c = <<t>>
      <4>1. << >> \o <<t>> = <<t>>
        OBVIOUS
      <4> QED
        BY <1>8, <4>1
    <3>2. ~Overlong(<<t>>)
      BY <1>7, OneTokenIsShort
    <3> QED
      BY <3>1, <3>2 DEF Kept
  <2>3. Kept(q, c).line = <<t>>
    BY <1>1, <2>2 DEF RequestRecords
  <2>4. ~NoSuchMethod(<<t>>)
    <3>1. t \in Methods \cup {"NOURL"}
      BY <1>1, <2>1 DEF Lines, t
    <3> QED
      BY <1>7, <3>1 DEF NoSuchMethod
  <2>5. h.req = [q EXCEPT !.line = <<t>>] /\ h.begin = Null
    BY <1>5, <1>8, <2>2, <2>3, <2>4
  <2>6. /\ h.req.state = "eExpectRequestLine" /\ h.req.method = "eINVALID"
        /\ h.req.headers = {} /\ h.req.line = <<t>>
    BY <1>1, <2>5 DEF RequestRecords
  <2>7. ParseStep(q, c) = h
    BY <1>6, <2>6
  <2>8. p + Len(c) = 1
    BY <2>1
  <2>9. AtStart(r, 1, h.req)
    BY <2>1, <2>6 DEF AtStart, t
  <2>10. Parsed(r, n, 1, h.req)
    BY <2>6, <2>9 DEF Parsed
  <2> QED
    BY <2>5, <2>7, <2>8, <2>10 DEF Advances
<1>9. CASE g.line = <<t>> /\ g.line # Null
           /\ \E m \in 0 .. Len(c) : /\ m = IF q.line = << >> THEN 3 ELSE 2
                                     /\ g.begin = SubSeq(c, m + 1, Len(c))
  <2>1. PICK m \in 0 .. Len(c) : /\ m = IF q.line = << >> THEN 3 ELSE 2
                                 /\ g.begin = SubSeq(c, m + 1, Len(c))
    BY <1>9
  <2>2. p + m = 3
    <3>1. CASE p = 0 /\ q.line = << >>
      BY <2>1, <3>1
    <3>2. CASE p = 1 /\ q.line = <<r[1]>>
      <4>1. q.line # << >>
        BY <3>2
      <4> QED
        BY <2>1, <3>2, <4>1
    <3> QED
      BY <1>1, <3>1, <3>2
  <2>3. SubSeq(c, m + 1, Len(c)) \notin {Null, Beyond}
    <3>1. SubSeq(c, m + 1, Len(c)) \in Seq(Tokens)
      BY <1>1, Parts
    <3> QED
      BY <3>1, NullIsNoChunk
  <2>4. h.req = ParseRequestLine(q, <<t>>) /\ h.begin = SubSeq(c, m + 1, Len(c))
    BY <1>5, <1>9, <2>1
  <2>5. CASE t \in Methods
    <3>1. h.req = [q EXCEPT !.state = "eReadingHeaders", !.method = t, !.line = << >>]
      BY <1>7, <2>4, <2>5 DEF ParseRequestLine
    <3>2. /\ h.req.state = "eReadingHeaders" /\ h.req.method = t
          /\ h.req.headers = {} /\ h.req.line = << >>
      BY <1>1, <3>1 DEF RequestRecords
    <3>3. ParseStep(q, c) = h
      BY <1>6, <3>2
    <3>4. ~BadStart(r) /\ (1 = n => Ends(r, n)) /\ FieldsOf(r, 1) = {}
      <4>1. ~BadStart(r)
        BY <2>5 DEF BadStart, t
      <4>2. 2 .. 1 = {}
        OBVIOUS
      <4> QED
        BY <1>1, <4>1, <4>2 DEF Breaks, FieldsOf
    <3>5. 1 \in 1 .. n /\ 3 * 1 = 3
      BY <1>1
    <3>6. InHeaders(r, n, 3, h.req)
      BY <3>2, <3>4, <3>5 DEF InHeaders, t
    <3>7. Parsed(r, n, 3, h.req)
      BY <3>2, <3>6 DEF Parsed
    <3> QED
      BY <2>2, <2>4, <3>3, <3>7 DEF Advances
  <2>6. CASE t \notin Methods
    <3>1. h.req = [q EXCEPT !.state = "eError", !.line = << >>]
      BY <1>7, <2>4, <2>6 DEF ParseRequestLine
    <3>2. h.req \in RequestRecords /\ h.req.state = "eError"
      <4>1. << >> \in Seq(Tokens)
        OBVIOUS
      <4> QED
        BY <1>1, <3>1, <4>1 DEF RequestRecords, States
    <3>3. ParseStep(q, c) = [h EXCEPT !.req.method = "eINVALID"]
      BY <1>6, <2>3, <2>4, <3>2
    <3> DEFINE s == ParseStep(q, c)
    <3>4. s.begin = h.begin /\ s.req = [h.req EXCEPT !.method = "eINVALID"]
      BY <1>5, <3>3
    <3>5. s.req.state = "eError" /\ s.req.method = "eINVALID"
      <4> HIDE DEF s
      <4> QED
        BY <3>2, <3>4 DEF RequestRecords
    <3>6. BadStart(r)
      BY <2>6 DEF BadStart, t
    <3>7. Breaks(r, n) /\ n = 1
      BY <1>1, <3>6 DEF Breaks, Ends
    <3>8. Len(r) = 3
      BY <3>7 DEF Breaks
    <3>9. Parsed(r, n, 3, s.req)
      <4> HIDE DEF s
      <4> QED
        BY <3>5, <3>7, <3>8 DEF Parsed
    <3> QED
      BY <2>2, <2>4, <3>4, <3>9 DEF Advances
  <2> QED
    BY <2>5, <2>6
<1> QED
  BY <1>4, <1>8, <1>9

LEMMA HeadersRead ==
  ASSUME NEW r, NEW n, NEW p, NEW q, NEW c, Midway(r, n, p, q, c), c # << >>,
         q.state = "eReadingHeaders"
  PROVE  Advances(r, n, p, c, ParseStep(q, c))
<1>1. /\ r \in Seq(Tokens) /\ n \in 1 .. Len(r) /\ Lines(r, n) /\ (Breaks(r, n) \/ Ends(r, n))
      /\ q \in RequestRecords /\ q.method = r[1] /\ ~BadStart(r) /\ q.content = 0
      /\ c \in Seq(Tokens) /\ p + Len(c) <= Len(r) /\ \A i \in 1 .. Len(c) : c[i] = r[p + i]
      /\ c[Len(c)] # "CR"
  BY DEF Midway, Parsed, InHeaders, Sound
<1>2. Len(c) \in Nat \ {0} /\ Len(r) \in Nat /\ 3 * n <= Len(r) /\ c[1] = r[p + 1]
  BY <1>1, EmptySeq DEF Lines
<1>3. PICK k \in 1 .. n :
        /\ q.headers = FieldsOf(r, k)
        /\ \/ p = 3 * k /\ q.line = << >> /\ (k = n => Ends(r, n))
           \/ k < n /\ p = 3 * k + 1 /\ q.line = <<r[p]>>
  BY DEF Midway, Parsed, InHeaders
<1> DEFINE g == GetLine(q, c)
           h == OnReadingHeaders(q, c)
<1>5. /\ h.begin = g.begin
      /\ h.req = IF g.line = Null THEN Kept(q, c) ELSE ParseHeader(q, g.line)
      /\ h = [begin |-> h.begin, req |-> h.req]
  BY DEF OnReadingHeaders
<1>6. ParseStep(q, c) = IF h.req.state = "eError" /\ h.begin \notin {Null, Beyond}
                          THEN [h EXCEPT !.req.method = "eINVALID"] ELSE h
  <2>1. Handled(q, c) = h
    BY DEF Handled
  <2> QED
    BY <2>1 DEF ParseStep
<1>7. << >> \in Seq(Tokens)
  OBVIOUS
<1>8. CASE k = n /\ p = 3 * k /\ q.line = << >> /\ Ends(r, n)
  <2>1. c[1] = "CR"
    BY <1>2, <1>8 DEF Ends
  <2>2. g.line = << >> /\ g.line # Null /\ g.begin = SubSeq(c, 3, Len(c)) /\ Len(c) >= 2
    BY <1>1, <1>8, <2>1, EndRead
  <2> HIDE DEF g, h
  <2>3. h.req = [q EXCEPT !.state = "eReadingBody", !.line = << >>]
        /\ h.begin = SubSeq(c, 3, Len(c))
    BY <1>5, <2>2 DEF ParseHeader
  <2>4. /\ h.req.state = "eReadingBody" /\ h.req.method = r[1]
        /\ h.req.headers = FieldsOf(r, n) /\ h.req.content = 0
    BY <1>1, <1>3, <1>8, <2>3 DEF RequestRecords
  <2>5. ParseStep(q, c) = h
    BY <1>6, <2>4
  <2>6. Parsed(r, n, p + 2, h.req)
    <3>1. p + 2 = 3 * n + 2 + 0
      BY <1>1, <1>8
    <3> QED
      BY <1>8, <2>4, <3>1 DEF Parsed, Known
  <2>7. 2 \in 0 .. Len(c) /\ 2 + 1 = 3
    BY <1>2, <2>2
  <2> QED
    BY <2>3, <2>5, <2>6, <2>7 DEF Advances
<1>9. CASE k < n
  <2> DEFINE t == r[3 * k + 1]
  <2>1. k \in 0 .. n - 1 /\ k > 0 /\ k + 1 \in 1 .. n
    BY <1>1, <1>2, <1>9
  <2>2. /\ t \in Tokens /\ t # "CR" /\ r[3 * k + 2] = "CR" /\ 3 * k + 3 <= Len(r)
        /\ t \in Fields => FieldsOf(r, k + 1) = FieldsOf(r, k) \cup {t}
        /\ IF t \in Fields THEN k + 1 = n => Ends(r, n) ELSE k + 1 = n /\ Breaks(r, n)
    <3>1. /\ r[3 * k + 1] \in Tokens /\ r[3 * k + 1] # "CR"
          /\ r[3 * k + 2] = "CR" /\ 3 * k + 3 <= Len(r)
          /\ k > 0 /\ r[3 * k + 1] \in Fields =>
               FieldsOf(r, k + 1) = FieldsOf(r, k) \cup {r[3 * k + 1]}
          /\ k > 0 =>
               IF r[3 * k + 1] \in Fields THEN k + 1 = n => Ends(r, n)
               ELSE k + 1 = n /\ Breaks(r, n)
      BY <1>1, <2>1, LineStarts
    <3> QED
      BY <2>1, <3>1
  <2>3. \/ p = 3 * k /\ q.line = << >>
        \/ p = 3 * k + 1 /\ q.line = <<t>>
    BY <1>3
  <2>4. \/ q.line = << >> /\ c[1] = t /\ (Len(c) >= 2 => c[2] = "CR")
        \/ q.line = <<t>> /\ c[1] = "CR"
    <3>1. CASE p = 3 * k /\ q.line = << >>
      <4>1. c[1] = t
        BY <1>2, <3>1
      <4>2. Len(c) >= 2 => c[2] = r[p + 2]
        BY <1>1, <1>2
      <4> QED
        BY <2>2, <3>1, <4>1, <4>2
    <3>2. CASE p = 3 * k + 1 /\ q.line = <<t>>
      <4>1. p + 1 = 3 * k + 2
        BY <1>1, <3>2
      <4> QED
        BY <1>2, <2>2, <3>2, <4>1
    <3> QED
      BY <2>3, <3>1, <3>2
  <2> HIDE DEF t
  <2>5. \/ q.line = << >> /\ c = <<t>> /\ g.line = Null /\ g.begin = Null
        \/ /\ g.line = <<t>> /\ g.line # Null
           /\ \E m \in 0 .. Len(c) : /\ m = IF q.line = << >> THEN 3 ELSE 2
                                     /\ g.begin = SubSeq(c, m + 1, Len(c))
    BY <1>1, <2>2, <2>4, LineRead
  <2> HIDE DEF g, h
  <2>6. Len(<<t>>) = 1 /\ <<t>>[1] = t /\ <<t>> # << >>
    OBVIOUS
  <2>7. CASE q.line = << >> /\ c = <<t>> /\ g.line = Null /\ g.begin = Null
    <3>1. Len(c) = 1 /\ p = 3 * k
      BY <2>3, <2>6, <2>7
    <3>2. Kept(q, c) = [q EXCEPT !.line = <<t>>]
      <4>1. q.line \o c = <<t>>
        <5>1. << >> \o <<t>> = <<t>>
          OBVIOUS
        <5> QED
          BY <2>7, <5>1
      <4>2. ~Overlong(<<t>>)
        BY <2>6, OneTokenIsShort
      <4> QED
        BY <4>1, <4>2 DEF Kept
    <3>3. h.req = [q EXCEPT !.line = <<t>>] /\ h.begin = Null
      BY <1>5, <2>7, <3>2
    <3>4. /\ h.req.state = "eReadingHeaders" /\ h.req.method = r[1]
          /\ h.req.headers = FieldsOf(r, k) /\ h.req.line = <<t>>
      BY <1>1, <1>3, <3>3 DEF RequestRecords
    <3>5. ParseStep(q, c) = h
      BY <1>6, <3>4
    <3>6. p + Len(c) = 3 * k + 1
      BY <2>1, <3>1
    <3>7. InHeaders(r, n, 3 * k + 1, h.req)
      BY <1>1, <1>9, <3>4 DEF InHeaders, t
    <3>8. Parsed(r, n, 3 * k + 1, h.req)
      BY <3>4, <3>7 DEF Parsed
    <3> QED
      BY <3>3, <3>5, <3>6, <3>8 DEF Advances
  <2>8. CASE g.line = <<t>> /\ g.line # Null
             /\ \E m \in 0 .. Len(c) : /\ m = IF q.line = << >> THEN 3 ELSE 2
                                       /\ g.begin = SubSeq(c, m + 1, Len(c))
    <3>1. PICK m \in 0 .. Len(c) : /\ m = IF q.line = << >> THEN 3 ELSE 2
                                   /\ g.begin = SubSeq(c, m + 1, Len(c))
      BY <2>8
    <3>2. p + m = 3 * (k + 1)
      <4>1. CASE p = 3 * k /\ q.line = << >>
        BY <2>1, <3>1, <4>1
      <4>2. CASE p = 3 * k + 1 /\ q.line = <<t>>
        <5>1. q.line # << >>
          BY <4>2
        <5>2. m = 2
          BY <3>1, <5>1
        <5> QED
          BY <2>1, <4>2, <5>2
      <4> QED
        BY <2>3, <4>1, <4>2 DEF t
    <3>3. SubSeq(c, m + 1, Len(c)) \notin {Null, Beyond}
      <4>1. SubSeq(c, m + 1, Len(c)) \in Seq(Tokens)
        BY <1>1, Parts
      <4> QED
        BY <4>1, NullIsNoChunk
    <3>4. h.req = ParseHeader(q, <<t>>) /\ h.begin = SubSeq(c, m + 1, Len(c))
      BY <1>5, <2>8, <3>1
    <3>5. CASE t \in Fields
      <4> DEFINE f == FieldsOf(r, k) \cup {t}
      <4>1. h.req = [q EXCEPT !.line = << >>, !.headers = f]
        <5>1. ~(\A i \in 1 .. Len(<<t>>) : <<t>>[i] \notin Fields)
          BY <2>6, <3>5
        <5>2. h.req = [q EXCEPT !.line = << >>,
                                !.headers = IF Len(<<t>>) = 1 THEN @ \cup {<<t>>[1]} ELSE @]
          BY <2>6, <3>4, <5>1 DEF ParseHeader
        <5> QED
          BY <1>1, <1>3, <2>6, <5>2 DEF RequestRecords
      <4> HIDE DEF f
      <4>2. /\ h.req.state = "eReadingHeaders" /\ h.req.method = r[1]
            /\ h.req.headers = f /\ h.req.line = << >>
        BY <1>1, <4>1 DEF RequestRecords
      <4>3. ParseStep(q, c) = h
        BY <1>6, <4>2
      <4>4. f = FieldsOf(r, k + 1) /\ (k + 1 = n => Ends(r, n))
        BY <2>2, <3>5 DEF f
      <4>5. InHeaders(r, n, 3 * (k + 1), h.req)
        BY <1>1, <2>1, <4>2, <4>4 DEF InHeaders
      <4>6. Parsed(r, n, 3 * (k + 1), h.req)
        BY <4>2, <4>5 DEF Parsed
      <4> QED
        BY <3>2, <3>4, <4>3, <4>6 DEF Advances
    <3>6. CASE t \notin Fields
      <4>1. h.req = [q EXCEPT !.state = "eError", !.line = << >>]
        <5>1. \A i \in 1 .. Len(<<t>>) : <<t>>[i] \notin Fields
          BY <2>6, <3>6
        <5> QED
          BY <2>6, <3>4, <5>1 DEF ParseHeader
      <4>2. h.req \in RequestRecords /\ h.req.state = "eError"
        BY <1>1, <1>7, <4>1 DEF RequestRecords, States
      <4>3. ParseStep(q, c) = [h EXCEPT !.req.method = "eINVALID"]
        BY <1>6, <3>3, <3>4, <4>2
      <4> DEFINE s == ParseStep(q, c)
      <4>4. s.begin = h.begin /\ s.req = [h.req EXCEPT !.method = "eINVALID"]
        BY <1>5, <4>3
      <4>5. s.req.state = "eError" /\ s.req.method = "eINVALID"
        <5> HIDE DEF s
        <5> QED
          BY <4>2, <4>4 DEF RequestRecords
      <4>6. k + 1 = n /\ Breaks(r, n)
        BY <2>2, <3>6
      <4>7. Len(r) = 3 * (k + 1)
        BY <4>6 DEF Breaks
      <4>8. Parsed(r, n, 3 * (k + 1), s.req)
        <5> HIDE DEF s
        <5> QED
          BY <4>5, <4>6, <4>7 DEF Parsed
      <4> QED
        BY <3>2, <3>4, <4>4, <4>8 DEF Advances
    <3> QED
      BY <3>5, <3>6
  <2> QED
    BY <2>5, <2>7, <2>8
<1> QED
  <2>1. k = n \/ k < n
    BY <1>1
  <2> QED
    BY <1>1, <1>3, <1>8, <1>9, <2>1

LEMMA BodyReads ==
  ASSUME NEW r, NEW n, NEW p, NEW q, NEW c, Midway(r, n, p, q, c),
         q.state = "eReadingBody"
  PROVE  Advances(r, n, p, c, ParseStep(q, c))
<1>1. /\ r \in Seq(Tokens) /\ n \in 1 .. Len(r) /\ q \in RequestRecords
      /\ Ends(r, n) /\ q.method = r[1] /\ q.headers = FieldsOf(r, n)
      /\ p = 3 * n + 2 + q.content /\ q.content \in Nat
      /\ c \in Seq(Tokens) /\ p + Len(c) <= Len(r)
  BY DEF Midway, Parsed, Known, RequestRecords
<1> DEFINE length == ContentLength(q)
           need   == length - q.content
<1>2. length \in Nat /\ Len(r) = 3 * n + 2 + length /\ Len(c) \in Nat
  <2>1. length = BodyOf(r, n)
    BY <1>1 DEF ContentLength, BodyOf
  <2>2. length \in Nat
    BY <1>1, ContentLengthFacts, HttpAssumption
  <2> QED
    BY <1>1, <2>1, <2>2 DEF Ends
<1> HIDE DEF length
<1>3. Len(c) <= need /\ p + need = Len(r) /\ need \in Nat
  BY <1>1, <1>2
<1> DEFINE h == OnReadingBody(q, c)
<1>4. h = IF need <= Len(c)
            THEN [req |-> [q EXCEPT !.content = @ + need, !.state = "eResponsing"],
                  begin |-> SubSeq(c, need + 1, Len(c))]
            ELSE [req |-> [q EXCEPT !.content = @ + Len(c)], begin |-> Null]
  BY DEF OnReadingBody, length
<1>5. ParseStep(q, c) = IF h.req.state = "eError" /\ h.begin \notin {Null, Beyond}
                          THEN [h EXCEPT !.req.method = "eINVALID"] ELSE h
  <2>1. Handled(q, c) = h
    BY DEF Handled
  <2> QED
    BY <2>1 DEF ParseStep
<1> HIDE DEF h, need
<1>6. CASE need <= Len(c)
  <2>1. /\ h.req = [q EXCEPT !.content = q.content + need, !.state = "eResponsing"]
        /\ h.begin = SubSeq(c, need + 1, Len(c))
    BY <1>1, <1>4, <1>6 DEF RequestRecords
  <2>2. /\ h.req.state = "eResponsing" /\ h.req.method = r[1]
        /\ h.req.headers = FieldsOf(r, n)
    BY <1>1, <2>1 DEF RequestRecords
  <2>3. ParseStep(q, c) = h
    BY <1>5, <2>2
  <2>4. Parsed(r, n, p + need, h.req) /\ need \in 0 .. Len(c)
    BY <1>1, <1>2, <1>3, <1>6, <2>2 DEF Parsed, Known
  <2> QED
    BY <2>1, <2>3, <2>4 DEF Advances
<1>7. CASE ~(need <= Len(c))
  <2>1. h.req = [q EXCEPT !.content = q.content + Len(c)] /\ h.begin = Null
    BY <1>1, <1>4, <1>7 DEF RequestRecords
  <2>2. /\ h.req.state = "eReadingBody" /\ h.req.method = r[1]
        /\ h.req.headers = FieldsOf(r, n) /\ h.req.content = q.content + Len(c)
    BY <1>1, <2>1 DEF RequestRecords
  <2>3. ParseStep(q, c) = h
    BY <1>5, <2>2
  <2>4. p + Len(c) = 3 * n + 2 + h.req.content
    BY <1>1, <1>2, <2>2
  <2>5. Parsed(r, n, p + Len(c), h.req)
    BY <1>1, <2>2, <2>4 DEF Parsed, Known
  <2> QED
    BY <2>1, <2>3, <2>5 DEF Advances
<1> QED
  BY <1>6, <1>7

-----------------------------------------------------------------------------
(* The actions: each of them keeps TInv.                                   *)

LEMMA TInvInit == Init => TInv
<1> SUFFICES ASSUME Init PROVE TInv
  OBVIOUS
<1>1. Parsing
  BY DEF Init, Parsing, Idling, Bytes
<1>2. Routing /\ HandedOver /\ Fed /\ OnlyWildClientsFail
  BY DEF Init, Routing, HandedOver, Fed, OnlyWildClientsFail, Early
<1>3. AnswerFits
  BY DEF Init, AnswerFits
<1> QED
  BY <1>1, <1>2, <1>3 DEF TInv

LEMMA BytesFacts ==
  ASSUME IInv
  PROVE  /\ Bytes \in Seq(Tokens) /\ Len(Bytes) \in Nat
         /\ rest \in Seq(Tokens) => Bytes = rest
<1>1. rest \in Seq(Tokens) => Bytes = rest
  BY NullIsNoChunk DEF Bytes
<1>2. rest \notin Seq(Tokens) => Bytes = << >>
  BY DEF IInv, Types, Bytes
<1>3. << >> \in Seq(Tokens)
  OBVIOUS
<1>4. Bytes \in Seq(Tokens)
  BY <1>1, <1>2, <1>3
<1> QED
  BY <1>1, <1>4

(* The request that is pending. *)
LEMMA PendingFacts ==
  ASSUME IInv, Len(sent) = done + 1
  PROVE  Pending \in Seq(Tokens) /\ Len(Pending) \in Nat /\ Len(inbox) \in Nat
<1>1. sent \in Seq(Requests) /\ done \in Nat /\ inbox \in Seq(Tokens)
  BY DEF IInv, Types
<1>2. Pending \in Requests
  BY <1>1 DEF Pending
<1>3. Pending \in Seq(Tokens)
  BY <1>2, HttpAssumption
<1> QED
  BY <1>1, <1>3

(* What AnswerFits says of one answer. *)
Fitting(r, status) ==
  /\ status = 400 <=> Malformed(r)
  /\ status = 200 => r[1] \in {"GET", "POST"}
  /\ status \in {307, 401} => ~Has(r, "cookie")
  /\ status = 101 <=> upgrades /\ ~Malformed(r) /\ Has(r, "cookie") /\ Has(r, "handshake")

LEMMA FittingAnswers ==
  AnswerFits <=> (tame /\ ~split =>
                    \A k \in 1 .. Len(out) : Fitting(sent[k], out[k].status))
BY DEF AnswerFits, Fitting

(* When the parser has come to an end it has used all that has been sent,  *)
(* and knows the request for what it is.                                   *)
LEMMA Settled ==
  ASSUME IInv, Parsing, tame, ~split, failed = "none", conn # "upgraded",
         req.state \in Finals
  PROVE  /\ Len(sent) = done + 1 /\ inbox = << >> /\ Bytes = << >>
         /\ \A status : Suits(status) => Fitting(Pending, status)
<1>1. ~Idling
  BY DEF Idling, NewRequest, Finals
<1>2. Len(sent) = done + 1 /\ Reading(Pending, Place)
  BY <1>1 DEF Parsing
<1>3. PICK n \in 1 .. Len(Pending) :
        /\ Lines(Pending, n) /\ (Breaks(Pending, n) \/ Ends(Pending, n))
        /\ Parsed(Pending, n, Place, req)
  BY <1>2 DEF Reading
<1>4. /\ Pending \in Seq(Tokens) /\ Len(Pending) \in Nat /\ Len(inbox) \in Nat
      /\ Len(Bytes) \in Nat /\ Bytes \in Seq(Tokens) /\ inbox \in Seq(Tokens)
  BY <1>2, PendingFacts, BytesFacts DEF IInv, Types
<1>5. Place = Len(Pending)
  BY <1>3 DEF Parsed, Finals
<1>6. Len(inbox) = 0 /\ Len(Bytes) = 0
  BY <1>4, <1>5 DEF Place
<1>7. inbox = << >> /\ Bytes = << >>
  BY <1>4, <1>6, EmptySeq
<1>8. ASSUME NEW status, Suits(status) PROVE Fitting(Pending, status)
  <2>1. CASE req.state = "eError"
    <3>1. Malformed(Pending) /\ req.method = "eINVALID"
      BY <1>3, <1>4, <2>1, BrokenMessage DEF Parsed
    <3>2. status = 400
      BY <1>8, <3>1 DEF Suits
    <3> QED
      BY <3>1, <3>2 DEF Fitting
  <2>2. CASE req.state = "eResponsing"
    <3>1. Ends(Pending, n) /\ req.method = Pending[1] /\ req.headers = FieldsOf(Pending, n)
      BY <1>3, <2>2 DEF Parsed, Known
    <3>2. /\ ~Malformed(Pending) /\ Pending[1] \in Methods
          /\ \A t \in Fields : Has(Pending, t) <=> t \in FieldsOf(Pending, n)
      BY <1>3, <1>4, <3>1, WholeMessage
    <3>3. req.method # "eINVALID"
      BY <3>1, <3>2 DEF Methods
    <3>4. /\ Has(Pending, "cookie") <=> "cookie" \in req.headers
          /\ Has(Pending, "handshake") <=> "handshake" \in req.headers
      <4>1. "cookie" \in Fields /\ "handshake" \in Fields
        BY DEF Fields
      <4> QED
        BY <3>1, <3>2, <4>1
    <3>5. HandShakes <=> "handshake" \in req.headers
      BY DEF HandShakes, NeedUpgrade, CheckHandShake
    <3>6. Upgrading <=> upgrades /\ Has(Pending, "cookie") /\ Has(Pending, "handshake")
      BY <3>4, <3>5 DEF Upgrading, Identified
    <3>7. status # 400
      BY <1>8, <3>3 DEF Suits
    <3>8. status = 200 => Pending[1] \in {"GET", "POST"}
      BY <1>8, <3>1 DEF Suits
    <3>9. status \in {307, 401} => ~Has(Pending, "cookie")
      BY <1>8, <3>4 DEF Suits, Identified
    <3>10. status = 101 <=> Upgrading
      BY <1>8, <3>3 DEF Suits
    <3> QED
      BY <3>2, <3>6, <3>7, <3>8, <3>9, <3>10 DEF Fitting
  <2> QED
    BY <2>1, <2>2 DEF Finals
<1> QED
  BY <1>2, <1>7, <1>8

(* Only SetStatusCode can fail a tame client. *)
LEMMA WildStands ==
  ASSUME IInv', failed' # "SetStatusCode"
  PROVE  OnlyWildClientsFail'
BY DEF IInv, Failures, OnlyWildClientsFail

(* A step that leaves the request and its bytes as they are. *)
LEMMA ParsingStands ==
  ASSUME Parsing, failed = "none", conn # "upgraded",
         UNCHANGED <<sent, inbox, req, done, tame, split>>, Bytes' = Bytes
  PROVE  Parsing'
<1>1. Pending' = Pending /\ Place' = Place
  BY DEF Pending, Place
<1>2. Idling => Idling'
  BY DEF Idling
<1>3. Reading(Pending, Place) => Reading(Pending, Place)'
  BY <1>1 DEF Reading, Follows
<1> QED
  BY <1>2, <1>3 DEF Parsing

LEMMA FitsStand ==
  ASSUME AnswerFits, UNCHANGED <<upgrades, sent, out, tame>>, split => split'
  PROVE  AnswerFits'
BY DEF AnswerFits

LEMMA SendFits ==
  ASSUME IInv, IInv', TInv, NEW r \in Requests, Send(r) PROVE TInv'
<1>1. /\ failed = "none" /\ conn # "upgraded" /\ sent' = Append(sent, r)
      /\ inbox' = inbox \o r /\ tame' = (tame /\ Tame(r) /\ done = Len(sent))
      /\ UNCHANGED <<upgrades, req, res, task, wake, out, done, changed, rest, loop, conn,
                     failed, split>>
  BY DEF Send, session
<1>2. /\ r \in Seq(Tokens) /\ Len(r) \in Nat /\ sent \in Seq(Requests) /\ done \in Nat
      /\ out \in Seq(Answers)
  BY HttpAssumption DEF IInv, Types
<1>3. ASSUME tame', ~split'
      PROVE  /\ tame /\ ~split /\ Tame(r) /\ Idling
             /\ \A k \in 1 .. done : sent'[k] = sent[k]
             /\ sent'[done + 1] = r /\ Len(sent') = done + 1
  <2>1. tame /\ ~split /\ Tame(r) /\ done = Len(sent)
    BY <1>1, <1>3
  <2>2. Idling
    BY <1>1, <1>2, <2>1 DEF TInv, Parsing
  <2> QED
    BY <1>1, <1>2, <2>1, <2>2
<1>4. Parsing'
  <2> SUFFICES ASSUME tame', ~split'
               PROVE  Len(sent') = done' + 1 /\ Reading(Pending, Place)'
    BY DEF Parsing
  <2>1. /\ Tame(r) /\ Idling /\ sent'[done + 1] = r /\ Len(sent') = done + 1
    BY <1>3
  <2>2. Pending' = r /\ Bytes' = << >> /\ req' = NewRequest
    BY <1>1, <2>1 DEF Pending, Bytes, Idling
  <2>3. inbox' = r
    BY <1>1, <1>2, <2>1, ConcatEmptySeq DEF Idling
  <2>4. Place' = 0
    <3>1. Len(Pending') = Len(r) /\ Len(inbox') = Len(r) /\ Len(Bytes') = 0
      BY <2>2, <2>3
    <3>2. Place' = Len(Pending') - Len(inbox') - Len(Bytes')
      BY DEF Place
    <3> QED
      BY <1>2, <3>1, <3>2
  <2>5. PICK n \in 1 .. Len(r) : Lines(r, n) /\ (Breaks(r, n) \/ Ends(r, n))
    BY <2>1 DEF Tame
  <2>6. Parsed(r, n, 0, NewRequest)
    BY DEF Parsed, AtStart, NewRequest
  <2>7. Follows(r, 0)'
    <3>1. Len(inbox') = Len(r) /\ \A i \in 1 .. Len(r) : Len(r) - Len(r) + i = i
      BY <1>2, <2>3
    <3>2. \A i \in 1 .. Len(inbox') : inbox'[i] = r[Len(r) - Len(inbox') + i]
      BY <2>3, <3>1
    <3>3. \A i \in 1 .. Len(Bytes') : Bytes'[i] = r[0 + i]
      BY <2>2
    <3> QED
      BY <3>2, <3>3 DEF Follows
  <2> QED
    BY <1>1, <1>2, <2>1, <2>2, <2>4, <2>5, <2>6, <2>7 DEF Reading
<1>5. Routing' /\ HandedOver' /\ Fed'
  BY <1>1 DEF TInv, Routing, HandedOver, Fed, Suits, Upgrading, Identified, HandShakes
<1>6. OnlyWildClientsFail'
  BY <1>1, WildStands
<1>7. ASSUME tame', ~split', NEW k \in 1 .. Len(out)
      PROVE  Fitting(sent'[k], out[k].status)
  <2>1. tame /\ ~split /\ Idling /\ \A j \in 1 .. done : sent'[j] = sent[j]
    BY <1>3, <1>7
  <2>2. task = "none"
    BY <2>1 DEF IInv, Chain, Idling, NewRequest, Finals
  <2>3. Len(out) = done
    BY <1>1, <2>2 DEF IInv, Locks, Counting
  <2>4. Fitting(sent[k], out[k].status)
    BY <2>1, FittingAnswers DEF TInv
  <2> QED
    BY <1>1, <2>1, <2>3, <2>4
<1>8. AnswerFits'
  <2>1. upgrades' = upgrades /\ out' = out
    BY <1>1
  <2>2. tame' /\ ~split' => \A k \in 1 .. Len(out) : Fitting(sent'[k], out[k].status)
    BY <1>7
  <2> QED
    BY <2>1, <2>2 DEF AnswerFits, Fitting
<1> QED
  BY <1>4, <1>5, <1>6, <1>8 DEF TInv

LEMMA ReadFits ==
  ASSUME IInv, IInv', TInv, NEW n \in 1 .. Len(inbox), Read(n) PROVE TInv'
<1>1. /\ failed = "none" /\ loop = "idle" /\ conn \in {"open", "closing"}
      /\ rest' = SubSeq(inbox, 1, n) /\ inbox' = SubSeq(inbox, n + 1, Len(inbox))
      /\ loop' = "parse" /\ conn' \in {"open", "shutting"}
      /\ split => split'
      /\ UNCHANGED <<upgrades, req, res, task, wake, out, done, changed, sent, failed, tame>>
  BY DEF Read, session
<1>2. inbox \in Seq(Tokens) /\ Len(inbox) \in Nat /\ n \in 0 .. Len(inbox)
  BY DEF IInv, Types
<1>3. /\ rest' \in Seq(Tokens) /\ Len(rest') = n /\ \A i \in 1 .. n : rest'[i] = inbox[i]
      /\ Len(inbox') = Len(inbox) - n
      /\ \A i \in 1 .. Len(inbox) - n : inbox'[i] = inbox[n + i]
  BY <1>1, <1>2, Parts
<1>4. Bytes = << >> /\ Bytes' = rest'
  BY <1>1, <1>3, NullIsNoChunk DEF Bytes, IInv, Chunk
<1>5. Parsing'
  <2> SUFFICES ASSUME tame', ~split'
               PROVE  Len(sent') = done' + 1 /\ Reading(Pending, Place)'
    BY DEF Parsing
  <2>1. ~Idling
    BY <1>2 DEF Idling
  <2>2. Len(sent) = done + 1 /\ Reading(Pending, Place)
    BY <1>1, <2>1 DEF TInv, Parsing
  <2> DEFINE r == Pending
             p == Place
  <2>3. Pending' = r /\ Len(r) \in Nat
    BY <1>1, <2>2, PendingFacts DEF Pending
  <2>4. p = Len(r) - Len(inbox)
    BY <1>2, <1>4, <2>3 DEF Place
  <2>5. Place' = Len(r) - (Len(inbox) - n) - n
    BY <1>3, <1>4, <2>3 DEF Place
  <2>6. /\ p \in 0 .. Len(r)
        /\ \A i \in 1 .. Len(inbox) : inbox[i] = r[Len(r) - Len(inbox) + i]
        /\ \E m \in 1 .. Len(r) :
             Lines(r, m) /\ (Breaks(r, m) \/ Ends(r, m)) /\ Parsed(r, m, p, req)
    BY <2>2 DEF Reading, Follows
  <2> HIDE DEF r, p
  <2>7. Place' = p
    BY <1>2, <2>3, <2>4, <2>5
  <2>8. ASSUME NEW i \in 1 .. n PROVE rest'[i] = r[p + i]
    BY <1>2, <1>3, <2>4, <2>6
  <2>9. ASSUME NEW i \in 1 .. Len(inbox) - n
        PROVE  inbox'[i] = r[Len(r) - (Len(inbox) - n) + i]
    <3>1. n + i \in 1 .. Len(inbox)
      BY <1>2
    <3>2. inbox'[i] = r[Len(r) - Len(inbox) + (n + i)]
      BY <1>3, <2>6, <3>1
    <3> QED
      BY <1>2, <2>3, <3>2
  <2>10. Follows(r, p)'
    BY <1>3, <1>4, <2>3, <2>7, <2>8, <2>9 DEF Follows, r, p
  <2> QED
    BY <1>1, <2>2, <2>3, <2>6, <2>7, <2>10 DEF Reading, r, p
<1>6. Routing' /\ HandedOver'
  BY <1>1 DEF Routing, HandedOver
<1>7. Fed'
  <2>1. Len(rest') # 0
    BY <1>3
  <2> QED
    BY <2>1 DEF Fed
<1>8. OnlyWildClientsFail' /\ AnswerFits'
  BY <1>1, WildStands, FitsStand DEF TInv
<1> QED
  BY <1>5, <1>6, <1>7, <1>8 DEF TInv

LEMMA CloseFits ==
  ASSUME IInv, IInv', TInv, PeerCloses \/ TimeOut \/ OnCloseConnection PROVE TInv'
<1>1. /\ failed = "none" /\ loop = "idle" /\ conn \in {"open", "closing", "shutting"}
      /\ conn' \in {"closing", "closed"}
      /\ UNCHANGED <<upgrades, sent, inbox, tame, split, req, res, task, wake, out, done,
                     changed, rest, loop, failed>>
  BY DEF PeerCloses, TimeOut, OnCloseConnection, session, client
<1>2. Parsing'
  <2>1. Bytes' = Bytes
    BY <1>1 DEF Bytes
  <2> QED
    BY <1>1, <2>1, ParsingStands DEF TInv
<1>3. Routing' /\ HandedOver' /\ Fed'
  BY <1>1 DEF TInv, Routing, HandedOver, Fed, Suits, Upgrading, Identified, HandShakes
<1>4. OnlyWildClientsFail' /\ AnswerFits'
  BY <1>1, WildStands, FitsStand DEF TInv
<1> QED
  BY <1>2, <1>3, <1>4 DEF TInv

(* A call of a handler, by what it has used of the chunk. *)
LEMMA ParseFits == ASSUME IInv, IInv', TInv, Parse PROVE TInv'
<1> DEFINE c == rest
           s == ParseStep(req, c)
<1>1. /\ failed = "none" /\ loop = "parse" /\ req' = s.req /\ rest' = s.begin
      /\ failed' = IF s.begin = Beyond THEN "overrun" ELSE failed
      /\ loop' = IF Stops(s) THEN "check" ELSE "parse"
      /\ UNCHANGED <<upgrades, sent, inbox, tame, split, res, task, wake, conn, out, done,
                     changed>>
  BY DEF Parse, client
<1>2. /\ c \in Seq(Tokens) /\ Len(c) \in Nat /\ Bytes = c /\ conn # "upgraded"
      /\ inbox \in Seq(Tokens) /\ Len(inbox) \in Nat /\ req \in RequestRecords /\ Sound(req)
  BY <1>1, BytesFacts DEF IInv, Types, Chunk, TInv, HandedOver
<1>3. Fed'
  BY <1>1 DEF Fed, Stops
<1>4. Routing' /\ HandedOver'
  BY <1>1, <1>2 DEF Routing, HandedOver
<1>5. OnlyWildClientsFail' /\ AnswerFits'
  BY <1>1, WildStands, FitsStand DEF TInv
<1>6. Parsing'
  <2> SUFFICES ASSUME tame', ~split', failed' = "none"
               PROVE  Len(sent') = done' + 1 /\ Reading(Pending, Place)'
    BY DEF Parsing
  <2>1. c = << >> => req.state = "eReadingBody"
    BY <1>1 DEF TInv, Fed
  <2>2. ~Idling
    BY <1>2, <2>1 DEF Idling, NewRequest
  <2>3. Len(sent) = done + 1 /\ Reading(Pending, Place)
    BY <1>1, <1>2, <2>2 DEF TInv, Parsing
  <2>4. req.state \notin Finals
    <3> SUFFICES ASSUME req.state \in Finals PROVE FALSE
      OBVIOUS
    <3>1. Bytes = << >>
      BY <1>1, <1>2, Settled DEF TInv
    <3> QED
      BY <1>2, <2>1, <3>1 DEF Finals
  <2> DEFINE r == Pending
             p == Place
  <2>5. r \in Seq(Tokens) /\ Len(r) \in Nat /\ Pending' = r
    BY <1>1, <2>3, PendingFacts DEF Pending
  <2>6. p = Len(r) - Len(inbox) - Len(c)
    BY <1>2 DEF Place
  <2>7. /\ p \in 0 .. Len(r) /\ \A i \in 1 .. Len(c) : c[i] = r[p + i]
        /\ \A i \in 1 .. Len(inbox) : inbox[i] = r[Len(r) - Len(inbox) + i]
    BY <1>2, <2>3 DEF Reading, Follows
  <2>8. PICK n \in 1 .. Len(r) :
          Lines(r, n) /\ (Breaks(r, n) \/ Ends(r, n)) /\ Parsed(r, n, p, req)
    BY <2>3 DEF Reading
  <2> HIDE DEF r, p, c
  <2>9. c # << >> => c[Len(c)] \notin {"CR", "BAD"}
    BY <1>1, <1>2 DEF IInv, Chunk, c
  <2>10. Midway(r, n, p, req, c)
    BY <1>2, <2>5, <2>6, <2>7, <2>8, <2>9 DEF Midway
  <2>11. Advances(r, n, p, c, s)
    <3>1. req.state \in {"eExpectRequestLine", "eReadingHeaders", "eReadingBody"}
      BY <1>2, <2>4 DEF RequestRecords, States, Finals
    <3> HIDE DEF s
    <3>2. CASE req.state = "eExpectRequestLine"
      BY <2>1, <2>10, <3>2, StartReads DEF s
    <3>3. CASE req.state = "eReadingHeaders"
      BY <2>1, <2>10, <3>3, HeadersRead DEF s
    <3>4. CASE req.state = "eReadingBody"
      BY <2>10, <3>4, BodyReads DEF s
    <3> QED
      BY <3>1, <3>2, <3>3, <3>4
  <2> HIDE DEF s
  <2>12. PICK m \in 0 .. Len(c) :
           /\ Bytes' \in Seq(Tokens) /\ Len(Bytes') = Len(c) - m
           /\ \A i \in 1 .. Len(c) - m : Bytes'[i] = c[m + i]
           /\ Parsed(r, n, p + m, req')
    <3>1. CASE s.begin = Null /\ Parsed(r, n, p + Len(c), s.req)
      <4>1. Bytes' = << >> /\ Len(c) \in 0 .. Len(c) /\ Len(c) - Len(c) = 0
        BY <1>1, <1>2, <3>1 DEF Bytes
      <4>2. << >> \in Seq(Tokens)
        OBVIOUS
      <4> QED
        BY <1>1, <3>1, <4>1, <4>2
    <3>2. ASSUME NEW m \in 0 .. Len(c), s.begin = SubSeq(c, m + 1, Len(c)),
                 Parsed(r, n, p + m, s.req)
          PROVE  /\ Bytes' \in Seq(Tokens) /\ Len(Bytes') = Len(c) - m
                 /\ \A i \in 1 .. Len(c) - m : Bytes'[i] = c[m + i]
                 /\ Parsed(r, n, p + m, req')
      <4> DEFINE b == s.begin
      <4>1. /\ b \in Seq(Tokens) /\ Len(b) = Len(c) - m
            /\ \A i \in 1 .. Len(c) - m : b[i] = c[m + i]
        BY <1>2, <3>2, Parts
      <4> HIDE DEF b
      <4>2. Bytes' = b
        BY <1>1, <4>1, NullIsNoChunk DEF Bytes, b
      <4> QED
        BY <1>1, <3>2, <4>1, <4>2
    <3> QED
      BY <2>11, <3>1, <3>2 DEF Advances
  <2>13. Place' = p + m
    <3>1. Place' = Len(r) - Len(inbox) - (Len(c) - m)
      BY <1>1, <2>5, <2>12 DEF Place
    <3> QED
      BY <1>2, <2>5, <2>6, <2>7, <3>1
  <2>14. p + m \in 0 .. Len(r)
    BY <1>2, <2>5, <2>6, <2>7
  <2>15. ASSUME NEW i \in 1 .. Len(c) - m PROVE Bytes'[i] = r[(p + m) + i]
    <3>1. m + i \in 1 .. Len(c) /\ p + (m + i) = (p + m) + i
      BY <1>2, <2>7
    <3>2. Bytes'[i] = r[p + (m + i)]
      BY <2>7, <2>12, <3>1
    <3> QED
      BY <3>1, <3>2
  <2>16. Follows(Pending, Place)'
    <3>1. \A i \in 1 .. Len(Bytes') : Bytes'[i] = Pending'[Place' + i]
      BY <2>5, <2>12, <2>13, <2>15
    <3>2. \A i \in 1 .. Len(inbox') : inbox'[i] = Pending'[Len(Pending') - Len(inbox') + i]
      BY <1>1, <2>5, <2>7
    <3> QED
      BY <3>1, <3>2 DEF Follows
  <2>17. /\ Place' \in 0 .. Len(Pending')
         /\ \E k \in 1 .. Len(Pending') :
              /\ Lines(Pending', k) /\ (Breaks(Pending', k) \/ Ends(Pending', k))
              /\ Parsed(Pending', k, Place', req')
    BY <2>5, <2>8, <2>12, <2>13, <2>14
  <2> QED
    BY <1>1, <2>3, <2>16, <2>17 DEF Reading
<1> QED
  BY <1>3, <1>4, <1>5, <1>6 DEF TInv

LEMMA CheckFits == ASSUME IInv, IInv', TInv, Check PROVE TInv'
<1>1. /\ failed = "none" /\ loop = "check"
      /\ loop' = IF rest \in {Null, << >>} THEN "idle" ELSE "parse"
      /\ rest' = IF rest = << >> THEN Null ELSE rest
      /\ UNCHANGED <<upgrades, sent, inbox, tame, split, req, conn, out, done, changed>>
  BY DEF Check, client
<1>2. conn # "upgraded" /\ rest # Beyond /\ req \in RequestRecords
  BY <1>1 DEF TInv, HandedOver, IInv, Types, Chunk
<1>3. Parsing'
  <2>1. Bytes' = Bytes
    BY <1>1, <1>2 DEF Bytes
  <2> QED
    BY <1>1, <1>2, <2>1, ParsingStands DEF TInv
<1>4. HandedOver' /\ Fed' /\ AnswerFits'
  BY <1>1, <1>2, FitsStand DEF TInv, HandedOver, Fed
<1>5. loop' = "idle" => task = "none"
  BY <1>1 DEF IInv, Chain
<1>6. Routing' /\ OnlyWildClientsFail'
  <2>1. CASE req.state \notin Finals
    <3>1. UNCHANGED <<task, failed>>
      BY <2>1 DEF Check, Finals
    <3>2. Routing'
      BY <1>5, <3>1 DEF Routing, Early
    <3> QED
      BY <1>1, <3>1, <3>2, WildStands
  <2>2. CASE req.state \in Finals /\ req.method # "eINVALID"
    <3>1. task' = "ParseCookie" /\ failed' = failed
      BY <2>2 DEF Check, InvalidRequest, Finals
    <3>2. Routing'
      BY <1>1, <2>2, <3>1 DEF Routing
    <3> QED
      BY <1>1, <3>1, <3>2, WildStands
  <2>3. CASE req.state \in Finals /\ req.method = "eINVALID"
    <3>1. Refuse(res, 400, 0)
      BY <2>3 DEF Check, InvalidRequest, Finals
    <3>2. CASE res.locked
      <4>1. failed' = "SetStatusCode"
        BY <3>1, <3>2 DEF Refuse
      <4>2. rest \notin {Null, << >>}
        BY <1>1, <3>2 DEF IInv, Locks, Chain
      <4>3. Bytes # << >>
        BY <1>2, <4>2 DEF Bytes
      <4>4. ASSUME tame, ~split PROVE FALSE
        <5>1. Bytes = << >>
          BY <1>1, <1>2, <2>3, <4>4, Settled DEF TInv
        <5> QED
          BY <4>3, <5>1
      <4> QED
        BY <1>1, <4>1, <4>4 DEF Routing, OnlyWildClientsFail
    <3>3. CASE ~res.locked
      <4>1. res \in ResponseRecords /\ 400 \in Refusals /\ 0 \in {0, 1}
        BY DEF IInv, Types, Refusals
      <4>2. res'.status = 400 /\ task' = "Response" /\ failed' = "none"
        <5>1. PICK status, n : status = 400 /\ n = 0
          OBVIOUS
        <5>2. Refuse(res, status, n) /\ status \in Refusals /\ n \in {0, 1}
          BY ONLY <3>1, <4>1, <5>1
        <5>3. res'.status = status /\ task' = "Response" /\ failed' = failed
          BY ONLY ZenonT(30), <3>3, <4>1, <5>2, RefuseFacts
        <5> QED
          BY ONLY <1>1, <5>1, <5>3
      <4>3. Suits(400)'
        BY <1>1, <2>3 DEF Suits
      <4>4. Routing'
        BY <4>2, <4>3 DEF Routing, Early
      <4> QED
        BY <4>2, <4>4, WildStands
    <3> QED
      BY <3>2, <3>3
  <2> QED
    BY <2>1, <2>2, <2>3
<1> QED
  BY <1>3, <1>4, <1>6 DEF TInv

(* A module that finishes no answer keeps TInv if it goes on as Routing    *)
(* wants it.                                                               *)
LEMMA ModuleFits ==
  ASSUME IInv', TInv, NEW m, Due(m), UNCHANGED <<req, conn, out, done, client, rest, loop>>,
         failed' # "SetStatusCode", Routing'
  PROVE  TInv'
<1>1. /\ failed = "none" /\ loop = "idle" /\ conn \in {"open", "closing"}
      /\ UNCHANGED <<upgrades, sent, inbox, tame, split>>
  BY DEF Due, client
<1>2. Parsing'
  <2>1. Bytes' = Bytes
    BY DEF Bytes
  <2> QED
    BY <1>1, <2>1, ParsingStands DEF TInv
<1>3. HandedOver' /\ Fed' /\ OnlyWildClientsFail' /\ AnswerFits'
  BY <1>1, WildStands, FitsStand DEF TInv, HandedOver, Fed
<1> QED
  BY <1>2, <1>3 DEF TInv

(* What Routing says of a module m of the first ones. *)
Routed(m) ==
  /\ req.method # "eINVALID"
  /\ m = "Login" => ~Identified
  /\ m = "UpgradeWs" => upgrades /\ Identified
  /\ m \in {"CheckURL", "CheckMethod", "UnSupport", "LoadFile"} => ~Upgrading
  /\ m = "LoadFile" => req.method \in {"GET", "POST"}

LEMMA RoutedFacts == ASSUME TInv, NEW m \in Early, Due(m) PROVE Routed(m)
BY DEF TInv, Routing, Due, Routed

LEMMA GoOnFits ==
  ASSUME IInv, IInv', TInv, NEW m \in Early, NEW n \in Early, Due(m), GoOn(n), Unmoved,
         Routed(n)
  PROVE  TInv'
<1>1. /\ UNCHANGED <<req, conn, out, done, client, rest, loop>>
      /\ failed' = "none" /\ task' = n /\ upgrades' = upgrades
  BY DEF GoOn, Due, Unmoved, Quiet, client
<1>2. Routing'
  BY <1>1 DEF Routed, Routing, Early, Upgrading, Identified, HandShakes
<1> QED
  BY <1>1, <1>2, ModuleFits

(* What a module may refuse a request with. *)
LEMMA RefuseFits ==
  ASSUME IInv, IInv', TInv, NEW m \in Early, Due(m), NEW close \in BOOLEAN,
         NEW status \in Refusals, Refuse([res EXCEPT !.close = close], status, 1),
         UNCHANGED <<req, conn, out, done>>, Unmoved, Suits(status)
  PROVE  TInv'
<1>1. Ready(m) /\ HeadOpen
  BY EarlyFacts
<1> DEFINE r == [res EXCEPT !.close = close]
<1>2. r \in ResponseRecords /\ r.locked = res.locked
  BY DEF IInv, Types, ResponseRecords
<1>3. Refuse(r, status, 1) /\ 1 \in {0, 1}
  OBVIOUS
<1> HIDE DEF r
<1>4. res'.status = status /\ task' = "Response" /\ failed' = "none"
  BY <1>1, <1>2, <1>3, RefuseFacts DEF Ready, HeadOpen
<1>5. UNCHANGED <<req, conn, out, done, client, rest, loop, upgrades>>
  BY DEF Unmoved, Quiet, client
<1>6. Routing'
  <2>1. Suits(res.status)'
    BY <1>4, <1>5 DEF Suits, Upgrading, Identified, HandShakes
  <2> QED
    BY <1>4, <2>1 DEF Routing, Early
<1> QED
  BY <1>4, <1>5, <1>6, ModuleFits

LEMMA PlainRefuseFits ==
  ASSUME IInv, IInv', TInv, NEW m \in Early, Due(m), NEW status \in Refusals,
         Refuse(res, status, 1), UNCHANGED <<req, conn, out, done>>, Unmoved, Suits(status)
  PROVE  TInv'
<1>1. res.close \in BOOLEAN /\ res = [res EXCEPT !.close = res.close]
  BY DEF IInv, Types, ResponseRecords
<1> DEFINE close == res.close
<1>2. close \in BOOLEAN /\ Refuse([res EXCEPT !.close = close], status, 1)
  BY <1>1
<1> HIDE DEF close
<1> QED
  BY <1>2, RefuseFits

(* A module that has sent the head, or a further part, of the answer to a  *)
(* request it suits.                                                       *)
LEMMA SentFits ==
  ASSUME IInv, TInv, NEW m \in {"NextLoad", "Response"}, Due(m), SendContent,
         UNCHANGED client
  PROVE  AnswerFits'
<1>1. /\ failed = "none" /\ conn # "upgraded" /\ req.state \in Finals
      /\ UNCHANGED <<upgrades, sent, tame, split>> /\ Suits(res.status)
  <2>1. m # "none"
    OBVIOUS
  <2>2. Ready(m)
    BY <2>1, DueFacts
  <2> QED
    BY <2>2 DEF Ready, client, TInv, Routing
<1> DEFINE n == done + 1
<1>2. /\ Len(out') = n /\ \A k \in 1 .. done : out'[k] = out[k]
      /\ out'[n].status = res.status /\ done \in Nat /\ Len(out) >= done
  BY <1>1, SendFacts DEF IInv, Types, Counting
<1>3. ASSUME tame', ~split', NEW k \in 1 .. Len(out')
      PROVE  Fitting(sent[k], out'[k].status)
  <2>1. tame /\ ~split
    BY <1>1, <1>3
  <2>2. CASE k \in 1 .. done
    <3>1. k \in 1 .. Len(out)
      BY <1>2, <2>2
    <3>2. Fitting(sent[k], out[k].status)
      BY <2>1, <3>1, FittingAnswers DEF TInv
    <3> QED
      BY <1>2, <2>2, <3>2
  <2>3. CASE k = n
    <3>1. Fitting(Pending, res.status)
      BY <1>1, <2>1, Settled DEF TInv
    <3> QED
      BY <1>2, <2>3, <3>1 DEF Pending
  <2> QED
    BY <1>2, <1>3, <2>2, <2>3
<1> HIDE DEF n
<1>4. tame' /\ ~split' => \A k \in 1 .. Len(out') : Fitting(sent[k], out'[k].status)
  BY <1>3
<1> QED
  BY <1>1, <1>4 DEF AnswerFits, Fitting

(* A module that finishes an answer: the parser starts afresh. *)
LEMMA FinishFits ==
  ASSUME IInv, IInv', TInv, NEW m \in {"NextLoad", "Response"}, Due(m), SendContent, Finish,
         UNCHANGED <<failed, client, rest, loop>>
  PROVE  TInv'
<1>1. AnswerFits'
  BY SentFits
<1>2. /\ failed = "none" /\ loop = "idle" /\ conn \in {"open", "closing"} /\ rest = Null
      /\ req.state \in Finals
  <2>1. m # "none"
    OBVIOUS
  <2>2. Ready(m)
    BY <2>1, DueFacts
  <2> QED
    BY <2>2 DEF Ready
<1>3. /\ conn' \in {"open", "closing"} /\ done' = done + 1 /\ req' = NewRequest
      /\ task' = "none" /\ UNCHANGED <<failed, rest, loop, sent, inbox, tame, split>>
  BY <1>2 DEF Finish, client
<1>4. Parsing'
  <2> SUFFICES ASSUME tame', ~split' PROVE Idling'
    BY DEF Parsing
  <2>1. Len(sent) = done + 1 /\ inbox = << >>
    BY <1>2, <1>3, Settled DEF TInv
  <2>2. Bytes' = << >>
    BY <1>2, <1>3 DEF Bytes
  <2> QED
    BY <1>3, <2>1, <2>2 DEF Idling
<1>5. Routing'
  BY <1>3 DEF Routing, Early
<1>6. HandedOver' /\ Fed' /\ OnlyWildClientsFail'
  BY <1>2, <1>3, WildStands DEF HandedOver, Fed
<1> QED
  BY <1>1, <1>4, <1>5, <1>6 DEF TInv

LEMMA UpgradeFits == ASSUME IInv, IInv', TInv, UpgradeWs PROVE TInv'
<1>1. Due("UpgradeWs") /\ UNCHANGED res /\ Unmoved /\ "UpgradeWs" \in Early
  BY DEF UpgradeWs, Early
<1>2. Ready("UpgradeWs") /\ HeadOpen /\ Routed("UpgradeWs")
  BY <1>1, EarlyFacts, RoutedFacts
<1>3. CASE ~HandShakes
  <2>1. GoOn("CheckURL")
    BY <1>3 DEF UpgradeWs
  <2>2. Routed("CheckURL") /\ "CheckURL" \in Early
    BY <1>2, <1>3 DEF Routed, Upgrading, Early
  <2> QED
    BY <1>1, <2>1, <2>2, GoOnFits
<1>4. CASE HandShakes
  <2> DEFINE a == [status |-> 101, announced |-> FALSE, length |-> 0, body |-> 0]
             n == done + 1
  <2>1. /\ out' = Append(out, a) /\ conn' = "upgraded" /\ task' = "none"
        /\ UNCHANGED <<req, failed>>
    BY <1>4 DEF UpgradeWs
  <2>2. /\ failed = "none" /\ loop = "idle" /\ conn # "upgraded" /\ req.state \in Finals
        /\ UNCHANGED <<upgrades, sent, inbox, tame, split, rest, loop>>
        /\ out \in Seq(Answers) /\ Len(out) = done /\ done \in Nat
    BY <1>1, <1>2 DEF Ready, HeadOpen, Unmoved, Quiet, client, IInv, Types
  <2>3. /\ Len(out') = n /\ \A k \in 1 .. done : out'[k] = out[k]
        /\ out'[n].status = 101
    BY <2>1, <2>2
  <2>4. Suits(101)
    BY <1>2, <1>4 DEF Routed, Suits, Upgrading
  <2>5. ASSUME tame', ~split', NEW k \in 1 .. Len(out')
        PROVE  Fitting(sent[k], out'[k].status)
    <3>1. tame /\ ~split
      BY <2>2, <2>5
    <3>2. CASE k \in 1 .. done
      <4>1. Fitting(sent[k], out[k].status)
        BY <2>2, <3>1, <3>2, FittingAnswers DEF TInv
      <4> QED
        BY <2>3, <3>2, <4>1
    <3>3. CASE k = n
      <4>1. Fitting(Pending, 101)
        BY <2>2, <2>4, <3>1, Settled DEF TInv
      <4> QED
        BY <2>3, <3>3, <4>1 DEF Pending
    <3> QED
      BY <2>2, <2>3, <2>5, <3>2, <3>3
  <2> HIDE DEF a, n
  <2>6. AnswerFits'
    <3>1. tame' /\ ~split' => \A k \in 1 .. Len(out') : Fitting(sent[k], out'[k].status)
      BY <2>5
    <3> QED
      BY <2>2, <3>1 DEF AnswerFits, Fitting
  <2>7. Parsing' /\ Routing'
    BY <2>1 DEF Parsing, Routing, Early
  <2>8. HandedOver' /\ Fed' /\ OnlyWildClientsFail'
    BY <2>1, <2>2, WildStands DEF HandedOver, Fed
  <2> QED
    BY <2>6, <2>7, <2>8 DEF TInv
<1> QED
  BY <1>3, <1>4

LEMMA LoginFits == ASSUME IInv, IInv', TInv, Login PROVE TInv'
<1>1. Due("Login") /\ Unmoved /\ "Login" \in Early
  BY DEF Login, Early
<1>2. Routed("Login")
  BY <1>1, RoutedFacts
<1>3. CASE GoOn("CheckURL") /\ UNCHANGED res
  <2>1. Routed("CheckURL") /\ "CheckURL" \in Early
    BY <1>2 DEF Routed, Upgrading, Early
  <2> QED
    BY <1>1, <1>3, <2>1, GoOnFits
<1>4. ASSUME NEW status \in {401, 307}, Refuse(res, status, 1),
             UNCHANGED <<req, conn, out, done>>
      PROVE  TInv'
  <2>1. status \in Refusals
    BY DEF Refusals
  <2>2. Suits(status)
    BY <1>2 DEF Routed, Suits, Upgrading
  <2> QED
    BY <1>1, <1>4, <2>1, <2>2, PlainRefuseFits
<1> QED
  BY <1>3, <1>4 DEF Login

LEMMA CheckURLFits == ASSUME IInv, IInv', TInv, CheckURL PROVE TInv'
<1> DEFINE close == ~KeepAlive(req)
           r     == [res EXCEPT !.close = close]
<1>1. /\ Due("CheckURL") /\ Unmoved /\ "CheckURL" \in Early
      /\ \/ \E size \in FileSizes : Serve(r, size) /\ UNCHANGED <<req, wake, conn, out, done>>
         \/ \E status \in {404, 503} : Refuse(r, status, 1) /\ UNCHANGED <<req, conn, out, done>>
  BY DEF CheckURL, Early
<1>2. Routed("CheckURL") /\ Ready("CheckURL") /\ HeadOpen
  BY <1>1, RoutedFacts, EarlyFacts
<1>3. close \in BOOLEAN
  BY DEF KeepAlive
<1> HIDE DEF close
<1>4. ASSUME NEW status \in {404, 503}, Refuse(r, status, 1),
             UNCHANGED <<req, conn, out, done>>
      PROVE  TInv'
  <2>1. status \in Refusals
    BY DEF Refusals
  <2>2. Suits(status)
    BY <1>2 DEF Routed, Suits
  <2> QED
    BY <1>1, <1>3, <1>4, <2>1, <2>2, RefuseFits
<1>5. ASSUME NEW size \in FileSizes, Serve(r, size), UNCHANGED <<req, wake, conn, out, done>>
      PROVE  TInv'
  <2>1. ~r.locked
    BY <1>2 DEF IInv, Types, ResponseRecords, HeadOpen
  <2>2. task' = "CheckMethod" /\ failed' = "none"
    BY <1>2, <1>5, <2>1 DEF Serve, Ready
  <2>3. UNCHANGED <<client, rest, loop, upgrades>>
    BY <1>1 DEF Unmoved, Quiet, client
  <2>4. Routing'
    BY <1>2, <1>5, <2>2, <2>3 DEF Routed, Routing, Upgrading, Identified, HandShakes
  <2> QED
    BY <1>1, <1>5, <2>2, <2>3, <2>4, ModuleFits
<1> QED
  BY <1>1, <1>4, <1>5

LEMMA LoadFileFits == ASSUME IInv, IInv', TInv, LoadFile PROVE TInv'
<1>1. /\ Due("LoadFile") /\ "LoadFile" \in Early /\ task' = "NextLoad"
      /\ UNCHANGED <<req, conn, out, done, client, rest, loop>>
      /\ failed' # "SetStatusCode"
  BY DEF LoadFile, Load, Quiet, Due, Early
<1>2. Routed("LoadFile")
  BY <1>1, RoutedFacts
<1>3. failed' = "none" /\ loop' = "idle" => res'.status = 200
  BY <1>1 DEF IInv, Loading, Loaded
<1>4. Suits(200)'
  <2>1. upgrades' = upgrades
    BY <1>1 DEF client
  <2> QED
    BY <1>1, <1>2, <2>1 DEF Routed, Suits, Upgrading, Identified, HandShakes
<1>5. Routing'
  BY <1>1, <1>3, <1>4 DEF Routing, Early
<1> QED
  BY <1>1, <1>5, ModuleFits

LEMMA NextLoadFits == ASSUME IInv, IInv', TInv, NextLoad PROVE TInv'
<1>1. Due("NextLoad") /\ SendContent /\ UNCHANGED <<client, rest, loop>>
  BY DEF NextLoad, Quiet
<1>2. CASE ~Left
  <2>1. Finish /\ UNCHANGED failed
    BY <1>2 DEF NextLoad
  <2> QED
    BY <1>1, <2>1, FinishFits
<1>3. CASE Left
  <2>1. /\ UNCHANGED <<req, task, wake, conn, done, upgrades, sent, inbox, tame, split>>
        /\ failed' # "SetStatusCode" /\ failed = "none" /\ task = "NextLoad"
        /\ loop = "idle" /\ conn # "upgraded"
    BY <1>1, <1>3 DEF NextLoad, Load, Due, client
  <2>2. AnswerFits'
    BY <1>1, SentFits
  <2>3. Parsing'
    <3>1. Bytes' = Bytes
      BY <1>1 DEF Bytes
    <3> QED
      BY <2>1, <3>1, ParsingStands DEF TInv
  <2>4. Routing'
    <3>1. failed' = "none" /\ loop' = "idle" => res'.status = 200
      BY <2>1 DEF IInv, Loading, Loaded
    <3>2. res.status = 200
      BY <2>1 DEF IInv, Loading, Loaded
    <3>3. Suits(200)
      BY <2>1, <3>2 DEF TInv, Routing
    <3>4. Suits(200)'
      BY <2>1, <3>3 DEF Suits, Upgrading, Identified, HandShakes
    <3> QED
      BY <2>1, <3>1, <3>4 DEF Routing, Early
  <2>5. HandedOver' /\ Fed' /\ OnlyWildClientsFail'
    BY <1>1, <2>1, WildStands DEF HandedOver, Fed
  <2> QED
    BY <2>2, <2>3, <2>4, <2>5 DEF TInv
<1> QED
  BY <1>2, <1>3

LEMMA TaskFits == ASSUME IInv, IInv', TInv, OnTaskFinished PROVE TInv'
<1>1. CASE ParseCookie
  <2>1. Routed("Identify") /\ "ParseCookie" \in Early /\ "Identify" \in Early
    BY <1>1, RoutedFacts DEF ParseCookie, Early, Routed
  <2> QED
    BY <1>1, <2>1, GoOnFits DEF ParseCookie
<1>2. CASE Identify
  <2> DEFINE n == IF ~Identified THEN "Login" ELSE IF upgrades THEN "UpgradeWs" ELSE "CheckURL"
  <2>1. Due("Identify") /\ GoOn(n) /\ Unmoved
    BY <1>2 DEF Identify
  <2>2. n \in Early /\ "Identify" \in Early
    BY DEF Early
  <2>3. Routed(n)
    BY <2>1, <2>2, RoutedFacts DEF Routed, Upgrading
  <2> HIDE DEF n
  <2> QED
    BY <2>1, <2>2, <2>3, GoOnFits
<1>3. CASE CheckMethod
  <2> DEFINE n == IF req.method \in {"GET", "POST"} THEN "LoadFile" ELSE "UnSupport"
  <2>1. Due("CheckMethod") /\ GoOn(n) /\ Unmoved
    BY <1>3 DEF CheckMethod
  <2>2. n \in Early /\ "CheckMethod" \in Early
    BY DEF Early
  <2>3. Routed("CheckMethod")
    BY <2>1, <2>2, RoutedFacts
  <2>4. Routed(n)
    BY <2>3 DEF Routed
  <2> HIDE DEF n
  <2> QED
    BY <2>1, <2>2, <2>4, GoOnFits
<1>4. CASE UnSupport
  <2>1. 503 \in Refusals /\ "UnSupport" \in Early
    BY DEF Refusals, Early
  <2>2. Suits(503)
    BY <1>4, <2>1, RoutedFacts DEF UnSupport, Routed, Suits
  <2> QED
    BY <1>4, <2>1, <2>2, PlainRefuseFits DEF UnSupport
<1>5. CASE Response
  <2>1. Due("Response") /\ SendContent /\ Finish /\ UNCHANGED <<failed, client, rest, loop>>
    BY <1>5 DEF Response, Unmoved, Quiet
  <2> QED
    BY <2>1, FinishFits
<1> QED
  BY <1>1, <1>2, <1>3, <1>4, <1>5, UpgradeFits, LoginFits, CheckURLFits, LoadFileFits,
     NextLoadFits DEF OnTaskFinished

LEMMA StutterFits == ASSUME TInv, UNCHANGED vars PROVE TInv'
<1>1. UNCHANGED <<upgrades, sent, inbox, rest, loop, req, res, task, conn, out, done, failed,
                  changed, tame, split>>
  BY DEF vars
<1>2. Parsing'
  BY <1>1 DEF TInv, Parsing, Idling, Reading, Follows, Pending, Place, Bytes
<1>3. Routing' /\ HandedOver' /\ Fed'
  BY <1>1 DEF TInv, Routing, HandedOver, Fed, Suits, Upgrading, Identified, HandShakes
<1>4. OnlyWildClientsFail' /\ AnswerFits'
  BY <1>1 DEF TInv, OnlyWildClientsFail, AnswerFits
<1> QED
  BY <1>2, <1>3, <1>4 DEF TInv

LEMMA StepFits == IInv /\ IInv' /\ TInv /\ [Next]_vars => TInv'
<1> SUFFICES ASSUME IInv, IInv', TInv, [Next]_vars PROVE TInv'
  OBVIOUS
<1>1. ASSUME NEW r \in Requests, Send(r) PROVE TInv'
  BY <1>1, SendFits
<1>2. ASSUME NEW n \in 1 .. Len(inbox), Read(n) PROVE TInv'
  BY <1>2, ReadFits
<1>3. CASE PeerCloses \/ TimeOut \/ OnCloseConnection
  BY <1>3, CloseFits
<1>4. CASE Parse
  BY <1>4, ParseFits
<1>5. CASE Check
  BY <1>5, CheckFits
<1>6. CASE OnTaskFinished
  BY <1>6, TaskFits
<1>7. CASE UNCHANGED vars
  BY <1>7, StutterFits
<1> QED
  BY <1>1, <1>2, <1>3, <1>4, <1>5, <1>6, <1>7 DEF Next, OnTaskFinished

(* The invariant holds, for any requests, files and cuts of the bytes.     *)
THEOREM TameInvariance == Spec => [](IInv /\ TInv)
<1>1. Init => IInv /\ TInv
  BY InitInv, TInvInit
<1>2. IInv /\ TInv /\ [Next]_vars => (IInv /\ TInv)'
  BY StepInv, StepFits
<1> QED
  BY <1>1, <1>2, PTL DEF Spec

(* However a tame client's bytes are cut into chunks, each of its requests *)
(* is answered for what it is: 400 (HttpModuleInvalidRequest) exactly when *)
(* it is malformed, a file for GET and POST only, no login for a user the  *)
(* cookie has identified, and the upgrade exactly for a handshake.         *)
THEOREM AnswerAlwaysFits == Spec => []AnswerFits
<1>1. TInv => AnswerFits
  BY DEF TInv
<1> QED
  BY <1>1, TameInvariance, PTL

(* The types and the wake-ups; and the assertion of SetStatusCode, and the *)
(* bounds of the chunk in FindString, fail for wild clients only, that of  *)
(* LoadContent only for a file that has changed, and that of SetFile never.*)
THEOREM SessionIsSound == Spec => []Inv
<1>1. TInv => OnlyWildClientsFail
  BY DEF TInv
<1>2. TypeOK /\ WakeDrivesTask /\ OnlyWildClientsFail => Inv
  BY DEF Inv
<1> QED
  BY <1>1, <1>2, TameInvariance, WakeAlwaysDrivesTask, PTL

=============================================================================
