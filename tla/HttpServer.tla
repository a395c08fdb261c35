----------------------------- MODULE HttpServer -----------------------------
(***************************************************************************)
(* One session of HttpServer, or of WebSocketServer up to the upgrade: the *)
(* client writes requests whenever it likes, read(2) returns any part of   *)
(* what has arrived, OnMessage parses it, and the modules answer one after *)
(* another, each woken up by the last through the eventfd of the session's *)
(* WakeUpper.                                                              *)
(***************************************************************************)
EXTENDS HttpRequest, HttpResponse

CONSTANTS
  Requests,      (* Requests, as sequences of tokens.                      *)
  FileSizes,     (* The sizes of files, in units.                          *)
  Gone,          (* The file has been removed.                             *)
  MaxRequests,   (* Bound: the requests the client sends.                  *)
  MaxLoads       (* Bound: the parts sent of one file. A file that does    *)
                 (* not change has fewer.                                  *)

ASSUME HttpAssumption ==
  /\ MaxRequests \in Nat /\ Requests \subseteq Seq(Tokens)
  /\ LoadSize \in Nat \ {0} /\ SizeLimit \in Nat \ {0, 1}
  /\ BodyLength \in Nat
  /\ FileSizes \subseteq Nat /\ Gone \notin FileSizes
  /\ \A size \in FileSizes : size < SizeLimit /\ size < LoadSize * MaxLoads

VARIABLES
  upgrades, (* The modules are those of WebSocketServer, and mServer has no    *)
            (* time-out.                                                       *)
  sent,     (* The requests the client has sent.                               *)
  inbox,    (* What it has written and the server has not read.                *)
  rest,     (* begin .. end in OnMessage, or Null.                             *)
  loop,     (* "idle", "parse" (in Parse) or "check" (behind Parse).           *)
  req,      (* mRequest                                                        *)
  res,      (* mResponse                                                       *)
  task,     (* The function of mCurrTask OnTaskFinished will call, or "none".  *)
  wake,     (* The eventfd of mWakeUpper is readable.                          *)
  conn,     (* "open", "closing", "shutting" (inside the HandleEvents that     *)
            (* will close it), "closed", or "upgraded": WebSocketServer models *)
            (* what follows, the wake-up the upgrade leaves behind included.   *)
  out,      (* The answers on the connection: the head, and the body so far.   *)
  done,     (* How many of them are finished.                                  *)
  failed,   (* The assertion that failed, "overrun", or "none".                *)
  changed,  (* History: a file has changed while it was served, once.          *)
  tame,     (* History: the client has waited for each answer, and sent only   *)
            (* messages as it should.                                          *)
  split     (* History: a chunk has ended between CR and LF, or inside a start *)
            (* line of an unknown method.                                      *)

client == <<upgrades, sent, inbox, tame, split>>
session == <<req, res, task, wake, out, done, changed>>
vars == <<upgrades, sent, inbox, rest, loop, req, res, task, wake, conn, out, done, failed,
          changed, tame, split>>

Init ==
  /\ upgrades \in BOOLEAN
  /\ sent = << >> /\ inbox = << >> /\ rest = Null /\ loop = "idle"
  /\ req = NewRequest /\ res = NewResponse
  /\ task = "none" /\ wake = FALSE /\ conn = "open"
  /\ out = << >> /\ done = 0 /\ failed = "none"
  /\ changed = FALSE /\ tame = TRUE /\ split = FALSE

-----------------------------------------------------------------------------
(* The client and the kernel. *)

(* The lines that are none of a request. *)
BadStart(r) == r[1] \notin Methods
Has(r, t) == \E i \in 1 .. Len(r) : r[i] = t
Malformed(r) == BadStart(r) \/ Has(r, "word")

(* A message as a client should write it: n lines of a token each, of      *)
(* which only the last is malformed, and nothing behind that one; or the   *)
(* line that ends the headers, and the body they announce.                 *)
FieldsOf(r, n) == {r[3 * k - 2] : k \in 2 .. n}

BodyOf(r, n) ==
  IF r[1] \in {"POST", "PUT"} /\ "length" \in FieldsOf(r, n) THEN BodyLength ELSE 0

Lines(r, n) ==
  /\ r[1] \in Methods \cup {"NOURL", "BAD"} /\ 3 * n <= Len(r)
  /\ \A k \in 1 .. n : r[3 * k - 1] = "CR" /\ r[3 * k] = "LF"
  /\ \A k \in 2 .. n - 1 : r[3 * k - 2] \in Fields

Breaks(r, n) ==
  /\ Len(r) = 3 * n
  /\ IF n = 1 THEN BadStart(r) ELSE ~BadStart(r) /\ r[3 * n - 2] = "word"

Ends(r, n) ==
  /\ ~BadStart(r) /\ (n > 1 => r[3 * n - 2] \in Fields)
  /\ Len(r) = 3 * n + 2 + BodyOf(r, n)
  /\ r[3 * n + 1] = "CR" /\ r[3 * n + 2] = "LF"
  /\ \A i \in 3 * n + 3 .. Len(r) : r[i] = "byte"

Tame(r) == \E n \in 1 .. Len(r) : Lines(r, n) /\ (Breaks(r, n) \/ Ends(r, n))

Send(r) ==
  /\ failed = "none" /\ conn \notin {"closed", "upgraded"} /\ Len(sent) < MaxRequests
  /\ sent' = Append(sent, r)
  /\ inbox' = inbox \o r
  /\ tame' = (tame /\ Tame(r) /\ done = Len(sent))
  /\ UNCHANGED <<upgrades, session, rest, loop, conn, failed, split>>

(* read(2) in OnReadEvent, in the HandleEvents that closes the connection  *)
(* if it is to be closed.                                                  *)
Read(n) ==
  /\ failed = "none" /\ loop = "idle" /\ conn \in {"open", "closing"}
  /\ rest' = SubSeq(inbox, 1, n)
  /\ inbox' = SubSeq(inbox, n + 1, Len(inbox))
  /\ loop' = "parse"
  /\ conn' = IF conn = "closing" THEN "shutting" ELSE conn
  /\ split' = (split \/ inbox[n] \in {"CR", "BAD"})
  /\ UNCHANGED <<upgrades, session, sent, failed, tame>>

(* The peer has closed: read(2) returns nothing, and HandleEvents closes. *)
PeerCloses ==
  /\ failed = "none" /\ loop = "idle" /\ conn \in {"open", "closing"} /\ inbox = << >>
  /\ conn' = "closed"
  /\ UNCHANGED <<session, client, rest, loop, failed>>

(* The time wheel asks for the close. *)
TimeOut ==
  /\ failed = "none" /\ loop = "idle" /\ conn = "open" /\ ~upgrades
  /\ conn' = "closing"
  /\ UNCHANGED <<session, client, rest, loop, failed>>

(* OnCloseConnection: the session and its WakeUpper are released. *)
OnCloseConnection ==
  /\ failed = "none" /\ loop = "idle" /\ conn \in {"closing", "shutting"}
  /\ conn' = "closed"
  /\ UNCHANGED <<session, client, rest, loop, failed>>

-----------------------------------------------------------------------------
(* OnMessage *)

Parse ==
  /\ failed = "none" /\ loop = "parse"
  /\ \E r \in {ParseStep(req, rest)} :
       /\ req' = r.req
       /\ rest' = r.begin
       /\ failed' = IF r.begin = Beyond THEN "overrun" ELSE failed
       /\ loop' = IF Stops(r) THEN "check" ELSE "parse"
  /\ UNCHANGED <<client, res, task, wake, conn, out, done, changed>>

(* SetStatusCode, LockHead and AppendContent: an answer without a file. *)
Refused(r, status, n) ==
  AppendContent(LockHead([r EXCEPT !.status = status], n), n)

Refuse(r, status, n) ==
  IF r.locked
    THEN failed' = "SetStatusCode" /\ UNCHANGED <<res, task, wake>>
    ELSE /\ res' = Refused(r, status, n)
         /\ task' = "Response"
         /\ wake' = TRUE
         /\ UNCHANGED failed

(* HttpModuleInvalidRequest *)
InvalidRequest ==
  IF req.method = "eINVALID"
    THEN Refuse(res, 400, 0)
    ELSE /\ task' = "ParseCookie"
         /\ wake' = TRUE
         /\ UNCHANGED <<res, failed>>

Check ==
  /\ failed = "none" /\ loop = "check"
  /\ IF req.state \in {"eResponsing", "eError"}
       THEN InvalidRequest
       ELSE UNCHANGED <<res, task, wake, failed>>
  /\ loop' = IF rest \in {Null, << >>} THEN "idle" ELSE "parse"
  /\ rest' = IF rest = << >> THEN Null ELSE rest
  /\ UNCHANGED <<client, req, conn, out, done, changed>>

-----------------------------------------------------------------------------
(* OnTaskFinished: the eventfd is read, and the next module handles the    *)
(* session and wakes it up again.                                          *)

Due(m) ==
  failed = "none" /\ loop = "idle" /\ conn \in {"open", "closing"} /\ wake /\ task = m

(* The module is done and goes on with m. *)
GoOn(m) == task' = m /\ UNCHANGED <<req, wake, conn, out, done, failed>>

Quiet == UNCHANGED <<client, rest, loop>>
Unmoved == Quiet /\ UNCHANGED changed

ParseCookie == Due("ParseCookie") /\ GoOn("Identify") /\ UNCHANGED res /\ Unmoved

Identified == "cookie" \in req.headers

Identify ==
  /\ Due("Identify")
  /\ GoOn(IF ~Identified THEN "Login" ELSE IF upgrades THEN "UpgradeWs" ELSE "CheckURL")
  /\ UNCHANGED res /\ Unmoved

(* CheckHandShake comes after NeedUpgrade. *)
HandShakes == NeedUpgrade(req) /\ CheckHandShake(req)

(* HttpModuleUpgradeWs: the connection is handed over with the answer, or  *)
(* the request is answered like any other.                                 *)
UpgradeWs ==
  /\ Due("UpgradeWs")
  /\ IF HandShakes
       THEN /\ out' = Append(out, [status |-> 101, announced |-> FALSE, length |-> 0,
                                body |-> 0])
            /\ done' = done + 1
            /\ conn' = "upgraded" /\ task' = "none" /\ wake' = FALSE
            /\ UNCHANGED <<req, failed>>
       ELSE GoOn("CheckURL")
  /\ UNCHANGED res /\ Unmoved

(* By the URL, the referer and the password of the request. *)
Login ==
  /\ Due("Login")
  /\ \/ GoOn("CheckURL") /\ UNCHANGED res
     \/ \E status \in {401, 307} : Refuse(res, status, 1) /\ UNCHANGED <<req, conn, out, done>>
  /\ Unmoved

(* SetFile, SetHeader and SetStatusCode, each of which wants the head open. *)
Serve(r, size) ==
  IF r.locked
    THEN failed' = "SetFile" /\ UNCHANGED <<res, task>>
    ELSE /\ res' = [r EXCEPT !.status = 200, !.size = size]
         /\ task' = "CheckMethod"
         /\ UNCHANGED failed

(* The URL names a file, a directory or nothing. *)
CheckURL ==
  /\ Due("CheckURL")
  /\ LET closing == [res EXCEPT !.close = ~KeepAlive(req)]
     IN  \/ \E size \in FileSizes :
              Serve(closing, size) /\ UNCHANGED <<req, wake, conn, out, done>>
         \/ \E status \in {404, 503} :
              /\ Refuse(closing, status, 1)
              /\ UNCHANGED <<req, conn, out, done>>
  /\ Unmoved

CheckMethod ==
  /\ Due("CheckMethod")
  /\ GoOn(IF req.method \in {"GET", "POST"} THEN "LoadFile" ELSE "UnSupport")
  /\ UNCHANGED res /\ Unmoved

UnSupport ==
  /\ Due("UnSupport")
  /\ Refuse(res, 503, 1)
  /\ UNCHANGED <<req, conn, out, done>> /\ Unmoved

(* The file as it is by now; while it is open it may shrink or grow, but   *)
(* not go.                                                                 *)
Sizes(r) ==
  {r.size} \cup IF changed THEN {} ELSE FileSizes \cup IF r.pos = 0 THEN {Gone} ELSE {}

(* LoadContent of the response r; "NULL != mFilePtr" fails when the file   *)
(* is to be opened and there is none.                                      *)
Load(r) ==
  \E size \in Sizes(r) :
    /\ changed' = (changed \/ size # r.size)
    /\ IF size = Gone
         THEN failed' = "LoadContent" /\ UNCHANGED res
         ELSE res' = LoadContent([r EXCEPT !.size = size]) /\ UNCHANGED failed

LoadFile ==
  /\ Due("LoadFile")
  /\ Load(LockHead(res, res.size))
  /\ task' = "NextLoad"
  /\ UNCHANGED <<req, wake, conn, out, done>> /\ Quiet

(* Mutant: one more WakeUp. *)
FinishAwake ==
  /\ conn' = IF CloseConnection(res) THEN "closing" ELSE conn
  /\ done' = done + 1 /\ req' = NewRequest /\ res' = NewResponse
  /\ task' = "none" /\ wake' = TRUE

(* Mutant: only the flag is looked at, not the status. *)
FinishByFlag ==
  /\ conn' = IF res.close THEN "closing" ELSE conn
  /\ done' = done + 1 /\ req' = NewRequest /\ res' = NewResponse
  /\ task' = "none" /\ wake' = FALSE

(* Close() if the response asks for it, and Reset(). *)
Finish ==
  /\ conn' = IF CloseConnection(res) THEN "closing" ELSE conn
  /\ done' = done + 1
  /\ req' = NewRequest
  /\ res' = NewResponse
  /\ task' = "none"
  /\ wake' = FALSE

Answer ==
  [status |-> res.status, announced |-> res.announced, length |-> res.length,
   body |-> res.body]

(* SendBytes of the head and the content, or of a further part. *)
SendContent ==
  out' = IF res.loads <= 1
           THEN Append(out, Answer)
           ELSE [out EXCEPT ![Len(out)] =
                   [Answer EXCEPT !.body = out[Len(out)].body + res.body]]

(* Mutant: a last part that is not whole is left out. *)
WholePartLeft == res.left >= LoadSize

Left == res.left > 0

NextLoad ==
  /\ Due("NextLoad") /\ res.loads <= MaxLoads
  /\ SendContent
  /\ IF Left
       THEN Load(res) /\ UNCHANGED <<req, task, wake, conn, done>>
       ELSE Finish /\ UNCHANGED <<failed, changed>>
  /\ Quiet

(* HttpModuleResponse *)
Response ==
  /\ Due("Response")
  /\ SendContent
  /\ Finish
  /\ UNCHANGED failed /\ Unmoved

Next ==
  \/ \E r \in Requests : Send(r)
  \/ \E n \in 1 .. Len(inbox) : Read(n)
  \/ PeerCloses
  \/ TimeOut
  \/ OnCloseConnection
  \/ Parse
  \/ Check
  \/ ParseCookie
  \/ Identify
  \/ UpgradeWs
  \/ Login
  \/ CheckURL
  \/ CheckMethod
  \/ UnSupport
  \/ LoadFile
  \/ NextLoad
  \/ Response

OnTaskFinished ==
  \/ ParseCookie \/ Identify \/ UpgradeWs \/ Login \/ CheckURL \/ CheckMethod
  \/ UnSupport \/ LoadFile \/ NextLoad \/ Response

Spec == Init /\ [][Next]_vars

(* The loop goes on polling, and what is readable is read in the end. *)
FairSpec ==
  /\ Spec
  /\ WF_vars(\E n \in 1 .. Len(inbox) : Read(n))
  /\ WF_vars(OnCloseConnection)
  /\ WF_vars(Parse)
  /\ WF_vars(Check)
  /\ WF_vars(OnTaskFinished)

-----------------------------------------------------------------------------

TypeOK ==
  /\ upgrades \in BOOLEAN /\ Len(sent) <= MaxRequests
  /\ loop \in {"idle", "parse", "check"}
  /\ req.state \in {"eExpectRequestLine", "eReadingHeaders", "eReadingBody",
                    "eResponsing", "eError"}
  /\ req.method \in Methods \cup {"eINVALID"}
  /\ req.headers \subseteq Fields /\ req.content \in 0 .. BodyLength
  /\ res.status \in {0, 200, 307, 400, 401, 404, 503}
  /\ res.left \in 0 .. SizeLimit - 1 /\ res.body \in Nat /\ res.locked \in BOOLEAN
  /\ task \in {"none", "ParseCookie", "Identify", "UpgradeWs", "Login", "CheckURL",
               "CheckMethod", "UnSupport", "LoadFile", "NextLoad", "Response"}
  /\ wake \in BOOLEAN /\ conn \in {"open", "closing", "shutting", "closed", "upgraded"}
  /\ failed \in {"none", "overrun", "SetStatusCode", "SetFile", "LoadContent"}
  /\ changed \in BOOLEAN

(* A request that is being answered always has the wake-up that drives it  *)
(* on, and there is none without a task: a spare one would run NextLoad or *)
(* Response on the fresh response of the next request and close.           *)
WakeDrivesTask == wake <=> task # "none"

(* The assertion of SetStatusCode ("mHeadEndIdx < 0") fails, and the       *)
(* search for a line leaves the chunk, only for a client that sends more   *)
(* than it has answers for or lines that are none, or after a split; that  *)
(* of LoadContent only for a file that goes after it was looked up; that   *)
(* of SetFile, which also wants the head open, never.                      *)
OnlyWildClientsFail ==
  /\ failed \in {"overrun", "SetStatusCode"} => ~tame \/ split
  /\ failed # "SetFile"
  /\ failed = "LoadContent" => changed

(* The types, the wake-ups, and the assertions. *)
Inv == TypeOK /\ WakeDrivesTask /\ OnlyWildClientsFail

(* However its bytes were cut, a request of a tame client is answered for  *)
(* what it is: 400 exactly when it is malformed, the file only for GET and *)
(* POST, no login for a user the cookie has identified, and the connection *)
(* is upgraded exactly for an identified user with a whole handshake.      *)
AnswerFits ==
  tame /\ ~split =>
    \A k \in 1 .. Len(out) :
      LET r == sent[k]
      IN  /\ out[k].status = 400 <=> Malformed(r)
          /\ out[k].status = 200 => r[1] \in {"GET", "POST"}
          /\ out[k].status \in {307, 401} => ~Has(r, "cookie")
          /\ out[k].status = 101 <=>
               upgrades /\ ~Malformed(r) /\ Has(r, "cookie") /\ Has(r, "handshake")

(* What the head announces is done: no answer follows one that announces   *)
(* the close, and the server closes once that is finished.                 *)
AnnouncedIsDone ==
  \A k \in 1 .. Len(out) : out[k].announced => k = Len(out) /\ (k <= done => conn # "open")

(* A finished answer has as many bytes as its head says, even if the file  *)
(* has shrunk, grown or gone meanwhile. The last part of a file is filled  *)
(* up to LoadSize, so that the body is longer than the head says unless    *)
(* the size is a positive multiple of LoadSize; it is longer by a whole    *)
(* part or more only if the file has changed.                              *)
WholeFileIsSent ==
  \A k \in 1 .. done :
    IF out[k].status = 200
      THEN /\ out[k].body >= out[k].length
           /\ out[k].body % LoadSize = 0
           /\ out[k].body - out[k].length < LoadSize \/ out[k].length = 0 \/ changed
      ELSE out[k].body = out[k].length

(* Every request of a tame client is answered unless the connection is     *)
(* closed, or a file has changed while it was served: mDataSize may wrap   *)
(* around then, or never be used up, and the loads go on for ever.         *)
RequestIsAnswered ==
  \A k \in 1 .. MaxRequests :
    Len(sent) >= k ~> (done >= k \/ conn = "closed" \/ ~tame \/ split \/ changed)

(* Parse returns nullptr when it has used all bytes, or where the bytes it *)
(* has not used begin (HttpRequest.cpp:39): the loop of OnMessage ends.    *)
MessageEnds == loop # "idle" ~> loop = "idle" \/ failed # "none"

=============================================================================
