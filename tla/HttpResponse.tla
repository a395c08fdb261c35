---------------------------- MODULE HttpResponse ----------------------------
(***************************************************************************)
(* HttpResponse: the head, locked before there is content, and the content *)
(* loaded from a file in parts of LoadSize units.                          *)
(***************************************************************************)
EXTENDS Integers

CONSTANTS
  LoadSize,    (* HttpModuleLoadFile::mDefaultLoadSize.       *)
  SizeLimit    (* How many values a size_t has (2^64).        *)

(* size is what the file holds: st_size of mFileStat, until it changes.    *)
(* pos is the position in mFilePtr (0 when it is to be opened), body what  *)
(* mContent holds behind the head, left mDataSize; length and announced    *)
(* are what the head says of the body's length and of the connection.      *)
NewResponse ==
  [status |-> 0, close |-> TRUE, locked |-> FALSE, left |-> 0, body |-> 0,
   size |-> 0, pos |-> 0, loads |-> 0, length |-> 0, announced |-> TRUE]

CloseConnection(res) == res.close \/ res.status \notin {200, 101}

LockHead(res, n) ==
  [res EXCEPT !.locked = TRUE, !.left = n, !.body = 0,
              !.length = n, !.announced = CloseConnection(res)]

AppendContent(res, n) == [res EXCEPT !.body = @ + n]

FileRead(res) ==
  CASE res.size <= res.pos -> 0
    [] res.size \in res.pos .. res.pos + LoadSize -> res.size - res.pos
    [] OTHER -> LoadSize

(* The buffer grows to a whole part and never shrinks; a short read closes *)
(* the file, and the next load opens it from its beginning. mDataSize is   *)
(* unsigned, and wraps around when more is read than the head has said.    *)
LoadContent(res) ==
  LET n == FileRead(res)
  IN  [res EXCEPT !.body = IF @ < LoadSize THEN LoadSize ELSE @,
                  !.left = (@ - n) % SizeLimit,
                  !.loads = @ + 1,
                  !.pos = IF n < LoadSize THEN 0 ELSE @ + n]

=============================================================================
