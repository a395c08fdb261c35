----------------------------- MODULE InputBuffer -----------------------------
(***************************************************************************)
(* InputBuffer and its InBufObservers: one buffer filled from a            *)
(* descriptor, and observers that take its bytes independently.            *)
(*                                                                         *)
(* An observer in held has been created and not released.  The indices are *)
(* size_t in the code: where a difference of them would wrap around        *)
(* (Lost), the behaviour ends.                                             *)
(***************************************************************************)
EXTENDS DataArray, FiniteSets

CONSTANTS
  Observers,
  NoObserver,    (* nullptr *)
  InitialSize,   (* mInitialSize  *)
  ExtraBufSize,  (* mExtraBufSize *)
  Streams,       (* What the peer may send; its length bounds the behaviour. *)
  Patterns       (* What the observers look for. *)

Byte == UNION {{s[k] : k \in DOMAIN s} : s \in Streams \cup Patterns}

ASSUME InputBufferAssumption ==
  /\ NoObserver \notin Observers
  /\ InitialSize \in Nat \ {0}
  /\ ExtraBufSize \in Nat
  /\ Streams \cup Patterns \subseteq Seq(Byte)

VARIABLES
  mReadBuf, mReadIdx, mWriteIdx,
  mObservers,   (* Slots, the first of index 0. *)
  mObsHoles,
  mStartIdx, mIdx, held,
  stream, arrived

buffer == <<mReadBuf, mReadIdx, mWriteIdx>>
slots == <<mObservers, mObsHoles, mIdx, held>>
bufferVars == <<buffer, slots, mStartIdx, stream, arrived>>

ReadableBytes == mWriteIdx - mReadIdx

BufferInit ==
  /\ mReadBuf = OfSize(InitialSize) /\ mReadIdx = 0 /\ mWriteIdx = 0
  /\ mObservers = << >> /\ mObsHoles = << >> /\ held = {}
  /\ mStartIdx = [o \in Observers |-> 0] /\ mIdx = [o \in Observers |-> 0]
  /\ stream \in Streams /\ arrived = 0

(* What Size() of the buffer or of an observer has wrapped around.         *)
Lost == ReadableBytes < 0 \/ \E o \in held : mStartIdx[o] > ReadableBytes

Watching == {o \in Observers : \E i \in 1 .. Len(mObservers) : mObservers[i] = o}

(* min_idx: what every observer has taken, or the whole size if there is none. *)
Trimmed ==
  CHOOSE t \in {mReadBuf.size} \cup {mStartIdx[o] : o \in Watching} :
    t <= mReadBuf.size /\ \A o \in Watching : t <= mStartIdx[o]

(* Mutant: the observers are not told of the trim. *)
StartsUntold == mStartIdx

(* Where the observers begin once the front is trimmed. *)
StartsAfterTrim ==
  [o \in Observers |-> IF o \in Watching THEN mStartIdx[o] - Trimmed ELSE mStartIdx[o]]

(* readv(2) into the rest of mReadBuf and mExtraBuf, which is pushed. *)
Filled(b, s) ==
  LET n == b.size - mWriteIdx
      inPlace == Store(b, [k \in mWriteIdx .. b.size - 1 |->
                             IF k - mWriteIdx < Len(s) THEN s[k - mWriteIdx + 1] ELSE b.mem[k]])
  IN  IF Len(s) <= n THEN inPlace ELSE PushAll(inPlace, SubSeq(s, n + 1, Len(s)))

(* Read; n = 0 is also the end of the stream and an error. *)
Read ==
  LET room == IF mWriteIdx = mReadBuf.size THEN Resize(mReadBuf, 2 * mWriteIdx) ELSE mReadBuf
  IN \E n \in 0 .. room.size - mWriteIdx + ExtraBufSize :
       /\ ~Lost
       /\ arrived + n <= Len(stream)
       /\ mReadIdx' = mReadIdx + Trimmed
       /\ mStartIdx' = StartsAfterTrim
       /\ mReadBuf' = Filled(room, SubSeq(stream, arrived + 1, arrived + n))
       /\ mWriteIdx' = mWriteIdx + n
       /\ arrived' = arrived + n
       /\ UNCHANGED <<slots, stream>>

(* Mutant: a slot is reused for good. *)
HolesKept == mObsHoles

HolesAfterReuse == SubSeq(mObsHoles, 1, Len(mObsHoles) - 1)

CreateObserver(o) ==
  /\ ~Lost /\ o \notin held
  /\ IF mObsHoles = << >>
       THEN /\ mIdx' = [mIdx EXCEPT ![o] = Len(mObservers)]
            /\ mObservers' = Append(mObservers, o)
            /\ UNCHANGED mObsHoles
       ELSE LET idx == mObsHoles[Len(mObsHoles)]
            IN  /\ mIdx' = [mIdx EXCEPT ![o] = idx]
                /\ mObservers' = [mObservers EXCEPT ![idx + 1] = o]
                /\ mObsHoles' = HolesAfterReuse
  /\ mStartIdx' = [mStartIdx EXCEPT ![o] = 0]
  /\ held' = held \cup {o}
  /\ UNCHANGED <<buffer, stream, arrived>>

(* Release, of an observer whose owner then drops it. *)
Release(o) ==
  /\ ~Lost /\ o \in held
  /\ mObservers' = [mObservers EXCEPT ![mIdx[o] + 1] = NoObserver]
  /\ mObsHoles' = Append(mObsHoles, mIdx[o])
  /\ held' = held \ {o}
  /\ mIdx' = [mIdx EXCEPT ![o] = 0] /\ mStartIdx' = [mStartIdx EXCEPT ![o] = 0]
  /\ UNCHANGED <<buffer, stream, arrived>>

(* PopFront, DropFront and DropAll of an observer. *)
PopFront(o) ==
  \E n \in 1 .. ReadableBytes - mStartIdx[o] :
    /\ ~Lost /\ o \in held
    /\ mStartIdx' = [mStartIdx EXCEPT ![o] = @ + n]
    /\ UNCHANGED <<buffer, slots, stream, arrived>>

(* DropFront and DropAll of the buffer, which know nothing of observers.   *)
(* On an empty buffer they still put both indices back.                    *)
DropFront ==
  \E n \in 0 .. ReadableBytes :
    /\ ~Lost
    /\ mReadIdx' = IF n = ReadableBytes THEN 0 ELSE mReadIdx + n
    /\ mWriteIdx' = IF n = ReadableBytes THEN 0 ELSE mWriteIdx
    /\ UNCHANGED <<mReadBuf, slots, mStartIdx, stream, arrived>>

BufferNext ==
  \/ Read
  \/ \E o \in Observers : CreateObserver(o) \/ Release(o) \/ PopFront(o)
  \/ DropFront

BufferSpec == BufferInit /\ [][BufferNext]_bufferVars

-----------------------------------------------------------------------------

(* From Begin() to End() of an observer, or of the buffer. *)
Bytes(from) == [k \in 1 .. mWriteIdx - from |-> Cell(mReadBuf, from + k - 1)]
View(o) == Bytes(mReadIdx + mStartIdx[o])

(* Mutant: the byte behind the one that differs is skipped too. *)
SkipOneMore(addr, nm) == addr + nm + 2

(* Where the search goes on when the byte of offset nm differs. *)
Skip(addr, nm) == addr + nm + 1

(* nm: how many bytes at addr agree with the pattern. *)
Same(addr, pattern) ==
  CHOOSE k \in 0 .. Len(pattern) :
    /\ k = Len(pattern) \/ Cell(mReadBuf, addr + k) # pattern[k + 1]
    /\ \A j \in 0 .. k - 1 : Cell(mReadBuf, addr + j) = pattern[j + 1]

NotFound == -1   (* NULL *)

(* FindString, over memory that goes on behind End(): the index where      *)
(* pattern is found, or where the search leaves the storage.               *)
FindString(begin, end, pattern) ==
  LET np == Len(pattern)
      search[addr \in 0 .. mReadBuf.cap + np] ==
        CASE addr = end -> NotFound
          [] addr # end /\ addr >= mReadBuf.cap -> addr
          [] OTHER -> IF Same(addr, pattern) = np THEN addr
                      ELSE search[Skip(addr, Same(addr, pattern))]
  IN  IF end - begin < np THEN NotFound ELSE search[begin]

PeekFor(o, pattern) == FindString(mReadIdx + mStartIdx[o], mWriteIdx, pattern)

-----------------------------------------------------------------------------

(* Each observer is in the slot it will release, and every other slot is a *)
(* hole, once.  The indices stay in the storage, and while anyone observes *)
(* the one to read from does not pass the one to write to.                 *)
BufferInv ==
  /\ 0 <= mReadIdx /\ mWriteIdx <= mReadBuf.size /\ mReadBuf.size <= mReadBuf.cap
  /\ held # {} => mReadIdx <= mWriteIdx
  /\ \A o \in held : mObservers[mIdx[o] + 1] = o
  /\ Watching = held
  /\ {mObsHoles[i] : i \in 1 .. Len(mObsHoles)}
       = {i \in 0 .. Len(mObservers) - 1 : mObservers[i + 1] = NoObserver}
  /\ Len(mObservers) = Cardinality(held) + Len(mObsHoles)

(* What the header draws of the indices (InputBuffer.h:8), with or without *)
(* observers.                                                              *)
HeaderOrder == 0 <= mReadIdx /\ mReadIdx <= mWriteIdx /\ mWriteIdx <= mReadBuf.size

T == INSTANCE Tee WITH
       Readers <- Observers,
       readers <- held,
       unread <- [o \in Observers |-> IF o \in held /\ ~Lost THEN View(o) ELSE << >>],
       lost <- Lost

(* A step that loses the place in the stream. *)
Loses == DropFront \/ (Read /\ held = {})

(* Every observer sees, byte for byte, what arrived since it began and     *)
(* less what it took, however the buffer is trimmed, grown and spilled     *)
(* into mExtraBuf; the place in the stream is lost only by reading with no *)
(* observer or dropping from the buffer under an observer.                 *)
ImplementsTee == T!Spec /\ [][Lost' => Loses]_bufferVars

(* The first n bytes of the pattern stand at i of the view. *)
Begins(view, pattern, i, n) == \A k \in 1 .. n : view[i + k - 1] = pattern[k]

At(view, pattern, i) ==
  i + Len(pattern) - 1 <= Len(view) /\ Begins(view, pattern, i, Len(pattern))

(* What the documentation says of PeekFor (InBufObserver.h:45-49): the     *)
(* first place that matches the pattern, or NULL if there is none.         *)
PeekForFindsTheFirst ==
  \A o \in held, p \in Patterns :
    ~Lost =>
      LET view == View(o)
          places == {i \in 1 .. Len(view) : At(view, p, i)}
          got == PeekFor(o, p) - (mReadIdx + mStartIdx[o]) + 1
      IN  \/ places = {} /\ PeekFor(o, p) = NotFound
          \/ got \in places /\ \A j \in places : got <= j

(* A part of the pattern, that does not go on, stands before j and runs    *)
(* into it.                                                                *)
Overlapped(view, pattern, j) ==
  \E i \in 1 .. j - 1 :
    /\ j - i < Len(pattern) /\ Begins(view, pattern, i, j - i)
    /\ ~At(view, pattern, i)

(* The view ends in a part of the pattern. *)
EndsIn(view, pattern) ==
  \E i \in 1 .. Len(view) :
    /\ Len(view) - i + 1 < Len(pattern)
    /\ Begins(view, pattern, i, Len(view) - i + 1)

(* PeekFor passes over an occurrence only if a part of the pattern runs    *)
(* into it, and what it returns is an occurrence unless the view ends in a *)
(* part of the pattern, when it may be anything behind End() too.          *)
SearchMissesOnlyOverlapped ==
  \A o \in held, p \in Patterns :
    ~Lost =>
      LET view == View(o)
          begin == mReadIdx + mStartIdx[o]
          got == PeekFor(o, p)
      IN  /\ \A j \in 1 .. Len(view) :
               /\ At(view, p, j)
               /\ got = NotFound \/ begin + j - 1 < got
               => Overlapped(view, p, j)
          /\ got # NotFound => At(view, p, got - begin + 1) \/ EndsIn(view, p)

(* DataArray edits what it holds as a sequence is edited, whatever the     *)
(* size and the capacity the buffer has grown to; its loops leave the      *)
(* storage only where Insert(i, e) fills it or Remove(i, i) finds it full. *)
(* The arrays are those the buffer has when its observers have left.       *)
EditsAreSequenceEdits ==
  held = {} =>
  \A n \in 0 .. mReadBuf.cap :
    LET a == Resize(mReadBuf, n)
        s == SubSeq(stream, 1, 2)
    IN  EditsAgree(a, s) /\ StraysAreKnown(a, s)

=============================================================================
