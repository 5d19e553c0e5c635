---------------------------- MODULE BackupFrames ----------------------------
(***************************************************************************)
(* The encrypted stream of a backup archive (internal/backup/crypto.go).   *)
(* The writer cuts what it is given into frames of at most maxPlain bytes, *)
(* each sealed with its ordinal and flags, and ends with an empty final    *)
(* frame.  The file reaches the reader whole or not: cut short by an       *)
(* interrupted copy, with bytes of another copy behind it, or with frames  *)
(* out of place.  Bytes are numbered; sealing is perfect, so a frame opens *)
(* at the ordinal it was sealed for and nowhere else.                      *)
(***************************************************************************)
EXTENDS Integers, Sequences

CONSTANTS MaxPlain,    \* FramePlaintextBytes
          MaxBytes     \* bound: bytes written

ASSUME FramesAssumption == MaxPlain \in Nat \ {0} /\ MaxBytes \in Nat

VARIABLES
    written,    \* bytes given to Write
    pendingBytes,       \* frameWriter.chunk
    frames,     \* the file: frames, and perhaps half of one
    fileStage,      \* write, copied, read: the state of the file
    expected,   \* frameReader.expected
    plain,      \* bytes handed out by the reader
    verdict     \* reading, eof, error

frameVars == <<written, pendingBytes, frames, fileStage, expected, plain, verdict>>

Frame(ordinal, data, final) == [ordinal |-> ordinal, data |-> data, final |-> final, whole |-> TRUE]

FramesInit ==
    /\ written = 0 /\ pendingBytes = <<>> /\ frames = <<>> /\ fileStage = "write"
    /\ expected = 0 /\ plain = <<>> /\ verdict = "reading"

(* writeFrame. *)
WriteFrame(file, data, final) == Append(file, Frame(Len(file), data, final))

(* frameWriter.Write: full chunks leave, the rest is held. *)
Write(n) ==
    LET all == pendingBytes \o [i \in 1 .. n |-> written + i]
        full == Len(all) \div MaxPlain
        Cut(k) == SubSeq(all, (k - 1) * MaxPlain + 1, k * MaxPlain)
    IN  /\ fileStage = "write" /\ written + n <= MaxBytes
        /\ written' = written + n
        /\ pendingBytes' = SubSeq(all, full * MaxPlain + 1, Len(all))
        /\ frames' = frames \o [k \in 1 .. full |-> Frame(Len(frames) + k - 1, Cut(k), FALSE)]
        /\ UNCHANGED <<fileStage, expected, plain, verdict>>

(* frameWriter.Close: what is held, then the final frame. *)
CloseWriter ==
    /\ fileStage = "write" /\ fileStage' = "written" /\ pendingBytes' = <<>>
    /\ frames' = WriteFrame(IF pendingBytes = <<>> THEN frames ELSE WriteFrame(frames, pendingBytes, FALSE), <<>>, TRUE)
    /\ UNCHANGED <<written, expected, plain, verdict>>

(* The copy that the reader opens. *)
CopyFile ==
    /\ fileStage = "written" /\ fileStage' = "read"
    /\ \/ UNCHANGED frames
       \/ \E k \in 0 .. Len(frames) - 1 : frames' = SubSeq(frames, 1, k)
       \/ \E k \in 1 .. Len(frames) : frames' = [SubSeq(frames, 1, k) EXCEPT ![k].whole = FALSE]
       \/ \E k \in 1 .. Len(frames) : frames' = Append(frames, frames[k])
       \/ \E j, k \in 1 .. Len(frames) :
              j < k /\ frames' = [frames EXCEPT ![j] = frames[k], ![k] = frames[j]]
    /\ UNCHANGED <<written, pendingBytes, expected, plain, verdict>>

Rest == SubSeq(frames, expected + 1, Len(frames))

(* The end of the file where a frame should start. *)
AtEnd == "error"

(* readFrame: the ordinal and flags must be the expected ones and the frame must
   open under them; behind the final frame nothing may follow. *)
OpenedFrame(f) ==
    CASE ~f.whole \/ f.ordinal # expected -> "error"
      [] f.final -> IF Len(Rest) = 1 THEN "eof" ELSE "error"
      [] OTHER -> "reading"

ReadFrame ==
    /\ fileStage = "read" /\ verdict = "reading"
    /\ IF Rest = <<>> THEN verdict' = AtEnd /\ UNCHANGED <<expected, plain>>
       ELSE /\ verdict' = OpenedFrame(Head(Rest))
            /\ IF verdict' = "reading"
               THEN expected' = expected + 1 /\ plain' = plain \o Head(Rest).data
               ELSE UNCHANGED <<expected, plain>>
    /\ UNCHANGED <<written, pendingBytes, frames, fileStage>>

FramesNext == (\E n \in 0 .. MaxBytes : Write(n)) \/ CloseWriter \/ CopyFile \/ ReadFrame

FramesSpec == FramesInit /\ [][FramesNext]_frameVars

-----------------------------------------------------------------------------
(* However the archive was written and whatever happened to the copy, a reader
   that reaches the end without an error has read exactly the bytes written, and
   what it has handed out at any time is a prefix of them (frameWriter,
   frameReader). *)
EofIsComplete ==
    /\ plain = [i \in 1 .. Len(plain) |-> i] /\ Len(plain) <= written
    /\ verdict = "eof" => Len(plain) = written
=============================================================================
