------------------------------ MODULE Framing -------------------------------
(***************************************************************************)
(* Sealed content: the frames a stream of plaintext is cut into, the       *)
(* offsets of domain/framing.py, and the reader that opens a whole object  *)
(* or the frames of a range, from chunks of any size.  An object is a      *)
(* sequence of cells.  The cells of a frame are what AES-GCM makes of its  *)
(* plaintext: they open together, complete and in place, or not at all.    *)
(* Between writing and reading the store may damage the object, and the    *)
(* configured frame size may change.                                       *)
(***************************************************************************)
EXTENDS Integers, Sequences, SequencesExt, FiniteSets, FiniteSetsExt

CONSTANTS
    PlainSizes,     \* sizes of plaintext
    FrameSizes,     \* values of the frame size setting
    Chunks,         \* sizes of chunks, of the request body and of the store
    HeaderCells,    \* HEADER_BYTES
    FrameOverhead,  \* FRAME_OVERHEAD
    Absence         \* no header field, no range

ASSUME FramingAssumption ==
    /\ PlainSizes \subseteq Nat /\ FrameSizes \subseteq Nat \ {0}
    /\ Chunks \subseteq Nat \ {0}
    /\ HeaderCells \in Nat \ {0} /\ FrameOverhead \in Nat \ {0}
    /\ Absence \notin Nat

VARIABLES
    writer,     \* seal: size of the plaintext, frame size, bytes taken, buffer, index
    object,     \* the stored cells
    damage,     \* what happened to them since
    reader      \* open: the range, the source, the buffer and what came out

frameVars == <<writer, object, damage, reader>>

(* The plaintext of size n is its bytes by number. *)
Plain(n) == [i \in 1 .. n |-> i]

Header(fb) == [i \in 1 .. HeaderCells |-> [version |-> "header", index |-> fb, at |-> i]]

(* _seal_frame: version, index and the final flag are authenticated.       *)
_seal_frame(data, index, final) ==
    [i \in 1 .. Len(data) + FrameOverhead |->
        [version |-> "this", index |-> index, final |-> final, data |-> data, at |-> i]]

-----------------------------------------------------------------------------
(* The arithmetic.                                                         *)

frame_count(n, fb) == IF n = 0 THEN 1 ELSE (n + fb - 1) \div fb

ciphertext_offset(index, fb) == HeaderCells + index * (fb + FrameOverhead)

ciphertext_size(n, fb) ==
    HeaderCells + (n \div fb) * (fb + FrameOverhead)
        + IF (n % fb) # 0 \/ n = 0 THEN (n % fb) + FrameOverhead ELSE 0

(* parse_range of "bytes=first-last"; Absence serves the whole object.     *)
parse_range(first, last, n) ==
    LET end == IF last = Absence THEN n - 1 ELSE Min({last, n - 1})
        tail == Min({last, n})
    IN  IF n = 0 \/ (first = Absence /\ last = Absence) THEN Absence
        ELSE IF first = Absence
             THEN IF tail = 0 THEN Absence ELSE [start |-> n - tail, length |-> tail]
        ELSE IF first >= n \/ end < first THEN Absence
             ELSE [start |-> first, length |-> end - first + 1]

(* The frames that hold the range; a range of parse_range is never empty.  *)
frames_for_range(range, fb) ==
    [first |-> range.start \div fb, last |-> (range.start + range.length - 1) \div fb,
     skip |-> range.start % fb, take |-> range.length]

Asked == IF reader.range = Absence THEN Plain(writer.size)
         ELSE SubSeq(Plain(writer.size), reader.range.start + 1,
                     reader.range.start + reader.range.length)

-----------------------------------------------------------------------------
(* seal.                                                                   *)

Idle == [phase |-> "idle", range |-> Absence, source |-> <<>>, buffer |-> <<>>, fb |-> 0,
         index |-> 0, skip |-> 0, left |-> Absence, final |-> FALSE, out |-> <<>>]

FrameInit ==
    /\ \E n \in PlainSizes, fb \in FrameSizes :
        /\ writer = [phase |-> "seal", size |-> n, fb |-> fb, taken |-> 0,
                     buffer |-> <<>>, index |-> 0]
        /\ object = Header(fb)
    /\ damage = "none"
    /\ reader = Idle

seal_chunk(k) ==
    LET upTo == Min({writer.taken + k, writer.size}) IN
    /\ writer.phase = "seal" /\ writer.taken < writer.size
    /\ Len(writer.buffer) <= writer.fb
    /\ writer' = [writer EXCEPT !.taken = upTo,
                     !.buffer = @ \o SubSeq(Plain(writer.size), writer.taken + 1, upTo)]
    /\ UNCHANGED <<object, damage, reader>>

(* A variant that emits a full frame without knowing whether more follows. *)
MoreFollowsAtLeast(buffer, fb) == Len(buffer) >= fb

(* Strictly more than a frame, so that the last one can be marked.         *)
MoreFollows(buffer, fb) == Len(buffer) > fb

seal_frame ==
    /\ writer.phase = "seal" /\ MoreFollows(writer.buffer, writer.fb)
    /\ object' = object \o _seal_frame(SubSeq(writer.buffer, 1, writer.fb), writer.index, FALSE)
    /\ writer' = [writer EXCEPT !.index = @ + 1,
                     !.buffer = SubSeq(@, writer.fb + 1, Len(@))]
    /\ UNCHANGED <<damage, reader>>

seal_last ==
    /\ writer.phase = "seal" /\ writer.taken = writer.size
    /\ ~ MoreFollows(writer.buffer, writer.fb)
    /\ object' = object \o _seal_frame(writer.buffer, writer.index, TRUE)
    /\ writer' = [writer EXCEPT !.phase = "stored"]
    /\ UNCHANGED <<damage, reader>>

-----------------------------------------------------------------------------
(* What a store may have done to an object.                                *)

Stored == writer.phase = "stored" /\ reader.phase = "idle" /\ damage = "none"

FrameAt(i) ==
    SubSeq(object, ciphertext_offset(i, writer.fb) + 1,
           Min({ciphertext_offset(i + 1, writer.fb), Len(object)}))

truncated ==
    /\ Stored
    /\ \E k \in 0 .. Len(object) - 1 : object' = SubSeq(object, 1, k)
    /\ damage' = "truncated"
    /\ UNCHANGED <<writer, reader>>

(* Frames in another order, some lost or repeated. *)
rearranged ==
    /\ Stored
    /\ \E order \in [1 .. frame_count(writer.size, writer.fb) -> 0 .. writer.index] :
        /\ object' = Header(writer.fb) \o FlattenSeq([i \in DOMAIN order |-> FrameAt(order[i])])
        /\ object' # object
    /\ damage' = "rearranged"
    /\ UNCHANGED <<writer, reader>>

(* A cell of another version of the file, or of something else. *)
substituted ==
    /\ Stored
    /\ \E k \in DOMAIN object : object' = [object EXCEPT ![k].version = "other"]
    /\ damage' = "substituted"
    /\ UNCHANGED <<writer, reader>>

-----------------------------------------------------------------------------
(* open, of everything or of a range.  Only a whole read sees the header   *)
(* and the frame size in it; a range is computed with the setting.         *)

_open_encrypted(first, last, fb) ==
    LET range == parse_range(first, last, writer.size)
        span == frames_for_range(range, fb)
        from == ciphertext_offset(span.first, fb)
        to == Min({ciphertext_offset(span.last + 1, fb), Len(object)})
    IN  /\ writer.phase = "stored" /\ reader.phase = "idle"
        /\ reader' =
            IF range = Absence
            THEN [Idle EXCEPT !.phase = "header", !.source = object]
            ELSE [Idle EXCEPT !.phase = "frames", !.range = range, !.fb = fb,
                     !.source = SubSeq(object, from + 1, to), !.index = span.first,
                     !.skip = span.skip, !.left = span.take]
        /\ UNCHANGED <<writer, object, damage>>

Wanted == IF reader.phase = "header" THEN HeaderCells ELSE reader.fb + FrameOverhead

Reading == reader.phase \in {"header", "frames"}

Ends(phase) == reader' = [reader EXCEPT !.phase = phase, !.source = <<>>, !.buffer = <<>>]

_pull(k) ==
    /\ Reading /\ Len(reader.buffer) < Wanted /\ reader.source # <<>>
    /\ reader' = [reader EXCEPT !.buffer = @ \o SubSeq(reader.source, 1, Min({k, Len(reader.source)})),
                                !.source = SubSeq(@, k + 1, Len(@))]
    /\ UNCHANGED <<writer, object, damage>>

(* decode_header: the magic, the format and a plausible size. *)
frame_size ==
    LET head == SubSeq(reader.buffer, 1, HeaderCells) IN
    /\ reader.phase = "header"
    /\ \/ /\ Len(reader.buffer) >= HeaderCells
          /\ \E fb \in FrameSizes :
                /\ head = Header(fb)
                /\ reader' = [reader EXCEPT !.phase = "frames", !.fb = fb,
                                 !.buffer = SubSeq(@, HeaderCells + 1, Len(@))]
       \/ /\ Len(reader.buffer) >= HeaderCells /\ head \notin {Header(fb) : fb \in FrameSizes}
          /\ Ends("failed")
       \/ /\ Len(reader.buffer) < HeaderCells /\ reader.source = <<>>
          /\ Ends("failed")
    /\ UNCHANGED <<writer, object, damage>>

(* _open_frame: the tag holds for exactly the cells of one sealed frame of *)
(* this version and index.                                                 *)
_open_frame(cells, index) ==
    {c \in {cells[1]} : /\ c.version = "this" /\ c.index = index
                        /\ cells = _seal_frame(c.data, index, c.final)}

(* One turn of the loop in open. *)
Opened(cells, rest) ==
    LET opened == _open_frame(cells, reader.index)
        c == CHOOSE x \in opened : TRUE
        all == SubSeq(c.data, reader.skip + 1, Len(c.data))
        piece == IF reader.left = Absence THEN all ELSE SubSeq(all, 1, Min({reader.left, Len(all)}))
        left == IF reader.left = Absence THEN Absence ELSE reader.left - Len(piece)
    IN  IF opened = {} THEN Ends("failed")
        ELSE reader' = [reader EXCEPT
                !.phase = IF left = 0 THEN "done" ELSE "frames",
                !.buffer = IF left = 0 THEN <<>> ELSE rest,
                !.source = IF left = 0 THEN <<>> ELSE @,
                !.index = @ + 1, !.skip = 0, !.left = left,
                !.final = c.final, !.out = @ \o piece]

next_frame ==
    /\ reader.phase = "frames" /\ Len(reader.buffer) >= Wanted
    /\ Opened(SubSeq(reader.buffer, 1, Wanted), SubSeq(reader.buffer, Wanted + 1, Len(reader.buffer)))
    /\ UNCHANGED <<writer, object, damage>>

(* A variant that takes the end of the stream for the end of the content.  *)
ends_anywhere == Ends("done")

(* The stream is over: a whole read must have seen the final frame; a      *)
(* range read ends with what it has.                                       *)
stream_over == Ends(IF reader.range # Absence \/ reader.final THEN "done" ELSE "failed")

(* A short tail is the last frame, and a tail that cannot be one an error. *)
last_frames ==
    /\ reader.phase = "frames" /\ Len(reader.buffer) < Wanted /\ reader.source = <<>>
    /\ \/ Len(reader.buffer) >= FrameOverhead /\ Opened(reader.buffer, <<>>)
       \/ Len(reader.buffer) \in 1 .. FrameOverhead - 1 /\ Ends("failed")
       \/ reader.buffer = <<>> /\ stream_over
    /\ UNCHANGED <<writer, object, damage>>

-----------------------------------------------------------------------------
FrameNext ==
    \/ \E k \in Chunks : seal_chunk(k) \/ _pull(k)
    \/ seal_frame \/ seal_last
    \/ truncated \/ rearranged \/ substituted
    \/ \E fb \in FrameSizes :
        LET fields == {Absence} \cup 0 .. writer.size IN
        \E first, last \in fields : _open_encrypted(first, last, fb)
    \/ frame_size \/ next_frame \/ last_frames

FrameSpec == FrameInit /\ [][FrameNext]_frameVars

-----------------------------------------------------------------------------
(* Whatever the store did to an object, or the operator to the frame size, *)
(* no byte is served that was not asked for at that place: what came out   *)
(* is a prefix of it, and a whole read that ends well is all of it.  (Both *)
(* at once can fool a range read: a frame that was moved to where the new  *)
(* size looks for its index.)                                              *)
OnlyTrueBytes ==
    /\ \/ IsPrefix(reader.out, Asked)
       \/ damage = "rearranged" /\ reader.range # Absence /\ reader.fb # writer.fb
    /\ reader.phase = "done" /\ reader.range = Absence => reader.out = Asked

(* An object nobody damaged is as long as announced and opens: whole, with *)
(* any setting, and any range with the setting it was written with.        *)
IntactIsReadable ==
    damage = "none" =>
        /\ writer.phase = "stored" =>
            /\ Len(object) = ciphertext_size(writer.size, writer.fb)
            /\ writer.index + 1 = frame_count(writer.size, writer.fb)
        /\ reader.range = Absence \/ reader.fb = writer.fb =>
            /\ reader.phase # "failed"
            /\ reader.phase = "done" => reader.out = Asked
=============================================================================
